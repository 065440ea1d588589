---------------------- MODULE CheckMultipleMountPoints ----------------------
(***************************************************************************)
(* CheckMultipleMountPoints of src/system/findmnt.go: one goroutine per    *)
(* mount point runs CheckMountPoint and sends its result, with the index   *)
(* of the mount point, on a buffered channel; the caller receives as many  *)
(* results as there are mount points, or gives up when its context is done.*)
(*                                                                         *)
(* CheckMountPoint is one step with either kind of result (FindmntWrapper  *)
(* has its details). The launching loop is not a step: nothing waits for   *)
(* it, and a goroutine launched late is one that runs late.                *)
(***************************************************************************)
EXTENDS Naturals, Sequences

CONSTANT N      \* len(mountPoints)

ASSUME CountAssumption == N \in Nat

Index == 1 .. N

VARIABLES
    ctxDone,    \* ctx has been cancelled or has expired
    worker,     \* the goroutine of each index: "checking", "sending", "exited"
    outcome,    \* what its CheckMountPoint returned
    resultChan, \* the buffered channel, oldest first
    results,    \* the slice the caller returns
    i,          \* loop variable of the collecting loop, from 1
    caller      \* "collecting" or "returned"

vars == <<ctxDone, worker, outcome, resultChan, results, i, caller>>

Kind == {"answer", "error"}

\* A result names the mount point it is about.
Result == [mount : Index, kind : Kind \cup {"context cancelled"}]

Nil == [mount |-> 0, kind |-> "nil"]

\* Mutant: a channel one slot short.
CapacityShort == IF N > 0 THEN N - 1 ELSE 0

Capacity == N

-----------------------------------------------------------------------------
Init ==
    /\ ctxDone = FALSE
    /\ worker = [k \in Index |-> "checking"]
    /\ outcome = [k \in Index |-> "none"]
    /\ resultChan = <<>>
    /\ results = [k \in Index |-> Nil]
    /\ i = 1
    /\ caller = "collecting"

\* A check may run to its end or fail, whether or not the context is done.
Check(k) ==
    /\ worker[k] = "checking"
    /\ \E kind \in Kind : outcome' = [outcome EXCEPT ![k] = kind]
    /\ worker' = [worker EXCEPT ![k] = "sending"]
    /\ UNCHANGED <<ctxDone, resultChan, results, i, caller>>

\* Mutant: the index is one less than that of the mount point.
MessageOffByOne(k) ==
    [index |-> k - 1, result |-> [mount |-> k, kind |-> outcome[k]]]

Message(k) == [index |-> k, result |-> [mount |-> k, kind |-> outcome[k]]]

Send(k) ==
    /\ worker[k] = "sending"
    /\ Len(resultChan) < Capacity
    /\ resultChan' = Append(resultChan, Message(k))
    /\ worker' = [worker EXCEPT ![k] = "exited"]
    /\ UNCHANGED <<ctxDone, outcome, results, i, caller>>

\* Mutant: results are stored in the order they arrive.
StoreByArrival(res) == results' = [results EXCEPT ![i] = res.result]

Store(res) == results' = [results EXCEPT ![res.index] = res.result]

\* Mutant: the collecting loop ends one result early.
MoreShort == i < N

More == i <= N

Receive ==
    /\ caller = "collecting" /\ More
    /\ resultChan # <<>>
    /\ Store(Head(resultChan))
    /\ resultChan' = Tail(resultChan)
    /\ i' = i + 1
    /\ UNCHANGED <<ctxDone, worker, outcome, caller>>

\* Mutant: the results already received are overwritten.
FilledCareless(j) == j >= i

Filled(j) == j >= i /\ results[j] = Nil

\* ctx.Done() is selected: the rest of the slice is filled, from the loop
\* variable on, and returned.
GiveUp ==
    /\ caller = "collecting" /\ More
    /\ ctxDone
    /\ results' = [j \in Index |->
            IF Filled(j) THEN [mount |-> j, kind |-> "context cancelled"]
            ELSE results[j]]
    /\ caller' = "returned"
    /\ UNCHANGED <<ctxDone, worker, outcome, resultChan, i>>

Return ==
    /\ caller = "collecting" /\ ~More
    /\ caller' = "returned"
    /\ UNCHANGED <<ctxDone, worker, outcome, resultChan, results, i>>

Cancel ==
    /\ ~ctxDone
    /\ ctxDone' = TRUE
    /\ UNCHANGED <<worker, outcome, resultChan, results, i, caller>>

Next ==
    \/ \E k \in Index : Check(k) \/ Send(k)
    \/ Receive \/ GiveUp \/ Return
    \/ Cancel

Spec == Init /\ [][Next]_vars

(***************************************************************************)
(* Every check ends (CallsReturn of FindmntWrapper) and the goroutines are *)
(* scheduled; nobody is obliged to cancel.                                 *)
(***************************************************************************)
Fairness ==
    /\ \A k \in Index : WF_vars(Check(k)) /\ WF_vars(Send(k))
    /\ WF_vars(Receive \/ GiveUp \/ Return)

FairSpec == Spec /\ Fairness

-----------------------------------------------------------------------------
(* Variables within their types. *)
TypeOK ==
    /\ ctxDone \in BOOLEAN
    /\ worker \in [Index -> {"checking", "sending", "exited"}]
    /\ outcome \in [Index -> Kind \cup {"none"}]
    /\ resultChan \in Seq([index : Index, result : Result])
    /\ Len(resultChan) <= N
    /\ results \in [Index -> Result \cup {Nil}]
    /\ i \in 1 .. N + 1
    /\ caller \in {"collecting", "returned"}

\* What the slice may lack when the call returns.
ReturnExplained ==
    caller = "returned" =>
        \A j \in Index :
            \/ results[j].kind \in Kind
            \/ /\ ctxDone
               /\ results[j].kind = IF j < i THEN "nil" ELSE "context cancelled"

(* Whatever the order the goroutines finish in, the result at an index is  *)
(* the one of the mount point at that index, and unless the caller gave up *)
(* it is what that goroutine's check returned. A call whose context was    *)
(* never done returns every result; of one that gave up the missing ones   *)
(* are cancellation errors from the number of results received on          *)
(* (findmnt.go:228), and nil below it.                                     *)
OwnResult ==
    /\ \A j \in Index :
          results[j] # Nil =>
              /\ results[j].mount = j
              /\ results[j].kind \in Kind => results[j].kind = outcome[j]
    /\ ReturnExplained

(* A result the caller has received is in what it returns: giving up does  *)
(* not replace answers by cancellation errors.                             *)
ReceivedIsKept ==
    [][\A j \in Index : results[j] # Nil => results'[j] = results[j]]_vars

(* The caller returns even if a check was cancelled, and no goroutine is   *)
(* left blocked on the channel when the caller has gone.                   *)
NobodyBlocks ==
    <>(caller = "returned" /\ \A k \in Index : worker[k] = "exited")
=============================================================================
