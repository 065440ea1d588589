--------------------------- MODULE ResourceManager ---------------------------
(***************************************************************************)
(* The resource manager of src/resources/cleanup.go: a map of resources,   *)
(* each with a cleanup function, under a lock.                             *)
(*                                                                         *)
(* UnregisterResource and CleanupAll hold the lock for as long as the      *)
(* cleanups take, and remove the resources when they are done.             *)
(* CleanupResource looks the resource up under the lock, but runs the      *)
(* cleanup and counts it without: the same resource may be cleaned up,     *)
(* replaced or removed meanwhile, and its increments of the statistics are *)
(* a load and a store that other increments come between.                  *)
(*                                                                         *)
(* Resources are numbered as they are registered, since one registered     *)
(* under the id of another is another resource.                            *)
(***************************************************************************)
EXTENDS Integers, FiniteSets

CONSTANTS
    Callers,        \* goroutines that use the manager
    Ids,            \* ids to register resources under
    None,           \* no goroutine
    MaxResources,   \* bounds the registrations
    NoCleanup,      \* numbers of the resources whose Cleanup is nil
    MaxUnlocked     \* bounds the cleanups run by CleanupResource

ASSUME ManagerAssumption ==
    /\ IsFiniteSet(Callers)
    /\ None \notin Callers
    /\ MaxResources \in Nat /\ MaxUnlocked \in Nat
    /\ NoCleanup \subseteq 1 .. MaxResources

VARIABLES
    resources,  \* rm.resources; 0 where the map has no entry
    total,      \* rm.stats.totalResources
    stats,      \* cleanedResources ("ok") and failedCleanups ("failed")
    writer,     \* the goroutine that holds rm.mu for writing
    cancelled,  \* rm.ctx is done
    loop,       \* where the background loop is
    pc,         \* where each caller is
    target,     \* ids whose entries the operation removes in the end
    todo,       \* those of them it has still to clean up
    outcome,    \* how the cleanup it ran last has ended
    read,       \* the counter as loaded for an increment
    retired,    \* how often UnregisterResource and CleanupAll cleaned it up
    replaced,   \* resources whose entry was given to another one
    unlocked,   \* cleanups CleanupResource has begun
    ended       \* cleanups that have ended

mapVars == <<resources, total, retired, replaced>>
countVars == <<stats, outcome, read, ended>>
jobVars == <<writer, target, todo>>
vars == <<mapVars, countVars, jobVars, cancelled, loop, pc, unlocked>>

Label == {"idle", "closing", "retiring", "cleaning", "storing"}

Outcome == {"ok", "failed"}

Resource == 1 .. MaxResources

\* Mutant: the lock is not taken.
FreeAlways == TRUE

Free == writer = None

-----------------------------------------------------------------------------
Init ==
    /\ resources = [id \in Ids |-> 0]
    /\ total = 0
    /\ stats = [k \in Outcome |-> 0]
    /\ writer = None
    /\ cancelled = FALSE
    /\ loop = "selecting"
    /\ pc = [p \in Callers |-> "idle"]
    /\ target = [p \in Callers |-> {}]
    /\ todo = [p \in Callers |-> {}]
    /\ outcome = [p \in Callers |-> "ok"]
    /\ read = [p \in Callers |-> 0]
    /\ retired = [r \in Resource |-> 0]
    /\ replaced = {}
    /\ unlocked = 0
    /\ ended = 0

Goto(p, label) == pc' = [pc EXCEPT ![p] = label]

\* Nothing blocks inside, so the critical section is one step.
RegisterResource(p, id) ==
    /\ pc[p] = "idle" /\ Free
    /\ total < MaxResources
    /\ total' = total + 1
    /\ resources' = [resources EXCEPT ![id] = total + 1]
    /\ replaced' = replaced \cup ({resources[id]} \ {0})
    /\ UNCHANGED <<retired, countVars, jobVars, cancelled, loop, pc, unlocked>>

Registered == {id \in Ids : resources[id] # 0}

\* The lock is taken and the ids in S are to be cleaned up and removed.
Retire(p, S) ==
    /\ Free
    /\ writer' = p
    /\ target' = [target EXCEPT ![p] = S]
    /\ todo' = [todo EXCEPT ![p] = S \cap Registered]
    /\ Goto(p, "retiring")
    /\ UNCHANGED <<mapVars, countVars, loop, unlocked>>

\* An unknown id is an error and changes nothing.
UnregisterResource(p, id) ==
    /\ pc[p] = "idle"
    /\ id \in Registered
    /\ Retire(p, {id})
    /\ UNCHANGED cancelled

CleanupAll(p) ==
    /\ pc[p] = "idle"
    /\ Retire(p, Ids)
    /\ UNCHANGED cancelled

\* Close cancels the context, without the lock, and goes on as CleanupAll.
Close(p) ==
    /\ pc[p] = "idle"
    /\ cancelled' = TRUE
    /\ Goto(p, "closing")
    /\ UNCHANGED <<mapVars, countVars, jobVars, loop, unlocked>>

CloseCleanupAll(p) ==
    /\ pc[p] = "closing"
    /\ Retire(p, Ids)
    /\ UNCHANGED cancelled

\* The lock is given back before the cleanup begins.
CleanupResource(p, id) ==
    /\ pc[p] = "idle" /\ Free
    /\ id \in Registered /\ resources[id] \notin NoCleanup
    /\ unlocked < MaxUnlocked
    /\ unlocked' = unlocked + 1
    /\ Goto(p, "cleaning")
    /\ UNCHANGED <<mapVars, countVars, jobVars, cancelled, loop>>

-----------------------------------------------------------------------------
(* Under the lock: one cleanup after the other, then the removal. *)

AfterLookup(r) == IF r \in NoCleanup THEN "retiring" ELSE "cleaning"

\* The next entry, in the order Go iterates over the map: any.
Visit(p, id) ==
    /\ pc[p] = "retiring"
    /\ id \in todo[p]
    /\ todo' = [todo EXCEPT ![p] = @ \ {id}]
    /\ retired' = [retired EXCEPT ![resources[id]] =
                       IF resources[id] \in NoCleanup THEN @ ELSE @ + 1]
    /\ Goto(p, AfterLookup(resources[id]))
    /\ UNCHANGED <<resources, total, replaced, countVars, writer, target, cancelled, loop, unlocked>>

\* Mutant: the operation ends, like a function that returns the first error.
FinishedHasty(p) == todo[p] = {} \/ outcome[p] = "failed"

Finished(p) == todo[p] = {}

\* Mutant: a resource whose cleanup failed stays in the map.
RemainingOnError(p) ==
    [id \in Ids |-> IF id \in target[p] /\ outcome[p] = "ok" THEN 0 ELSE resources[id]]

Remaining(p) == [id \in Ids |-> IF id \in target[p] THEN 0 ELSE resources[id]]

\* Mutant: the lock is not given back.
UnlockedNever == writer

Unlocked == None

\* The entries are removed, whether or not the cleanups failed.
Remove(p) ==
    /\ pc[p] = "retiring"
    /\ Finished(p)
    /\ resources' = Remaining(p)
    /\ writer' = Unlocked
    /\ target' = [target EXCEPT ![p] = {}]
    /\ todo' = [todo EXCEPT ![p] = {}]
    /\ outcome' = [outcome EXCEPT ![p] = "ok"]
    /\ Goto(p, "idle")
    /\ UNCHANGED <<total, retired, replaced, stats, read, ended, cancelled, loop, unlocked>>

-----------------------------------------------------------------------------
(* The cleanup and its count, with the lock held or not. *)

\* The cleanup has returned and the counter is loaded; that other steps may
\* come between the two makes no difference, since the cleanup may take long.
CleanupReturns(p, how) ==
    /\ pc[p] = "cleaning"
    /\ outcome' = [outcome EXCEPT ![p] = how]
    /\ read' = [read EXCEPT ![p] = stats[how]]
    /\ ended' = ended + 1
    /\ Goto(p, "storing")
    /\ UNCHANGED <<mapVars, stats, jobVars, cancelled, loop, unlocked>>

\* Mutant: a failed cleanup is counted as cleaned up, too.
CountedTwice(p) ==
    [k \in Outcome |-> IF k = outcome[p] THEN read[p] + 1
                       ELSE IF k = "ok" THEN stats[k] + 1 ELSE stats[k]]

Counted(p) == [stats EXCEPT ![outcome[p]] = read[p] + 1]

Store(p) ==
    /\ pc[p] = "storing"
    /\ stats' = Counted(p)
    /\ read' = [read EXCEPT ![p] = 0]
    /\ IF writer = p
       THEN Goto(p, "retiring") /\ UNCHANGED outcome
       ELSE Goto(p, "idle") /\ outcome' = [outcome EXCEPT ![p] = "ok"]
    /\ UNCHANGED <<mapVars, ended, jobVars, cancelled, loop, unlocked>>

-----------------------------------------------------------------------------
(* The background loop: its ticker sends it through the lock, to note the  *)
(* time of the collection and to look for old resources.                   *)

LoopTick ==
    /\ loop = "selecting"
    /\ loop' = "sweeping"
    /\ UNCHANGED <<mapVars, countVars, jobVars, cancelled, pc, unlocked>>

LoopSweep ==
    /\ loop = "sweeping" /\ Free
    /\ loop' = "selecting"
    /\ UNCHANGED <<mapVars, countVars, jobVars, cancelled, pc, unlocked>>

LoopExit ==
    /\ loop = "selecting" /\ cancelled
    /\ loop' = "exited"
    /\ UNCHANGED <<mapVars, countVars, jobVars, cancelled, pc, unlocked>>

Step(p) ==
    \/ \E id \in Ids : Visit(p, id)
    \/ Remove(p)
    \/ \E how \in Outcome : CleanupReturns(p, how)
    \/ Store(p)

Operation(p) ==
    \/ \E id \in Ids :
          \/ RegisterResource(p, id) \/ UnregisterResource(p, id)
          \/ CleanupResource(p, id)
    \/ CleanupAll(p) \/ Close(p)

Next ==
    \/ \E p \in Callers : Operation(p) \/ CloseCleanupAll(p) \/ Step(p)
    \/ LoopTick \/ LoopSweep \/ LoopExit

Spec == Init /\ [][Next]_vars

(***************************************************************************)
(* Cleanups return (those of the server give themselves 30 seconds), the   *)
(* lock is handed to whoever waits for it, as sync.RWMutex promises, and   *)
(* select does not ignore a ready case for ever.                           *)
(***************************************************************************)
Fairness ==
    /\ \A p \in Callers : WF_vars(Step(p)) /\ SF_vars(CloseCleanupAll(p))
    /\ SF_vars(LoopSweep) /\ SF_vars(LoopExit)

FairSpec == Spec /\ Fairness

-----------------------------------------------------------------------------
(* Variables within their types; the entries are worked on by the holder   *)
(* of the lock only, and not after its operation has returned.             *)
TypeOK ==
    /\ resources \in [Ids -> 0 .. total]
    /\ total \in 0 .. MaxResources
    /\ stats \in [Outcome -> Nat]
    /\ writer \in Callers \cup {None}
    /\ cancelled \in BOOLEAN
    /\ loop \in {"selecting", "sweeping", "exited"}
    /\ pc \in [Callers -> Label]
    /\ target \in [Callers -> SUBSET Ids]
    /\ todo \in [Callers -> SUBSET Ids]
    /\ outcome \in [Callers -> Outcome]
    /\ read \in [Callers -> Nat]
    /\ retired \in [Resource -> Nat]
    /\ replaced \subseteq 1 .. total
    /\ unlocked \in 0 .. MaxUnlocked
    /\ ended \in Nat
    /\ \A p \in Callers :
          /\ pc[p] = "retiring" => writer = p
          /\ writer = p => pc[p] \in Label \ {"idle", "closing"}

InMap == {resources[id] : id \in Ids}

(* Neither a failing cleanup nor operations that overlap make the manager  *)
(* lose a resource: what is no longer in the map was cleaned up under the  *)
(* lock, or has no cleanup, or was replaced by a registration under its id *)
(* (line 112), whose predecessor nobody cleans up.                         *)
NothingForgotten ==
    \A r \in 1 .. total :
        \/ r \in InMap \cup NoCleanup \cup replaced
        \/ retired[r] > 0

(* UnregisterResource, CleanupAll and Close between them clean a resource  *)
(* up once, also if the cleanup fails and if Stop runs CleanupAll and Close*)
(* in turn. Only CleanupResource cleans up again.                          *)
RetiredOnce == \A r \in Resource : retired[r] <= 1

Uncounted ==
    IF writer # None /\ pc[writer] = "storing" THEN 1 ELSE 0

(* The statistics never claim a cleanup that did not end, and they are     *)
(* exact until CleanupResource is used: its increments of lines 156 and    *)
(* 161, made without the lock, can undo others.                            *)
StatsHonest ==
    /\ stats["ok"] + stats["failed"] <= ended
    /\ unlocked = 0 => stats["ok"] + stats["failed"] + Uncounted = ended

(* Every operation returns and gives the lock back, and Close ends the     *)
(* background loop, which may be waiting for the lock that the cleanups    *)
(* are holding.                                                            *)
OperationsReturn ==
    /\ \A p \in Callers : pc[p] # "idle" ~> pc[p] = "idle"
    /\ cancelled ~> loop = "exited"
=============================================================================
