------------------- MODULE CheckMultipleMountPoints_proofs -------------------
(***************************************************************************)
(* What holds of CheckMultipleMountPoints for any number of mount points.  *)
(* The strengthening says where each result is: with its goroutine, in the *)
(* channel, or in the slice, and in one of them only.                      *)
(***************************************************************************)
EXTENDS CheckMultipleMountPoints, FiniteSetTheorems, TLAPS

Received == {j \in Index : results[j] # Nil}

\* What waits in the channel is what an exited goroutine's check returned.
InChannel ==
    \A a \in 1 .. Len(resultChan) :
        /\ worker[resultChan[a].index] = "exited"
        /\ resultChan[a].result =
              [mount |-> resultChan[a].index, kind |-> outcome[resultChan[a].index]]

\* No index is in the channel twice, or both there and in the slice.
OnePlace ==
    /\ \A a, b \in 1 .. Len(resultChan) :
          resultChan[a].index = resultChan[b].index => a = b
    /\ caller = "collecting" =>
          \A a \in 1 .. Len(resultChan) : results[resultChan[a].index] = Nil

Filed ==
    \A j \in Received :
        /\ results[j].mount = j
        /\ results[j].kind \in Kind => worker[j] = "exited" /\ results[j].kind = outcome[j]
        /\ caller = "collecting" => results[j].kind \in Kind

Answered == \A k \in Index : worker[k] # "checking" => outcome[k] \in Kind

Counted == caller = "collecting" => Cardinality(Received) = i - 1

Checking == {k \in Index : worker[k] = "checking"}

Exited == {k \in Index : worker[k] = "exited"}

\* What was sent is in the channel or was received.
Conserved == Len(resultChan) + (i - 1) = Cardinality(Exited)

\* Nobody waits for a step that nobody is left to take.
NobodyStuck ==
    /\ \A k \in Index : worker[k] = "sending" => Len(resultChan) < Capacity
    /\ caller = "collecting" /\ More /\ Exited = Index => resultChan # <<>>

\* The steps a call may still take.
StepsLeft ==
    Cardinality(Checking) + Cardinality(Index \ Exited) + (N + 1 - i)
    + (IF caller = "collecting" THEN 1 ELSE 0) + (IF ctxDone THEN 0 ELSE 1)

IInv ==
    /\ TypeOK /\ Answered
    /\ InChannel /\ OnePlace /\ Filed
    /\ Counted /\ ReturnExplained

-----------------------------------------------------------------------------
(* A set of indices has N elements at most, and only if it is all of them. *)
LEMMA Indices ==
    ASSUME NEW S \in SUBSET Index
    PROVE  /\ IsFiniteSet(S)
           /\ Cardinality(S) \in 0 .. N
           /\ Cardinality(S) = N => S = Index
<1>1. IsFiniteSet(Index) /\ Cardinality(Index) = N
  BY CountAssumption, FS_Interval DEF CountAssumption, Index
<1>2. IsFiniteSet(S) /\ Cardinality(S) <= N /\ (Cardinality(S) = N => S = Index)
  BY <1>1, FS_Subset
<1>3. Cardinality(S) \in Nat
  BY <1>2, FS_CardinalityType
<1>4. QED
  BY <1>2, <1>3, CountAssumption DEF CountAssumption

(* What holds of the elements of a sequence, of its head and of an append. *)
LEMMA Elements ==
    ASSUME NEW S, NEW s \in Seq(S)
    PROVE  /\ Len(s) \in Nat
           /\ \A a \in 1 .. Len(s) : s[a] \in S
           /\ s # <<>> =>
                 /\ Len(s) # 0 /\ Head(s) = s[1] /\ Head(s) \in S
                 /\ Len(Tail(s)) = Len(s) - 1
                 /\ Tail(s) \in Seq(S)
                 /\ \A a \in 1 .. Len(s) - 1 : Tail(s)[a] = s[a + 1]
           /\ \A e \in S :
                 /\ Append(s, e) \in Seq(S)
                 /\ Len(Append(s, e)) = Len(s) + 1
                 /\ \A a \in 1 .. Len(s) : Append(s, e)[a] = s[a]
                 /\ Append(s, e)[Len(s) + 1] = e
OBVIOUS

(* The messages of the channel. *)
LEMMA Messages ==
    ASSUME TypeOK
    PROVE  /\ Len(resultChan) \in Nat
           /\ \A a \in 1 .. Len(resultChan) :
                 resultChan[a].index \in Index /\ resultChan[a].result \in Result
<1>1. resultChan \in Seq([index : Index, result : Result])
  BY DEF TypeOK
<1>2. \A a \in 1 .. Len(resultChan) : resultChan[a] \in [index : Index, result : Result]
  BY <1>1, Elements
<1>3. QED
  BY <1>1, <1>2, Elements

(* Nothing is known and nothing is sent at first. *)
LEMMA InitIInv == Init => IInv
<1> SUFFICES ASSUME Init PROVE IInv
  OBVIOUS
<1> USE CountAssumption DEF CountAssumption, Init, Index, Nil
<1>1. TypeOK
  <2>1. resultChan \in Seq([index : Index, result : Result])
    OBVIOUS
  <2>2. Len(resultChan) <= N
    OBVIOUS
  <2>3. worker \in [Index -> {"checking", "sending", "exited"}]
    OBVIOUS
  <2>4. outcome \in [Index -> Kind \cup {"none"}]
    OBVIOUS
  <2>5. results \in [Index -> Result \cup {Nil}]
    OBVIOUS
  <2>6. i \in 1 .. N + 1
    OBVIOUS
  <2>7. ctxDone \in BOOLEAN /\ caller \in {"collecting", "returned"}
    BY Zenon
  <2>8. QED
    BY <2>1, <2>2, <2>3, <2>4, <2>5, <2>6, <2>7, Zenon DEF TypeOK
<1>2. Answered /\ ReturnExplained
  BY DEF Answered, ReturnExplained
<1>3. InChannel /\ OnePlace
  BY DEF InChannel, OnePlace
<1>4. Received = {}
  BY DEF Received
<1>5. Filed /\ Counted
  BY <1>4, FS_EmptySet DEF Filed, Counted
<1>6. QED
  BY <1>1, <1>2, <1>3, <1>5 DEF IInv

(* A check that ends concerns nobody else: its goroutine has not sent yet. *)
LEMMA CheckStep == ASSUME IInv, NEW k \in Index, Check(k) PROVE IInv'
<1> USE DEF IInv, Check
<1>1. TypeOK' /\ Answered'
  BY DEF TypeOK, Answered, Kind
<1>2. ASSUME NEW j \in Index, worker[j] = "exited"
      PROVE  worker'[j] = "exited" /\ outcome'[j] = outcome[j]
  BY <1>2 DEF TypeOK
<1>3. \A a \in 1 .. Len(resultChan) : resultChan[a].index \in Index
  BY Messages
<1>4. InChannel' /\ OnePlace'
  <2>1. InChannel'
    BY <1>2, <1>3 DEF InChannel
  <2>2. OnePlace'
    BY DEF OnePlace, Nil
  <2>3. QED
    BY <2>1, <2>2
<1>5. Filed'
  BY <1>2 DEF Filed, Received, Nil
<1>6. Counted' /\ ReturnExplained'
  BY DEF Counted, Received, ReturnExplained, Nil
<1>7. QED
  BY <1>1, <1>4, <1>5, <1>6

(* A message joins the channel; no other of its index is there or received.*)
LEMMA SendStep == ASSUME IInv, NEW k \in Index, Send(k) PROVE IInv'
<1> USE DEF IInv, Send
<1> DEFINE n == Len(resultChan)
<1>1. Message(k) \in [index : Index, result : Result] /\ Message(k).index = k
  BY DEF TypeOK, Answered, Message, Result, Kind
<1>2. TypeOK' /\ Answered'
  BY <1>1, CountAssumption DEF TypeOK, Answered, Capacity, CountAssumption
<1>3. /\ Len(resultChan') = n + 1 /\ n \in Nat
      /\ \A a \in 1 .. n : resultChan'[a] = resultChan[a]
      /\ resultChan'[n + 1] = Message(k)
  <2>1. resultChan \in Seq([index : Index, result : Result])
    BY DEF TypeOK
  <2>2. QED
    BY <1>1, <2>1, Elements
<1>4. \A a \in 1 .. n : resultChan[a].index \in Index \ {k}
  BY Messages DEF InChannel
<1>5. \A j \in Index : j # k => worker'[j] = worker[j]
  BY DEF TypeOK
<1>6. worker'[k] = "exited"
  BY DEF TypeOK
<1>7. InChannel'
  BY <1>1, <1>3, <1>4, <1>5, <1>6 DEF InChannel, Message
<1>8. caller = "collecting" => results[k] = Nil
  BY DEF Filed, Received
<1>9. OnePlace'
  BY <1>1, <1>3, <1>4, <1>8 DEF OnePlace, Nil
<1>10. Filed'
  BY <1>5, <1>6 DEF Filed, Received, Nil
<1>11. Counted' /\ ReturnExplained'
  BY DEF Counted, Received, ReturnExplained, Nil
<1>12. QED
  BY <1>2, <1>7, <1>9, <1>10, <1>11

(* The first message leaves the channel and is filed where nothing was.    *)
LEMMA ReceiveStep ==
    ASSUME IInv, Receive
    PROVE  IInv' /\ \A j \in Received : results'[j] = results[j]
<1> USE DEF IInv, Receive
<1> DEFINE n == Len(resultChan)
<1>0. resultChan \in Seq([index : Index, result : Result])
  BY DEF TypeOK
<1>1. PICK m \in [index : Index, result : Result] : m = Head(resultChan)
  <2>1. Head(resultChan) \in [index : Index, result : Result]
    BY <1>0, Elements
  <2>2. QED
    BY <2>1
<1>2. /\ n \in Nat \ {0} /\ 1 \in 1 .. n /\ m = resultChan[1]
      /\ Len(resultChan') = n - 1
      /\ \A a \in 1 .. n - 1 : resultChan'[a] = resultChan[a + 1]
  BY <1>0, <1>1, Elements
<1>3. results' = [results EXCEPT ![m.index] = m.result]
  BY <1>1 DEF Store
<1>4. results[m.index] = Nil /\ worker[m.index] = "exited"
  BY <1>2 DEF OnePlace, InChannel
<1>5. m.result = [mount |-> m.index, kind |-> outcome[m.index]]
  BY <1>2 DEF InChannel
<1>6. outcome[m.index] \in Kind
  BY <1>1, <1>4 DEF Answered
<1>7. results'[m.index] = m.result /\ m.result # Nil
  BY <1>1, <1>3, <1>5, <1>6 DEF TypeOK, Nil, Index
<1>8. \A j \in Index : j # m.index => results'[j] = results[j]
  BY <1>3 DEF TypeOK
<1>9. TypeOK'
  <2>1. resultChan' \in Seq([index : Index, result : Result])
    BY <1>0, Elements
  <2>2. QED
    BY <2>1, <1>1, <1>2, <1>3, CountAssumption DEF TypeOK, More, CountAssumption
<1>10. InChannel'
  BY <1>2 DEF InChannel
<1>11. OnePlace'
  <2>1. \A a \in 1 .. n - 1 : resultChan'[a].index = resultChan[a + 1].index
    BY <1>2
  <2>2. \A a \in 1 .. n - 1 : a + 1 \in 1 .. n /\ a + 1 # 1
    BY <1>2
  <2>3. \A a, b \in 1 .. n - 1 :
            resultChan'[a].index = resultChan'[b].index => a = b
    <3> TAKE a \in 1 .. n - 1, b \in 1 .. n - 1
    <3> HAVE resultChan'[a].index = resultChan'[b].index
    <3>1. a + 1 = b + 1
      BY <2>1, <2>2 DEF OnePlace
    <3>2. QED
      BY <3>1
  <2>4. \A a \in 1 .. n - 1 : resultChan'[a].index \in Index \ {m.index}
    BY <2>1, <2>2, <1>2, Messages DEF OnePlace
  <2>5. \A a \in 1 .. n - 1 : results[resultChan'[a].index] = Nil
    BY <2>1, <2>2 DEF OnePlace
  <2>6. QED
    BY <1>2, <1>8, <2>3, <2>4, <2>5 DEF OnePlace, Nil
<1>12. Received' = Received \cup {m.index} /\ m.index \notin Received
  BY <1>1, <1>4, <1>7, <1>8 DEF Received, Nil
<1>13. Filed'
  <2>1. ASSUME NEW j \in Received PROVE j \in Index /\ results'[j] = results[j]
    BY <1>4, <1>8, <2>1 DEF Received
  <2>2. QED
    BY <1>4, <1>5, <1>6, <1>7, <1>12, <2>1 DEF Filed
<1>14. Counted'
  <2>1. IsFiniteSet(Received)
    BY Indices DEF Received
  <2>2. Cardinality(Received') = Cardinality(Received) + 1
    BY <1>12, <2>1, FS_AddElement
  <2>3. QED
    BY <2>2 DEF Counted, TypeOK
<1>15. Answered' /\ ReturnExplained'
  BY DEF Answered, ReturnExplained
<1>16. \A j \in Received : results'[j] = results[j]
  BY <1>4, <1>8 DEF Received
<1>17. QED
  BY <1>9, <1>10, <1>11, <1>13, <1>14, <1>15, <1>16

(* The loop variable is a number. *)
LEMMA Below == ASSUME TypeOK, NEW j \in Index PROVE j >= i <=> ~(j < i)
<1>1. i \in 1 .. N + 1
  BY Zenon DEF TypeOK
<1>2. QED
  BY <1>1, CountAssumption DEF CountAssumption, Index

(* Giving up fills empty places and leaves the others alone.               *)
LEMMA GiveUpStep ==
    ASSUME IInv, GiveUp
    PROVE  IInv' /\ \A j \in Received : results'[j] = results[j]
<1> USE DEF IInv, GiveUp
<1>1. ASSUME NEW j \in Index
      PROVE  \/ results'[j] = results[j]
             \/ results[j] = Nil /\ results'[j] = [mount |-> j, kind |-> "context cancelled"]
  BY DEF Filled
<1>2. \A j \in Index : results'[j] \in Result \cup {Nil}
  BY <1>1 DEF TypeOK, Result
<1>3. TypeOK'
  BY <1>2 DEF TypeOK
<1>4. \A j \in Received : results'[j] = results[j]
  BY <1>1 DEF Received
<1>5. Filed'
  <2>1. ASSUME NEW j \in Received', results[j] = results'[j]
        PROVE  results'[j].mount = j /\ (results'[j].kind \in Kind => worker'[j] = "exited" /\ results'[j].kind = outcome'[j])
    BY <2>1 DEF Filed, Received, Nil
  <2>2. QED
    BY <1>1, <2>1 DEF Filed, Received, Nil, Kind
<1>6. Answered' /\ InChannel' /\ Counted' /\ ReturnExplained'
  <2>1. ASSUME NEW j \in Index
        PROVE  \/ results'[j].kind \in Kind
               \/ results'[j].kind = IF j < i THEN "nil" ELSE "context cancelled"
    <3>1. CASE results[j] = Nil
      <4>1. Filled(j) <=> ~(j < i)
        BY <3>1, Below DEF Filled
      <4>2. CASE Filled(j)
        BY <4>1, <4>2
      <4>3. CASE ~Filled(j)
        <5>1. results'[j] = results[j]
          BY <4>3
        <5>2. Nil.kind = "nil"
          BY Zenon DEF Nil
        <5>3. QED
          BY <5>1, <5>2, <3>1, <4>1, <4>3, Zenon
      <4>4. QED
        BY <4>2, <4>3
    <3>2. CASE results[j] # Nil
      BY <3>2, <1>4 DEF Filed, Received
    <3>3. QED
      BY <3>1, <3>2
  <2>2. ReturnExplained'
    BY <2>1 DEF ReturnExplained
  <2>3. QED
    BY <2>2 DEF Answered, InChannel, Counted
<1>7. OnePlace'
  BY DEF OnePlace
<1>8. QED
  BY <1>3, <1>4, <1>5, <1>6, <1>7

(* The loop ends when N results have been received, which is all of them.  *)
LEMMA ReturnStep == ASSUME IInv, Return PROVE IInv'
<1> USE DEF IInv, Return
<1>1. TypeOK' /\ Answered' /\ InChannel' /\ OnePlace' /\ Counted'
  BY DEF TypeOK, Answered, InChannel, OnePlace, Counted, Nil
<1>2. Cardinality(Received) = N
  BY CountAssumption DEF CountAssumption, TypeOK, Counted, More
<1>3. Received = Index
  BY <1>2, Indices DEF Received
<1>4. Filed' /\ ReturnExplained'
  BY <1>3 DEF Filed, Received, ReturnExplained, Nil
<1>5. QED
  BY <1>1, <1>4

(* Every step preserves the invariant. *)
LEMMA NextIInv == IInv /\ [Next]_vars => IInv'
<1> SUFFICES ASSUME IInv, [Next]_vars PROVE IInv'
  OBVIOUS
<1>1. CASE Cancel
  BY <1>1 DEF IInv, Cancel, TypeOK, Answered, InChannel, OnePlace, Filed, Received,
              Counted, ReturnExplained, Nil
<1>2. CASE UNCHANGED vars
  BY <1>2 DEF vars, IInv, TypeOK, Answered, InChannel, OnePlace, Filed, Received,
              Counted, ReturnExplained, Nil
<1>3. QED
  BY <1>1, <1>2, CheckStep, SendStep, ReceiveStep, GiveUpStep, ReturnStep DEF Next

-----------------------------------------------------------------------------
(* The inductive invariant holds of every reachable state.                 *)
THEOREM Inductive == Spec => []IInv
BY InitIInv, NextIInv, PTL DEF Spec

(* For any number of mount points the variables keep their types; in       *)
(* particular the channel never holds more results than it has slots.      *)
THEOREM TypeCorrect == Spec => []TypeOK
<1>1. IInv => TypeOK
  BY DEF IInv
<1>2. QED
  BY <1>1, Inductive, PTL

(* For any number of mount points and any order of the results, each is    *)
(* filed under its own mount point, as its check returned it, and what a   *)
(* call lacks when it returns is explained by its context.                 *)
THEOREM ResultsAreOwn == Spec => []OwnResult
<1>1. IInv => OwnResult
  BY DEF IInv, Filed, Received, OwnResult
<1>2. QED
  BY <1>1, Inductive, PTL

(* For any number of mount points, what has been received stays.           *)
THEOREM WhatIsReceivedIsKept == Spec => ReceivedIsKept
<1>1. IInv /\ [Next]_vars => [\A j \in Index : results[j] # Nil => results'[j] = results[j]]_vars
  <2> SUFFICES ASSUME IInv, Next
               PROVE  \A j \in Index : results[j] # Nil => results'[j] = results[j]
    OBVIOUS
  <2>1. CASE Receive \/ GiveUp
    BY <2>1, ReceiveStep, GiveUpStep DEF Received
  <2>2. CASE Return \/ Cancel \/ \E k \in Index : Check(k) \/ Send(k)
    BY <2>2 DEF Return, Cancel, Check, Send
  <2>3. QED
    BY <2>1, <2>2 DEF Next
<1>2. QED
  BY <1>1, Inductive, PTL DEF Spec, ReceivedIsKept

-----------------------------------------------------------------------------
(* Nobody blocks: the safety part of NobodyBlocks.                         *)

(* A step of a goroutine moves one index from one set to the next.         *)
LEMMA WorkerMoves ==
    ASSUME TypeOK, NEW k \in Index
    PROVE  /\ Check(k) =>
                 /\ Cardinality(Checking') = Cardinality(Checking) - 1
                 /\ Exited' = Exited
           /\ Send(k) =>
                 /\ Checking' = Checking
                 /\ Cardinality(Exited') = Cardinality(Exited) + 1
                 /\ Cardinality((Index \ Exited)') = Cardinality(Index \ Exited) - 1
<1>0. /\ IsFiniteSet(Checking) /\ IsFiniteSet(Exited) /\ IsFiniteSet(Index \ Exited)
      /\ Cardinality(Checking) \in Nat /\ Cardinality(Index \ Exited) \in Nat
  BY Indices DEF Checking, Exited
<1>1. ASSUME Check(k)
      PROVE  /\ Cardinality(Checking') = Cardinality(Checking) - 1
             /\ Exited' = Exited
  <2>1. Checking' = Checking \ {k} /\ k \in Checking /\ Exited' = Exited
    BY <1>1 DEF Check, TypeOK, Checking, Exited
  <2>2. QED
    BY <1>0, <2>1, FS_RemoveElement
<1>2. ASSUME Send(k)
      PROVE  /\ Checking' = Checking
             /\ Cardinality(Exited') = Cardinality(Exited) + 1
             /\ Cardinality((Index \ Exited)') = Cardinality(Index \ Exited) - 1
  <2>1. /\ Checking' = Checking
        /\ Exited' = Exited \cup {k} /\ k \notin Exited
    BY <1>2 DEF Send, TypeOK, Checking, Exited
  <2>2. Index \ Exited' = (Index \ Exited) \ {k} /\ k \in Index \ Exited
    BY <2>1
  <2>3. QED
    BY <1>0, <2>1, <2>2, FS_AddElement, FS_RemoveElement
<1>3. QED
  BY <1>1, <1>2

(* Every message sent is in the channel or has been received.              *)
LEMMA NextConserved == TypeOK /\ Conserved /\ [Next]_vars => Conserved'
<1> SUFFICES ASSUME TypeOK, Conserved, [Next]_vars PROVE Conserved'
  OBVIOUS
<1>0. /\ resultChan \in Seq([index : Index, result : Result])
      /\ i \in Int /\ Cardinality(Exited) \in Nat
  BY CountAssumption, Indices DEF CountAssumption, TypeOK, Exited
<1>1. ASSUME NEW k \in Index, Check(k) PROVE Conserved'
  BY <1>1, WorkerMoves DEF Check, Conserved
<1>2. ASSUME NEW k \in Index, Send(k) PROVE Conserved'
  <2>1. Cardinality(Exited') = Cardinality(Exited) + 1
    BY <1>2, WorkerMoves
  <2>2. Len(resultChan') = Len(resultChan) + 1
    BY <1>0, <1>2 DEF Send
  <2>3. QED
    BY <1>0, <1>2, <2>1, <2>2 DEF Send, Conserved
<1>3. CASE Receive
  <2>1. Len(resultChan') = Len(resultChan) - 1 /\ Len(resultChan) \in Nat
    BY <1>0, <1>3, Elements DEF Receive
  <2>2. QED
    BY <1>0, <1>3, <2>1 DEF Receive, Conserved, Exited
<1>4. CASE GiveUp \/ Return \/ Cancel \/ UNCHANGED vars
  BY <1>4 DEF GiveUp, Return, Cancel, vars, Conserved, Exited
<1>5. QED
  BY <1>1, <1>2, <1>3, <1>4 DEF Next

(* For any number of mount points, a goroutine that has a result finds     *)
(* room for it in the channel, also when the caller has gone, and a caller *)
(* that still waits has a result in the channel or a goroutine to send it: *)
(* the capacity of the channel is what the safety of NobodyBlocks needs.   *)
THEOREM NobodyIsStuck == Spec => []NobodyStuck
<1>1. Init => Conserved
  <2> SUFFICES ASSUME Init PROVE Conserved
    OBVIOUS
  <2>1. Exited = {}
    BY DEF Init, Exited
  <2>2. QED
    BY <2>1, FS_EmptySet DEF Init, Conserved
<1>2. ASSUME TypeOK, Conserved PROVE NobodyStuck
  <2>0. /\ N \in Nat /\ i \in 1 .. N + 1 /\ Len(resultChan) \in Nat
        /\ Len(resultChan) + (i - 1) = Cardinality(Exited)
    BY <1>2, CountAssumption DEF CountAssumption, TypeOK, Conserved
  <2>1. ASSUME NEW k \in Index, worker[k] = "sending" PROVE Len(resultChan) < N
    <3>1. Exited # Index /\ Exited \in SUBSET Index
      BY <2>1 DEF Exited
    <3>2. Cardinality(Exited) \in 0 .. N - 1
      BY <2>0, <3>1, Indices
    <3>3. QED
      BY <2>0, <3>2
  <2>2. ASSUME Exited = Index, i <= N PROVE resultChan # <<>>
    <3>1. Cardinality(Index) = N
      BY CountAssumption, FS_Interval DEF CountAssumption, Index
    <3>2. Len(resultChan) > 0
      BY <2>0, <2>2, <3>1
    <3>3. QED
      BY <3>2
  <2>3. QED
    BY <2>1, <2>2 DEF NobodyStuck, Capacity, More
<1>3. QED
  BY <1>1, <1>2, NextConserved, TypeCorrect, PTL DEF Spec

(* For any number of mount points, every step of the caller, of a goroutine*)
(* and of the context uses up one of finitely many: a call and its         *)
(* goroutines stop, and by NobodyIsStuck not before all of them are done.  *)
THEOREM StepsRunOut == Spec => [](StepsLeft \in Nat) /\ [][StepsLeft' < StepsLeft]_vars
<1>1. ASSUME TypeOK
      PROVE  /\ Cardinality(Checking) \in Nat /\ Cardinality(Index \ Exited) \in Nat
             /\ i \in Int /\ N + 1 - i \in Nat /\ N \in Nat
  BY <1>1, CountAssumption, Indices DEF CountAssumption, TypeOK, Checking, Exited
<1>2. TypeOK => StepsLeft \in Nat
  BY <1>1 DEF StepsLeft
<1>3. TypeOK /\ [Next]_vars => [StepsLeft' < StepsLeft]_vars
  <2> SUFFICES ASSUME TypeOK, Next PROVE StepsLeft' < StepsLeft
    OBVIOUS
  <2>1. ASSUME NEW k \in Index, Check(k) \/ Send(k) PROVE StepsLeft' < StepsLeft
    <3>1. UNCHANGED <<i, caller, ctxDone>>
      BY <2>1 DEF Check, Send
    <3>2. Cardinality(Checking') + Cardinality((Index \ Exited)')
            = Cardinality(Checking) + Cardinality(Index \ Exited) - 1
      BY <1>1, <2>1, WorkerMoves
    <3>3. QED
      BY <1>1, <3>1, <3>2 DEF StepsLeft
  <2>2. CASE Receive \/ GiveUp \/ Return \/ Cancel
    <3>1. Checking' = Checking /\ Exited' = Exited
      BY <2>2 DEF Receive, GiveUp, Return, Cancel, Checking, Exited
    <3>2. \/ i' = i + 1 /\ UNCHANGED <<caller, ctxDone>>
          \/ caller = "collecting" /\ caller' = "returned" /\ UNCHANGED <<i, ctxDone>>
          \/ ~ctxDone /\ ctxDone' /\ UNCHANGED <<i, caller>>
      BY <2>2 DEF Receive, GiveUp, Return, Cancel
    <3>3. QED
      BY <1>1, <3>1, <3>2 DEF StepsLeft
  <2>3. QED
    BY <2>1, <2>2 DEF Next
<1>4. QED
  BY <1>2, <1>3, TypeCorrect, PTL DEF Spec
=============================================================================
