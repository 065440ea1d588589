----------------------- MODULE ResourceManager_proofs -----------------------
(***************************************************************************)
(* What holds of the resource manager for any number of goroutines, ids    *)
(* and registrations. The strengthening has four parts: who may work on    *)
(* the entries, that no resource has two entries, which of them have been  *)
(* cleaned up under the lock, and what the counters can have missed.       *)
(***************************************************************************)
EXTENDS ResourceManager, FiniteSetTheorems, TLAPS

Locked ==
    \A p \in Callers :
        writer = p => todo[p] \subseteq target[p] /\ todo[p] \subseteq Registered

OneEntryEach ==
    \A i, j \in Ids : resources[i] = resources[j] /\ resources[i] # 0 => i = j

Visited(id) == writer # None /\ id \in target[writer] /\ id \notin todo[writer]

RetiredInv ==
    /\ \A id \in Ids :
          resources[id] # 0 =>
              retired[resources[id]] =
                  IF Visited(id) /\ resources[id] \notin NoCleanup THEN 1 ELSE 0
    /\ \A r \in Resource : r > total => retired[r] = 0

ExactInv ==
    unlocked = 0 =>
        /\ \A p \in Callers : p # writer => pc[p] \in {"idle", "closing"}
        /\ stats["ok"] + stats["failed"] + Uncounted = ended
        /\ writer # None /\ pc[writer] = "storing" => read[writer] = stats[outcome[writer]]

Storing(k) == {p \in Callers : pc[p] = "storing" /\ outcome[p] = k}

\* e[k]: how many cleanups have ended with outcome k.
CountInv ==
    \E e \in [Outcome -> Nat] :
        /\ e["ok"] + e["failed"] = ended
        /\ \A k \in Outcome :
              /\ stats[k] + Cardinality(Storing(k)) <= e[k]
              /\ \A p \in Storing(k) : read[p] + Cardinality(Storing(k)) <= e[k]

IInv ==
    /\ TypeOK /\ Locked /\ OneEntryEach
    /\ RetiredInv /\ RetiredOnce /\ NothingForgotten
    /\ ExactInv /\ CountInv

-----------------------------------------------------------------------------
(* A step of the manager, sorted by what it disturbs. *)
Taking(p) ==
    \/ \E id \in Ids : UnregisterResource(p, id)
    \/ CleanupAll(p)
    \/ CloseCleanupAll(p)

Looping == LoopTick \/ LoopSweep \/ LoopExit

(* Every step is one of these. *)
LEMMA Cases ==
    ASSUME [Next]_vars
    PROVE  \/ \E p \in Callers, id \in Ids :
                 RegisterResource(p, id) \/ CleanupResource(p, id) \/ Visit(p, id)
           \/ \E p \in Callers :
                 Taking(p) \/ Close(p) \/ Remove(p) \/ Store(p)
           \/ \E p \in Callers, how \in Outcome : CleanupReturns(p, how)
           \/ Looping
           \/ UNCHANGED vars
BY DEF Next, Operation, Step, Taking, Looping

(* Taking the lock. *)
LEMMA TakingRetires ==
    ASSUME NEW p \in Callers, Taking(p)
    PROVE  /\ pc[p] \in {"idle", "closing"}
           /\ \E S \in SUBSET Ids : Retire(p, S)
           /\ UNCHANGED cancelled
BY DEF Taking, UnregisterResource, CleanupAll, CloseCleanupAll

(* The variables keep their types. *)
LEMMA TypeStep == TypeOK /\ Locked /\ [Next]_vars => TypeOK'
<1> SUFFICES ASSUME TypeOK, Locked, [Next]_vars PROVE TypeOK'
  OBVIOUS
<1> USE ManagerAssumption DEF ManagerAssumption, TypeOK, Label, Outcome, Resource
<1>1. ASSUME NEW p \in Callers, NEW id \in Ids, RegisterResource(p, id) PROVE TypeOK'
  <2>1. resources' \in [Ids -> 0 .. total'] /\ total' \in 0 .. MaxResources
    BY <1>1 DEF RegisterResource
  <2>2. replaced' \subseteq 1 .. total'
    <3>1. resources[id] \in 0 .. total /\ replaced \subseteq 1 .. total
      OBVIOUS
    <3>2. 1 .. total \subseteq 1 .. total'
      BY <1>1 DEF RegisterResource
    <3>3. {resources[id]} \ {0} \subseteq 1 .. total
      BY <3>1
    <3>4. QED
      BY <1>1, <3>1, <3>2, <3>3 DEF RegisterResource
  <2>3. QED
    BY <1>1, <2>1, <2>2 DEF RegisterResource, mapVars, countVars, jobVars
<1>2. ASSUME NEW p \in Callers, NEW id \in Ids, CleanupResource(p, id) PROVE TypeOK'
  BY <1>2 DEF CleanupResource, mapVars, countVars, jobVars, Goto, Free
<1>3. ASSUME NEW p \in Callers, NEW id \in Ids, Visit(p, id) PROVE TypeOK'
  <2>1. retired' \in [Resource -> Nat]
    <3>1. resources[id] \in Resource
      BY <1>3 DEF Visit, Locked, Registered
    <3>2. QED
      BY <1>3, <3>1 DEF Visit
  <2>2. pc' \in [Callers -> Label] /\ pc'[p] \in {"retiring", "cleaning"} /\ writer = p
    BY <1>3 DEF Visit, Goto, AfterLookup
  <2>3. \A q \in Callers \ {p} : pc'[q] = pc[q]
    BY <1>3 DEF Visit, Goto
  <2>4. todo' \in [Callers -> SUBSET Ids]
    BY <1>3 DEF Visit
  <2>5. QED
    BY <1>3, <2>1, <2>2, <2>3, <2>4 DEF Visit, countVars
<1>4. ASSUME NEW p \in Callers, Taking(p) PROVE TypeOK'
  <2>1. PICK S \in SUBSET Ids : Retire(p, S)
    BY <1>4, TakingRetires
  <2>2. target' \in [Callers -> SUBSET Ids] /\ todo' \in [Callers -> SUBSET Ids]
    BY <2>1 DEF Retire, Registered
  <2>3. QED
    BY <1>4, <2>1, <2>2, TakingRetires DEF Retire, mapVars, countVars, Goto, Free
<1>5. ASSUME NEW p \in Callers, Close(p) PROVE TypeOK'
  BY <1>5 DEF Close, mapVars, countVars, jobVars, Goto
<1>6. ASSUME NEW p \in Callers, Remove(p) PROVE TypeOK'
  BY <1>6 DEF Remove, Remaining, Unlocked, Goto
<1>7. ASSUME NEW p \in Callers, Store(p) PROVE TypeOK'
  <2>1. stats' \in [Outcome -> Nat] /\ read' \in [Callers -> Nat]
    BY <1>7 DEF Store, Counted
  <2>2. pc' \in [Callers -> Label] /\ outcome' \in [Callers -> Outcome]
    BY <1>7 DEF Store, Goto
  <2>3. \A q \in Callers :
           /\ pc'[q] = "retiring" => writer' = q
           /\ writer' = q => pc'[q] \notin {"idle", "closing"}
    BY <1>7 DEF Store, Goto, jobVars
  <2>4. QED
    BY <1>7, <2>1, <2>2, <2>3 DEF Store, mapVars, jobVars
<1>8. ASSUME NEW p \in Callers, NEW how \in Outcome, CleanupReturns(p, how) PROVE TypeOK'
  BY <1>8 DEF CleanupReturns, mapVars, jobVars, Goto
<1>9. CASE Looping
  BY <1>9 DEF Looping, LoopTick, LoopSweep, LoopExit, mapVars, countVars, jobVars
<1>10. CASE UNCHANGED vars
  BY <1>10 DEF vars, mapVars, countVars, jobVars
<1>11. QED
  BY <1>1, <1>2, <1>3, <1>4, <1>5, <1>6, <1>7, <1>8, <1>9, <1>10, Cases

(* Only the holder of the lock changes the entries, and only what it has   *)
(* set out to: what it has still to clean up is still there.               *)
LEMMA LockedStep == TypeOK /\ Locked /\ [Next]_vars => Locked'
<1> SUFFICES ASSUME TypeOK, Locked, [Next]_vars, NEW q \in Callers, writer' = q
             PROVE  todo'[q] \subseteq target'[q] /\ todo'[q] \subseteq Registered'
  BY DEF Locked
<1> USE ManagerAssumption DEF ManagerAssumption, TypeOK, Locked, Registered
<1>1. ASSUME NEW p \in Callers, NEW id \in Ids, RegisterResource(p, id)
      PROVE  FALSE
  BY <1>1 DEF RegisterResource, jobVars, Free
<1>2. ASSUME NEW p \in Callers, NEW id \in Ids, CleanupResource(p, id)
      PROVE  FALSE
  BY <1>2 DEF CleanupResource, jobVars, Free
<1>3. ASSUME NEW p \in Callers, NEW id \in Ids, Visit(p, id)
      PROVE  todo'[q] \subseteq target'[q] /\ todo'[q] \subseteq Registered'
  BY <1>3 DEF Visit
<1>4. ASSUME NEW p \in Callers, Taking(p)
      PROVE  todo'[q] \subseteq target'[q] /\ todo'[q] \subseteq Registered'
  <2>1. PICK S \in SUBSET Ids : Retire(p, S)
    BY <1>4, TakingRetires
  <2>2. q = p /\ todo'[q] = S \cap Registered /\ target'[q] = S /\ UNCHANGED resources
    BY <2>1 DEF Retire, mapVars
  <2>3. QED
    BY <2>2
<1>5. ASSUME NEW p \in Callers, Remove(p)
      PROVE  FALSE
  BY <1>5 DEF Remove, Unlocked
<1>6. CASE UNCHANGED <<resources, writer, target, todo>>
  BY <1>6
<1>7. QED
  BY <1>1, <1>2, <1>3, <1>4, <1>5, <1>6, Cases
  DEF Close, Store, CleanupReturns, Looping, LoopTick, LoopSweep, LoopExit,
      vars, mapVars, jobVars

(* A new resource has a number of its own, and entries are never copied. *)
LEMMA OneEntryStep == TypeOK /\ OneEntryEach /\ [Next]_vars => OneEntryEach'
<1> SUFFICES ASSUME TypeOK, OneEntryEach, [Next]_vars PROVE OneEntryEach'
  OBVIOUS
<1> USE DEF TypeOK, OneEntryEach
<1>1. ASSUME NEW p \in Callers, NEW id \in Ids, RegisterResource(p, id)
      PROVE  OneEntryEach'
  <2>1. \A i \in Ids : resources'[i] = IF i = id THEN total + 1 ELSE resources[i]
    BY <1>1 DEF RegisterResource
  <2>2. \A i \in Ids : resources[i] \in 0 .. total
    OBVIOUS
  <2>3. QED
    BY <2>1, <2>2, ManagerAssumption DEF ManagerAssumption
<1>2. ASSUME NEW p \in Callers, Remove(p)
      PROVE  OneEntryEach'
  BY <1>2 DEF Remove, Remaining
<1>3. CASE UNCHANGED resources
  BY <1>3
<1>4. QED
  BY <1>1, <1>2, <1>3, Cases, TakingRetires
  DEF Retire, CleanupResource, Visit, Close, Store, CleanupReturns, Looping,
      LoopTick, LoopSweep, LoopExit, vars, mapVars

(* A resource in the map has been cleaned up under the lock exactly if the *)
(* operation that is under way has been to see it.                         *)
LEMMA RetiredStep ==
    TypeOK /\ Locked /\ OneEntryEach /\ RetiredInv /\ [Next]_vars => RetiredInv'
<1> SUFFICES ASSUME TypeOK, Locked, OneEntryEach, RetiredInv, [Next]_vars
             PROVE  RetiredInv'
  OBVIOUS
<1> USE ManagerAssumption DEF ManagerAssumption, TypeOK, RetiredInv
<1>1. ASSUME NEW p \in Callers, NEW id \in Ids, RegisterResource(p, id)
      PROVE  RetiredInv'
  <2>1. /\ writer = None /\ writer' = None /\ retired' = retired
        /\ total' = total + 1 /\ total + 1 \in Resource
        /\ \A i \in Ids : resources'[i] = IF i = id THEN total + 1 ELSE resources[i]
    BY <1>1 DEF RegisterResource, jobVars, Free, Resource
  <2>2. \A i \in Ids : ~Visited(i) /\ ~Visited(i)'
    BY <2>1 DEF Visited
  <2>3. retired[total + 1] = 0
    BY <2>1
  <2>4. \A r \in Resource : r > total' => retired'[r] = 0
    BY <2>1 DEF Resource
  <2>5. QED
    BY <2>1, <2>2, <2>3, <2>4
<1>2. ASSUME NEW p \in Callers, NEW id \in Ids, Visit(p, id)
      PROVE  RetiredInv'
  <2>1. /\ writer = p /\ writer' = p /\ p # None
        /\ resources' = resources /\ total' = total /\ target' = target
        /\ id \in todo[p] /\ todo'[p] = todo[p] \ {id}
    BY <1>2 DEF Visit
  <2>2. resources[id] # 0 /\ resources[id] \in Resource /\ resources[id] <= total
        /\ id \in target[p]
    BY <2>1 DEF Locked, Registered, Resource
  <2>3. \A r \in Resource :
           retired'[r] = IF r = resources[id] /\ r \notin NoCleanup THEN retired[r] + 1
                         ELSE retired[r]
    BY <1>2, <2>2 DEF Visit
  <2>4. ~Visited(id) /\ Visited(id)'
    BY <2>1, <2>2 DEF Visited
  <2>5. \A i \in Ids \ {id} : Visited(i)' <=> Visited(i)
    BY <2>1 DEF Visited
  <2>6. \A i \in Ids \ {id} : resources[i] # 0 => resources[i] # resources[id]
    BY DEF OneEntryEach
  <2>7. ASSUME NEW i \in Ids, resources'[i] # 0
        PROVE  retired'[resources'[i]] =
                 IF Visited(i)' /\ resources'[i] \notin NoCleanup THEN 1 ELSE 0
    <3>1. resources[i] \in Resource
      BY <2>1, <2>7 DEF Resource
    <3>2. CASE i = id
      BY <3>1, <3>2, <2>1, <2>2, <2>3, <2>4
    <3>3. CASE i # id
      BY <3>1, <3>3, <2>1, <2>3, <2>5, <2>6, <2>7
    <3>4. QED
      BY <3>2, <3>3
  <2>8. \A r \in Resource : r > total' => retired'[r] = 0
    BY <2>1, <2>2, <2>3 DEF Resource
  <2>9. QED
    BY <2>7, <2>8
<1>3. ASSUME NEW p \in Callers, Taking(p)
      PROVE  RetiredInv'
  <2>1. PICK S \in SUBSET Ids : Retire(p, S)
    BY <1>3, TakingRetires
  <2>2. /\ writer = None /\ writer' = p
        /\ target'[p] = S /\ todo'[p] = S \cap Registered
        /\ UNCHANGED <<resources, total, retired>>
    BY <2>1 DEF Retire, Free, mapVars
  <2>3. \A i \in Ids : resources[i] # 0 => ~Visited(i) /\ ~Visited(i)'
    BY <2>2 DEF Visited, Registered
  <2>4. QED
    BY <2>2, <2>3
<1>4. ASSUME NEW p \in Callers, Remove(p)
      PROVE  RetiredInv'
  <2>1. /\ writer = p /\ writer' = None /\ todo[p] = {} /\ p # None
        /\ total' = total /\ retired' = retired
        /\ \A i \in Ids : resources'[i] = IF i \in target[p] THEN 0 ELSE resources[i]
    BY <1>4 DEF Remove, Finished, Remaining, Unlocked
  <2>2. \A i \in Ids : resources'[i] # 0 => ~Visited(i) /\ ~Visited(i)'
    BY <2>1 DEF Visited
  <2>3. QED
    BY <2>1, <2>2
<1>5. CASE UNCHANGED <<resources, total, retired, writer, target, todo>>
  BY <1>5 DEF Visited
<1>6. QED
  BY <1>1, <1>2, <1>3, <1>4, <1>5, Cases
  DEF CleanupResource, Close, Store, CleanupReturns, Looping, LoopTick,
      LoopSweep, LoopExit, vars, mapVars, jobVars

(* So it is cleaned up under the lock once, and never again.               *)
LEMMA OnceStep ==
    TypeOK /\ Locked /\ RetiredInv /\ RetiredOnce /\ [Next]_vars => RetiredOnce'
<1> SUFFICES ASSUME TypeOK, Locked, RetiredInv, RetiredOnce, [Next]_vars
             PROVE  RetiredOnce'
  OBVIOUS
<1> USE ManagerAssumption DEF ManagerAssumption, TypeOK, RetiredOnce
<1>1. ASSUME NEW p \in Callers, NEW id \in Ids, Visit(p, id)
      PROVE  RetiredOnce'
  <2>1. writer = p /\ id \in todo[p] /\ resources[id] # 0 /\ resources[id] \in Resource
    BY <1>1 DEF Visit, Locked, Registered, Resource
  <2>2. retired[resources[id]] = 0
    BY <2>1 DEF RetiredInv, Visited
  <2>3. QED
    BY <1>1, <2>1, <2>2 DEF Visit
<1>2. CASE UNCHANGED retired
  BY <1>2
<1>3. QED
  BY <1>1, <1>2, Cases, TakingRetires
  DEF RegisterResource, CleanupResource, Retire, Close, Remove, Store, CleanupReturns,
      Looping, LoopTick, LoopSweep, LoopExit, vars, mapVars

(* What leaves the map has been cleaned up under the lock or replaced.     *)
LEMMA ForgottenStep ==
    TypeOK /\ Locked /\ RetiredInv /\ NothingForgotten /\ [Next]_vars => NothingForgotten'
<1> SUFFICES ASSUME TypeOK, Locked, RetiredInv, NothingForgotten, [Next]_vars
             PROVE  NothingForgotten'
  OBVIOUS
<1> USE ManagerAssumption DEF ManagerAssumption, TypeOK, NothingForgotten, InMap
<1>1. ASSUME NEW p \in Callers, NEW id \in Ids, RegisterResource(p, id)
      PROVE  NothingForgotten'
  <2>1. /\ total' = total + 1 /\ retired' = retired
        /\ replaced' = replaced \cup ({resources[id]} \ {0})
        /\ \A i \in Ids : resources'[i] = IF i = id THEN total + 1 ELSE resources[i]
    BY <1>1 DEF RegisterResource
  <2>2. ASSUME NEW r \in 1 .. total'
        PROVE  r \in InMap' \cup NoCleanup \cup replaced' \/ retired'[r] > 0
    <3>1. CASE r = total + 1
      BY <2>1, <3>1
    <3>2. CASE r # total + 1 /\ r \in InMap
      BY <2>1, <3>2
    <3>3. CASE r # total + 1 /\ r \notin InMap
      BY <2>1, <3>3
    <3>4. QED
      BY <3>1, <3>2, <3>3
  <2>3. QED
    BY <2>2
<1>2. ASSUME NEW p \in Callers, NEW id \in Ids, Visit(p, id)
      PROVE  NothingForgotten'
  <2>1. resources[id] \in Resource
    BY <1>2 DEF Visit, Locked, Registered, Resource
  <2>2. UNCHANGED <<resources, total, replaced>>
    BY <1>2 DEF Visit
  <2>3. 1 .. total' \subseteq Resource
    BY <2>2 DEF Resource
  <2>3a. \A r \in Resource : retired[r] > 0 => retired'[r] > 0
    BY <1>2, <2>1 DEF Visit
  <2>4. InMap' = InMap
    BY <2>2
  <2>5. QED
    BY <2>2, <2>3, <2>3a, <2>4
<1>3. ASSUME NEW p \in Callers, Remove(p)
      PROVE  NothingForgotten'
  <2>1. /\ writer = p /\ todo[p] = {} /\ p # None
        /\ UNCHANGED <<total, retired, replaced>>
        /\ \A i \in Ids : resources'[i] = IF i \in target[p] THEN 0 ELSE resources[i]
    BY <1>3 DEF Remove, Finished, Remaining
  <2>2. ASSUME NEW i \in Ids, resources[i] # 0
        PROVE  \/ resources[i] \in InMap' \cup NoCleanup
               \/ retired'[resources[i]] > 0
    <3>1. CASE i \in target[p]
      BY <2>1, <2>2, <3>1 DEF RetiredInv, Visited
    <3>2. CASE i \notin target[p]
      BY <2>1, <3>2
    <3>3. QED
      BY <3>1, <3>2
  <2>3. ASSUME NEW r \in 1 .. total'
        PROVE  r \in InMap' \cup NoCleanup \cup replaced' \/ retired'[r] > 0
    <3>1. CASE r \in InMap
      <4>1. PICK i \in Ids : resources[i] = r
        BY <3>1
      <4>2. QED
        BY <2>2, <4>1
    <3>2. CASE r \notin InMap
      BY <2>1, <3>2
    <3>3. QED
      BY <3>1, <3>2
  <2>4. QED
    BY <2>3
<1>4. CASE UNCHANGED <<resources, total, retired, replaced>>
  BY <1>4
<1>5. QED
  BY <1>1, <1>2, <1>3, <1>4, Cases, TakingRetires
  DEF CleanupResource, Retire, Close, Store, CleanupReturns, Looping, LoopTick,
      LoopSweep, LoopExit, vars, mapVars

(* As long as every cleanup is run under the lock, its load and its store  *)
(* have the counter for themselves.                                        *)
LEMMA ExactStep == TypeOK /\ ExactInv /\ [Next]_vars => ExactInv'
<1> SUFFICES ASSUME TypeOK, ExactInv, [Next]_vars, unlocked' = 0
             PROVE  /\ \A p \in Callers : p # writer' => pc'[p] \in {"idle", "closing"}
                    /\ stats'["ok"] + stats'["failed"] + Uncounted' = ended'
                    /\ writer' # None /\ pc'[writer'] = "storing" =>
                          read'[writer'] = stats'[outcome'[writer']]
  BY DEF ExactInv
<1> DEFINE Exact ==
      /\ \A p \in Callers : p # writer => pc[p] \in {"idle", "closing"}
      /\ stats["ok"] + stats["failed"] + Uncounted = ended
      /\ writer # None /\ pc[writer] = "storing" => read[writer] = stats[outcome[writer]]
<1>0. unlocked = 0 => Exact
  BY DEF ExactInv
<1> USE ManagerAssumption DEF ManagerAssumption, TypeOK, Outcome, Uncounted
<1>1. ASSUME NEW p \in Callers, NEW id \in Ids, CleanupResource(p, id)
      PROVE  FALSE
  BY <1>1 DEF CleanupResource
<1>2. ASSUME NEW p \in Callers, NEW id \in Ids, RegisterResource(p, id)
      PROVE  Exact'
  BY <1>0, <1>2 DEF RegisterResource, countVars, jobVars
<1>3. ASSUME NEW p \in Callers, NEW id \in Ids, Visit(p, id)
      PROVE  Exact'
  <2>1. writer = p /\ writer' = p /\ pc[p] = "retiring" /\ UNCHANGED <<unlocked, countVars>>
    BY <1>3 DEF Visit
  <2>2. pc'[p] \in {"retiring", "cleaning"} /\ \A q \in Callers \ {p} : pc'[q] = pc[q]
    BY <1>3 DEF Visit, Goto, AfterLookup
  <2>3. QED
    BY <1>0, <2>1, <2>2 DEF countVars
<1>4. ASSUME NEW p \in Callers, Taking(p)
      PROVE  Exact'
  <2>1. PICK S \in SUBSET Ids : Retire(p, S)
    BY <1>4, TakingRetires
  <2>2. /\ writer = None /\ writer' = p /\ UNCHANGED <<unlocked, countVars>>
        /\ pc'[p] = "retiring" /\ \A q \in Callers \ {p} : pc'[q] = pc[q]
    BY <2>1 DEF Retire, Free, Goto
  <2>3. QED
    BY <1>0, <2>2 DEF countVars
<1>5. ASSUME NEW p \in Callers, Close(p)
      PROVE  Exact'
  <2>1. /\ UNCHANGED <<writer, unlocked, countVars>>
        /\ pc[p] = "idle" /\ pc'[p] = "closing" /\ \A q \in Callers \ {p} : pc'[q] = pc[q]
    BY <1>5 DEF Close, Goto, jobVars
  <2>2. QED
    BY <1>0, <2>1 DEF countVars
<1>6. ASSUME NEW p \in Callers, Remove(p)
      PROVE  Exact'
  <2>1. /\ writer = p /\ writer' = None /\ pc[p] = "retiring"
        /\ UNCHANGED <<unlocked, stats, ended>>
        /\ pc'[p] = "idle" /\ \A q \in Callers \ {p} : pc'[q] = pc[q]
    BY <1>6 DEF Remove, Unlocked, Goto
  <2>2. QED
    BY <1>0, <2>1
<1>7. ASSUME NEW p \in Callers, NEW how \in Outcome, CleanupReturns(p, how)
      PROVE  Exact'
  <2>1. /\ UNCHANGED <<writer, unlocked, stats>> /\ ended' = ended + 1
        /\ pc[p] = "cleaning" /\ pc'[p] = "storing"
        /\ \A q \in Callers \ {p} : pc'[q] = pc[q]
        /\ outcome'[p] = how /\ read'[p] = stats[how]
    BY <1>7 DEF CleanupReturns, Goto, jobVars
  <2>2. writer = p
    BY <1>0, <2>1
  <2>3. QED
    BY <1>0, <2>1, <2>2
<1>8. ASSUME NEW p \in Callers, Store(p)
      PROVE  Exact'
  <2>1. /\ UNCHANGED <<writer, unlocked, ended>> /\ pc[p] = "storing"
    BY <1>8 DEF Store, jobVars
  <2>2. writer = p /\ read[p] = stats[outcome[p]]
    BY <1>0, <2>1
  <2>3. pc'[p] = "retiring" /\ \A q \in Callers \ {p} : pc'[q] = pc[q]
    BY <1>8, <2>2 DEF Store, Goto
  <2>4. stats'["ok"] + stats'["failed"] = stats["ok"] + stats["failed"] + 1
    BY <1>8, <2>2 DEF Store, Counted
  <2>5. QED
    BY <1>0, <2>1, <2>2, <2>3, <2>4
<1>9. CASE UNCHANGED <<writer, pc, unlocked, countVars>>
  BY <1>0, <1>9 DEF countVars
<1>10. Exact'
  BY <1>1, <1>2, <1>3, <1>4, <1>5, <1>6, <1>7, <1>8, <1>9, Cases
  DEF Looping, LoopTick, LoopSweep, LoopExit, vars, jobVars
<1>11. QED
  BY <1>10

(* Lost increments only ever make the counters too small: what is counted, *)
(* and whatever is about to be stored, leaves room for every cleanup that  *)
(* has ended and is still to be counted.                                   *)
LEMMA CountStep == TypeOK /\ CountInv /\ [Next]_vars => CountInv'
<1> SUFFICES ASSUME TypeOK, CountInv, [Next]_vars PROVE CountInv'
  OBVIOUS
<1> USE ManagerAssumption DEF ManagerAssumption, TypeOK
<1>0. PICK e \in [Outcome -> Nat] :
        /\ e["ok"] + e["failed"] = ended
        /\ \A k \in Outcome :
              /\ stats[k] + Cardinality(Storing(k)) <= e[k]
              /\ \A q \in Storing(k) : read[q] + Cardinality(Storing(k)) <= e[k]
  BY DEF CountInv
<1>00. \A k \in Outcome : IsFiniteSet(Storing(k)) /\ Cardinality(Storing(k)) \in Nat
  BY FS_Subset, FS_CardinalityType DEF Storing
<1>1. ASSUME NEW p \in Callers, NEW how \in Outcome, CleanupReturns(p, how)
      PROVE  CountInv'
  <2> DEFINE f == [e EXCEPT ![how] = @ + 1]
  <2>1. f \in [Outcome -> Nat] /\ f["ok"] + f["failed"] = ended + 1
    BY <1>0 DEF Outcome
  <2>2. /\ pc[p] = "cleaning" /\ pc'[p] = "storing" /\ outcome'[p] = how
        /\ \A q \in Callers \ {p} : pc'[q] = pc[q] /\ outcome'[q] = outcome[q]
        /\ stats' = stats /\ ended' = ended + 1
        /\ read'[p] = stats[how] /\ \A q \in Callers \ {p} : read'[q] = read[q]
    BY <1>1 DEF CleanupReturns, Goto
  <2>3. p \notin Storing(how) /\ Storing(how)' = Storing(how) \cup {p}
    BY <2>2 DEF Storing
  <2>4. Cardinality(Storing(how)') = Cardinality(Storing(how)) + 1
    BY <1>00, <2>3, FS_AddElement
  <2>5. \A k \in Outcome \ {how} : Storing(k)' = Storing(k)
    BY <2>2 DEF Storing
  <2>6. ASSUME NEW k \in Outcome
        PROVE  /\ stats'[k] + Cardinality(Storing(k)') <= f[k]
               /\ \A q \in Storing(k)' : read'[q] + Cardinality(Storing(k)') <= f[k]
    <3>1. CASE k = how
      <4>1. f[how] = e[how] + 1 /\ e[how] \in Nat /\ stats[how] \in Nat
        BY <1>0
      <4>2. stats'[how] + Cardinality(Storing(how)') <= f[how]
        BY <1>0, <1>00, <2>2, <2>4, <4>1
      <4>3. ASSUME NEW q \in Storing(how)'
            PROVE  read'[q] + Cardinality(Storing(how)') <= f[how]
        <5>1. q = p \/ (q \in Storing(how) /\ q \in Callers \ {p})
          BY <2>3 DEF Storing
        <5>2. read[q] \in Nat
          BY DEF Storing
        <5>3. QED
          BY <1>0, <1>00, <2>2, <2>4, <4>1, <5>1, <5>2
      <4>4. QED
        BY <3>1, <4>2, <4>3
    <3>2. CASE k # how
      BY <1>0, <2>2, <2>5, <3>2 DEF Storing
    <3>3. QED
      BY <3>1, <3>2
  <2>7. QED
    BY <2>1, <2>2, <2>6 DEF CountInv
<1>2. ASSUME NEW p \in Callers, Store(p)
      PROVE  CountInv'
  <2>0. PICK how \in Outcome : how = outcome[p]
    OBVIOUS
  <2>1. /\ pc[p] = "storing" /\ pc'[p] # "storing"
        /\ \A q \in Callers \ {p} :
              pc'[q] = pc[q] /\ outcome'[q] = outcome[q] /\ read'[q] = read[q]
        /\ stats'[how] = read[p] + 1 /\ ended' = ended
        /\ \A k \in Outcome \ {how} : stats'[k] = stats[k]
    BY <1>2, <2>0 DEF Store, Counted, Goto
  <2>2. p \in Storing(how) /\ Storing(how)' = Storing(how) \ {p}
    BY <2>0, <2>1 DEF Storing
  <2>3. Cardinality(Storing(how)') = Cardinality(Storing(how)) - 1
    BY <1>00, <2>1, <2>2, FS_RemoveElement
  <2>4. \A k \in Outcome \ {how} : Storing(k)' = Storing(k)
    BY <2>0, <2>1 DEF Storing
  <2>5. ASSUME NEW k \in Outcome
        PROVE  /\ stats'[k] + Cardinality(Storing(k)') <= e[k]
               /\ \A q \in Storing(k)' : read'[q] + Cardinality(Storing(k)') <= e[k]
    <3>1. CASE k = how
      <4>1. e[how] \in Nat /\ read[p] + Cardinality(Storing(how)) <= e[how]
        BY <1>0, <2>2
      <4>2. stats'[how] + Cardinality(Storing(how)') <= e[how]
        BY <1>00, <2>1, <2>3, <4>1
      <4>3. ASSUME NEW q \in Storing(how)'
            PROVE  read'[q] + Cardinality(Storing(how)') <= e[how]
        <5>1. q \in Storing(how) /\ q \in Callers \ {p} /\ read[q] \in Nat
          BY <2>2 DEF Storing
        <5>2. QED
          BY <1>0, <1>00, <2>1, <2>3, <4>1, <5>1
      <4>4. QED
        BY <3>1, <4>2, <4>3
    <3>2. CASE k # how
      BY <1>0, <2>1, <2>4, <3>2 DEF Storing
    <3>3. QED
      BY <3>1, <3>2
  <2>6. QED
    BY <1>0, <2>1, <2>5 DEF CountInv
<1>3. ASSUME UNCHANGED <<stats, read, ended>>,
             \A q \in Callers :
                \/ pc[q] # "storing" /\ pc'[q] # "storing"
                \/ pc'[q] = pc[q] /\ outcome'[q] = outcome[q]
      PROVE  CountInv'
  <2>1. \A k \in Outcome : Storing(k)' = Storing(k)
    BY <1>3 DEF Storing
  <2>2. QED
    BY <1>0, <1>3, <2>1 DEF CountInv
<1>4. ASSUME NEW p \in Callers, NEW id \in Ids,
             RegisterResource(p, id) \/ CleanupResource(p, id) \/ Visit(p, id)
      PROVE  CountInv'
  BY <1>3, <1>4
  DEF RegisterResource, CleanupResource, Visit, AfterLookup, countVars, Goto
<1>5. ASSUME NEW p \in Callers, Taking(p)
      PROVE  CountInv'
  BY <1>3, <1>5, TakingRetires DEF Retire, countVars, Goto
<1>6. ASSUME NEW p \in Callers, Close(p) \/ Remove(p)
      PROVE  CountInv'
  <2>1. CASE Close(p)
    BY <1>3, <2>1 DEF Close, countVars, Goto
  <2>2. CASE Remove(p)
    <3>1. pc[p] = "retiring" /\ pc'[p] = "idle"
      BY <2>2 DEF Remove, Goto
    <3>2. \A q \in Callers \ {p} : pc'[q] = pc[q] /\ outcome'[q] = outcome[q]
      BY <2>2 DEF Remove, Goto
    <3>3. UNCHANGED <<stats, read, ended>>
      BY <2>2 DEF Remove
    <3>4. \A q \in Callers :
               \/ pc[q] # "storing" /\ pc'[q] # "storing"
               \/ pc'[q] = pc[q] /\ outcome'[q] = outcome[q]
      BY <3>1, <3>2
    <3>5. QED
      BY <1>3, <3>3, <3>4
  <2>3. QED
    BY <1>6, <2>1, <2>2
<1>7. CASE UNCHANGED <<pc, countVars>>
  BY <1>3, <1>7 DEF countVars
<1>8. QED
  BY <1>1, <1>2, <1>4, <1>5, <1>6, <1>7, Cases
  DEF Looping, LoopTick, LoopSweep, LoopExit, vars

-----------------------------------------------------------------------------
(* A new manager has no entries, no cleanups and nothing counted. *)
LEMMA InitIInv == Init => IInv
<1> SUFFICES ASSUME Init PROVE IInv
  OBVIOUS
<1> USE ManagerAssumption DEF ManagerAssumption, Init
<1>1. TypeOK
  <2>1. 0 \in 0 .. MaxResources /\ 0 \in 0 .. MaxUnlocked /\ 0 \in 0 .. 0
    OBVIOUS
  <2>2. resources \in [Ids -> 0 .. total] /\ retired \in [Resource -> Nat]
    BY <2>1
  <2>3. QED
    BY <2>1, <2>2 DEF TypeOK, Label, Outcome
<1>1a. Locked
  BY DEF Locked
<1>2. OneEntryEach /\ RetiredInv /\ RetiredOnce /\ NothingForgotten
  BY DEF OneEntryEach, RetiredInv, RetiredOnce, NothingForgotten
<1>3. ExactInv
  BY DEF ExactInv, Uncounted, Outcome
<1>4. CountInv
  <2>1. \A k \in Outcome : Storing(k) = {}
    BY DEF Storing
  <2>2. [k \in Outcome |-> 0] \in [Outcome -> Nat]
    OBVIOUS
  <2>3. Cardinality({}) = 0
    BY FS_EmptySet
  <2>4. \A k \in Outcome :
           /\ stats[k] + Cardinality(Storing(k)) <= [j \in Outcome |-> 0][k]
           /\ \A p \in Storing(k) : read[p] + Cardinality(Storing(k)) <= [j \in Outcome |-> 0][k]
    BY <2>1, <2>3
  <2>5. [j \in Outcome |-> 0]["ok"] + [j \in Outcome |-> 0]["failed"] = ended
    BY DEF Outcome
  <2>6. QED
    BY <2>2, <2>4, <2>5 DEF CountInv
<1>5. QED
  BY <1>1, <1>1a, <1>2, <1>3, <1>4 DEF IInv

(* The strengthening is inductive. *)
LEMMA NextIInv == IInv /\ [Next]_vars => IInv'
BY TypeStep, LockedStep, OneEntryStep, RetiredStep, OnceStep, ForgottenStep,
   ExactStep, CountStep DEF IInv

(* Every reachable state of the manager satisfies the strengthening. *)
THEOREM Inductive == Spec => []IInv
BY InitIInv, NextIInv, PTL DEF Spec

(* The variables of the manager keep their types, and only the holder of   *)
(* the lock is at work on the entries.                                     *)
THEOREM TypeCorrect == Spec => []TypeOK
<1>1. IInv => TypeOK
  BY DEF IInv
<1>2. QED
  BY Inductive, <1>1, PTL

(* Whatever fails and whatever overlaps, no resource leaves the map without*)
(* its cleanup having been run under the lock, unless it was replaced.     *)
THEOREM NoneForgotten == Spec => []NothingForgotten
<1>1. IInv => NothingForgotten
  BY DEF IInv
<1>2. QED
  BY Inductive, <1>1, PTL

(* UnregisterResource, CleanupAll and Close clean each resource up once.   *)
THEOREM EachRetiredOnce == Spec => []RetiredOnce
<1>1. IInv => RetiredOnce
  BY DEF IInv
<1>2. QED
  BY Inductive, <1>1, PTL

(* The statistics are never above the number of cleanups that ended, and   *)
(* equal to it as long as CleanupResource is not used.                     *)
THEOREM StatsAreHonest == Spec => []StatsHonest
<1>1. IInv => StatsHonest
  <2>1. ASSUME IInv PROVE stats["ok"] + stats["failed"] <= ended
    <3>1. PICK e \in [Outcome -> Nat] :
            /\ e["ok"] + e["failed"] = ended
            /\ \A k \in Outcome : stats[k] + Cardinality(Storing(k)) <= e[k]
      BY <2>1 DEF IInv, CountInv
    <3>2. \A k \in Outcome : Cardinality(Storing(k)) \in Nat
      BY ManagerAssumption, FS_Subset, FS_CardinalityType DEF ManagerAssumption, Storing
    <3>3. stats \in [Outcome -> Nat] /\ ended \in Nat
      BY <2>1 DEF IInv, TypeOK
    <3>4. QED
      BY <3>1, <3>2, <3>3 DEF Outcome
  <2>2. IInv => (unlocked = 0 => stats["ok"] + stats["failed"] + Uncounted = ended)
    BY DEF IInv, ExactInv
  <2>3. QED
    BY <2>1, <2>2 DEF StatsHonest
<1>2. QED
  BY Inductive, <1>1, PTL

-----------------------------------------------------------------------------
(* The lock is given back: the safety part of OperationsReturn.            *)

\* The resources the operation has still to visit.
Waiting(p) == {resources[id] : id \in todo[p]}

StepsAt(label) ==
    CASE label = "cleaning" -> 3
      [] label = "storing" -> 2
      [] label = "retiring" -> 1
      [] OTHER -> 0

\* The steps an operation that is past the lock may still take.
ToReturn(p) ==
    StepsAt(pc[p]) + (IF writer = p THEN 3 * Cardinality(Waiting(p)) ELSE 0)

Busy(p) == pc[p] \in {"retiring", "cleaning", "storing"}

(* The resources to visit are finitely many, whatever the ids.             *)
LEMMA WaitingType ==
    ASSUME TypeOK, NEW p \in Callers
    PROVE  IsFiniteSet(Waiting(p) \ {0}) /\ Cardinality(Waiting(p) \ {0}) \in Nat
<1>1. Waiting(p) \ {0} \in SUBSET (1 .. total)
  BY ManagerAssumption DEF ManagerAssumption, TypeOK, Waiting
<1>2. total \in Int
  BY ManagerAssumption DEF ManagerAssumption, TypeOK
<1>3. IsFiniteSet(1 .. total)
  BY <1>2, FS_Interval
<1>4. IsFiniteSet(Waiting(p) \ {0})
  BY <1>1, <1>3, FS_Subset
<1>5. QED
  BY <1>4, FS_CardinalityType

(* What the holder of the lock has to visit is in the map.                 *)
LEMMA HolderWaiting ==
    ASSUME TypeOK, Locked, NEW p \in Callers, writer = p
    PROVE  IsFiniteSet(Waiting(p)) /\ Cardinality(Waiting(p)) \in Nat
<1>1. Waiting(p) \ {0} = Waiting(p)
  BY DEF Locked, Registered, Waiting
<1>2. QED
  BY <1>1, WaitingType

(* A step of an operation takes it nearer to its return.                   *)
LEMMA StepReturns ==
    ASSUME TypeOK, Locked, OneEntryEach, NEW p \in Callers, Step(p)
    PROVE  Busy(p) /\ ToReturn(p)' < ToReturn(p)
<1> USE DEF StepsAt, Busy
<1> DEFINE n == Cardinality(Waiting(p))
<1>0. /\ pc \in [Callers -> Label] /\ todo \in [Callers -> SUBSET Ids]
      /\ writer = p => n \in Nat
  BY HolderWaiting DEF TypeOK
<1>1. ASSUME NEW id \in Ids, Visit(p, id) PROVE Busy(p) /\ ToReturn(p)' < ToReturn(p)
  <2>1. /\ pc[p] = "retiring" /\ writer = p /\ writer' = p /\ id \in todo[p]
        /\ pc'[p] \in {"retiring", "cleaning"}
        /\ todo'[p] = todo[p] \ {id} /\ resources' = resources
    BY <1>0, <1>1 DEF Visit, Goto, AfterLookup, TypeOK
  <2>2. Waiting(p)' = Waiting(p) \ {resources[id]} /\ resources[id] \in Waiting(p)
    BY <1>0, <2>1 DEF Waiting, OneEntryEach, Locked, Registered
  <2>3. Cardinality(Waiting(p)') = n - 1
    BY <2>1, <2>2, HolderWaiting, FS_RemoveElement
  <2>4. ToReturn(p) = 1 + 3 * n
    BY <2>1 DEF ToReturn
  <2>5. ToReturn(p)' \in {1 + 3 * (n - 1), 3 + 3 * (n - 1)}
    BY <2>1, <2>3 DEF ToReturn
  <2>6. QED
    BY <1>0, <2>1, <2>4, <2>5
<1>2. CASE Remove(p)
  <2>1. pc[p] = "retiring" /\ writer = p /\ pc'[p] = "idle" /\ writer' # p
    BY <1>0, <1>2, ManagerAssumption DEF Remove, Goto, Unlocked, TypeOK, ManagerAssumption
  <2>2. QED
    BY <1>0, <2>1 DEF ToReturn
<1>3. ASSUME NEW how \in Outcome, CleanupReturns(p, how)
      PROVE  Busy(p) /\ ToReturn(p)' < ToReturn(p)
  <2>1. pc[p] = "cleaning" /\ pc'[p] = "storing" /\ UNCHANGED <<resources, todo, writer>>
    BY <1>0, <1>3 DEF CleanupReturns, Goto, mapVars, jobVars
  <2>2. Waiting(p)' = Waiting(p)
    BY <2>1 DEF Waiting
  <2>3. QED
    BY <1>0, <2>1, <2>2 DEF ToReturn
<1>4. CASE Store(p)
  <2>1. /\ pc[p] = "storing" /\ UNCHANGED <<resources, todo, writer>>
        /\ pc'[p] \in {"retiring", "idle"}
    BY <1>0, <1>4 DEF Store, Goto, mapVars, jobVars
  <2>2. Waiting(p)' = Waiting(p)
    BY <2>1 DEF Waiting
  <2>3. QED
    BY <1>0, <2>1, <2>2 DEF ToReturn
<1>5. QED
  BY <1>1, <1>2, <1>3, <1>4 DEF Step

(* What others do while an operation is past the lock is nothing to it.    *)
LEMMA OthersKeepReturn ==
    ASSUME TypeOK, NEW p \in Callers, Busy(p), [Next]_vars, ~Step(p)
    PROVE  ToReturn(p)' = ToReturn(p)
<1>1. pc'[p] = pc[p] /\ (writer' = p <=> writer = p) /\ todo'[p] = todo[p]
  <2> USE ManagerAssumption DEF ManagerAssumption, Busy, TypeOK
  <2>1. ASSUME NEW q \in Callers, NEW id \in Ids,
               RegisterResource(q, id) \/ CleanupResource(q, id) \/ Visit(q, id)
        PROVE  pc'[p] = pc[p] /\ (writer' = p <=> writer = p) /\ todo'[p] = todo[p]
    BY <2>1 DEF RegisterResource, CleanupResource, Visit, Step, Goto, jobVars
  <2>2. ASSUME NEW q \in Callers, Taking(q)
        PROVE  pc'[p] = pc[p] /\ (writer' = p <=> writer = p) /\ todo'[p] = todo[p]
    <3>1. PICK S \in SUBSET Ids : Retire(q, S)
      BY <2>2, TakingRetires
    <3>2. q # p
      BY <2>2, TakingRetires
    <3>3. QED
      BY <3>1, <3>2 DEF Retire, Goto, Free
  <2>3. ASSUME NEW q \in Callers, Close(q) \/ Remove(q) \/ Store(q)
        PROVE  pc'[p] = pc[p] /\ (writer' = p <=> writer = p) /\ todo'[p] = todo[p]
    BY <2>3 DEF Close, Remove, Unlocked, Store, Step, Goto, jobVars
  <2>4. ASSUME NEW q \in Callers, NEW how \in Outcome, CleanupReturns(q, how)
        PROVE  pc'[p] = pc[p] /\ (writer' = p <=> writer = p) /\ todo'[p] = todo[p]
    BY <2>4 DEF CleanupReturns, Step, Goto, jobVars
  <2>5. CASE Looping \/ UNCHANGED vars
    BY <2>5 DEF Looping, LoopTick, LoopSweep, LoopExit, vars, jobVars
  <2>6. QED
    BY <2>1, <2>2, <2>3, <2>4, <2>5, Cases
<1>2. writer = p => resources' = resources
  <2>1. ASSUME writer = p, NEW q \in Callers, Remove(q) PROVE FALSE
    BY <2>1 DEF Remove, Step, TypeOK
  <2>2. ASSUME writer = p, NEW q \in Callers, NEW id \in Ids, RegisterResource(q, id)
        PROVE  FALSE
    BY <2>2, ManagerAssumption DEF RegisterResource, Free, ManagerAssumption
  <2>3. QED
    BY <2>1, <2>2, Cases
    DEF CleanupResource, Visit, Taking, UnregisterResource, CleanupAll, CloseCleanupAll,
        Retire, Close, Store, CleanupReturns, Looping, LoopTick, LoopSweep, LoopExit,
        vars, mapVars
<1>3. writer = p => Waiting(p)' = Waiting(p)
  BY <1>1, <1>2 DEF Waiting
<1>4. QED
  BY <1>1, <1>3 DEF ToReturn

(* For any number of goroutines, ids and resources, an operation past the  *)
(* lock can take finitely many steps, which only its own steps use up; and *)
(* whoever holds the lock is at one of them, so that nobody waits for a    *)
(* holder that waits itself.                                               *)
THEOREM OperationsRunOut ==
    Spec =>
        /\ [](/\ writer # None => Busy(writer)
              /\ \A p \in Callers : Busy(p) => ToReturn(p) \in Nat \ {0})
        /\ [][\A p \in Callers :
                 Busy(p) =>
                    \/ Step(p) /\ ToReturn(p)' < ToReturn(p)
                    \/ ToReturn(p)' = ToReturn(p)]_vars
<1>1. IInv => /\ writer # None => Busy(writer)
              /\ \A p \in Callers : Busy(p) => ToReturn(p) \in Nat \ {0}
  <2> SUFFICES ASSUME IInv
               PROVE  /\ writer # None => Busy(writer)
                      /\ \A p \in Callers : Busy(p) => ToReturn(p) \in Nat \ {0}
    OBVIOUS
  <2>1. writer # None => Busy(writer)
    BY DEF IInv, TypeOK, Label, Busy
  <2>2. ASSUME NEW p \in Callers, Busy(p) PROVE ToReturn(p) \in Nat \ {0}
    <3>1. StepsAt(pc[p]) \in 1 .. 3
      BY <2>2 DEF Busy, StepsAt
    <3>2. writer = p => Cardinality(Waiting(p)) \in Nat
      BY HolderWaiting DEF IInv
    <3>3. QED
      BY <3>1, <3>2 DEF ToReturn
  <2>3. QED
    BY <2>1, <2>2
<1>2. IInv /\ [Next]_vars =>
        [\A p \in Callers :
            Busy(p) =>
               \/ Step(p) /\ ToReturn(p)' < ToReturn(p)
               \/ ToReturn(p)' = ToReturn(p)]_vars
  BY StepReturns, OthersKeepReturn DEF IInv
<1>3. QED
  BY <1>1, <1>2, Inductive, PTL DEF Spec
=============================================================================
