------------------------- MODULE ConfigWatcher_proofs -------------------------
(***************************************************************************)
(* What holds of the watcher for any contents, callbacks, loops and bounds.*)
(* SInv is what SeenIsApplied rests on: where the configuration of the     *)
(* present file is while a loop is working on it.                          *)
(***************************************************************************)
EXTENDS ConfigWatcher, FiniteSetTheorems, TLAPS

\* What is loaded, launched or applied was accepted.
AcceptedInv ==
    /\ OnlyAccepted
    /\ \A l \in Loops : loaded[l] \in Valid
    /\ \A f \in Listeners, c \in Contents : launched[f][c] > 0 => c \in Valid

LoopInv ==
    ~cancelled =>
        /\ \A l \in Loops : pc[l] # "exited"
        /\ IF running THEN \E l \in Loops : Live = {l} ELSE Live = {}

IInv == TypeOK /\ AcceptedInv /\ LoopInv

Untouched == ~cancelled /\ ~missed /\ ~Watched => content = config

Loaded ==
    ~cancelled /\ ~missed =>
        \A l \in Loops :
            pc[l] = "updating" /\ mtime <= lastMod[l] => loaded[l] = content

SInv == Untouched /\ Loaded /\ SeenIsApplied

-----------------------------------------------------------------------------
(* The variables keep their types. *)
LEMMA TypeStep == TypeOK /\ [Next]_vars => TypeOK'
<1> SUFFICES ASSUME TypeOK, [Next]_vars PROVE TypeOK'
  OBVIOUS
<1> USE WatcherAssumption
    DEF WatcherAssumption, TypeOK, Label, Goto, fileVars, loopVars
<1>2. CASE Change
  <2>1. missed' \in BOOLEAN
    BY <1>2, Zenon DEF Change
  <2>2. QED
    BY <1>2, <2>1 DEF Change
<1>3. ASSUME NEW f \in Listeners, AddCallback(f) PROVE TypeOK'
  BY <1>3 DEF AddCallback
<1>4. ASSUME NEW l \in Loops, Watch(l) PROVE TypeOK'
  BY <1>4 DEF Watch
<1>5. CASE Stop
  BY <1>5 DEF Stop
<1>6. ASSUME NEW l \in Loops, InitialStat(l) PROVE TypeOK'
  BY <1>6 DEF InitialStat
<1>7. ASSUME NEW l \in Loops, Exit(l) PROVE TypeOK'
  BY <1>7 DEF Exit
<1>8. ASSUME NEW l \in Loops, TickStat(l) PROVE TypeOK'
  BY <1>8 DEF TickStat
<1>9. ASSUME NEW l \in Loops, Load(l) PROVE TypeOK'
  BY <1>9 DEF Load, Accepted
<1>10. ASSUME NEW l \in Loops, LoadFails(l) PROVE TypeOK'
  <2>1. missed' \in BOOLEAN
    BY <1>10, Zenon DEF LoadFails
  <2>2. QED
    BY <1>10, <2>1 DEF LoadFails
<1>11. ASSUME NEW l \in Loops, Update(l) PROVE TypeOK'
  <2>1. launched' \in [Listeners -> [Contents -> 0 .. MaxLaunched]]
    BY <1>11 DEF Update
  <2>2. QED
    BY <1>11, <2>1 DEF Update
<1>12. ASSUME NEW f \in Listeners, NEW c \in Valid, RunCallback(f, c) PROVE TypeOK'
  <2>1. launched' \in [Listeners -> [Contents -> 0 .. MaxLaunched]]
    BY <1>12 DEF RunCallback, Due
  <2>2. QED
    BY <1>12, <2>1 DEF RunCallback
<1>13. CASE UNCHANGED vars
  BY <1>13 DEF vars
<1>14. QED
  BY <1>2, <1>3, <1>4, <1>5, <1>6, <1>7, <1>8, <1>9, <1>10, <1>11, <1>12, <1>13
  DEF Next, Step

(* Only Load, Update and RunCallback touch what AcceptedInv is about.      *)
LEMMA AcceptedStep == TypeOK /\ AcceptedInv /\ [Next]_vars => AcceptedInv'
<1> SUFFICES ASSUME TypeOK, AcceptedInv, [Next]_vars PROVE AcceptedInv'
  OBVIOUS
<1> USE WatcherAssumption
    DEF WatcherAssumption, AcceptedInv, OnlyAccepted, TypeOK, loopVars
<1>1. CASE UNCHANGED <<config, loaded, launched, heard>>
  BY <1>1
<1>2. ASSUME NEW l \in Loops, Load(l) PROVE AcceptedInv'
  BY <1>2 DEF Load, Accepted
<1>3. ASSUME NEW l \in Loops, Update(l) PROVE AcceptedInv'
  <2>1. \A f \in Listeners, c \in Contents :
            launched'[f][c] > 0 => launched[f][c] > 0 \/ c = loaded[l]
    BY <1>3 DEF Update
  <2>2. QED
    BY <1>3, <2>1 DEF Update
<1>4. ASSUME NEW f \in Listeners, NEW c \in Valid, RunCallback(f, c) PROVE AcceptedInv'
  BY <1>4 DEF RunCallback, Due
<1>5. QED
  BY <1>1, <1>2, <1>3, <1>4
  DEF Next, Step, Change, AddCallback, Watch, Stop, InitialStat, Exit,
      TickStat, LoadFails, fileVars, vars

(* Watch adds the only loop, and no loop exits before Stop.                *)
LEMMA LoopStep == TypeOK /\ LoopInv /\ [Next]_vars => LoopInv'
<1> SUFFICES ASSUME TypeOK, LoopInv, [Next]_vars PROVE LoopInv'
  OBVIOUS
<1>1. CASE UNCHANGED <<pc, running, cancelled>>
  BY <1>1 DEF LoopInv, Live
<1>2. ASSUME NEW l \in Loops, Watch(l) PROVE LoopInv'
  <2>1. ~cancelled => Live' = {l} /\ \A k \in Loops : pc'[k] # "exited"
    BY <1>2 DEF Watch, MayWatch, LoopInv, Live, TypeOK, Goto
  <2>2. QED
    BY <1>2, <2>1 DEF Watch, LoopInv
<1>3. CASE Stop
  BY <1>3 DEF Stop, LoopInv
<1>4. ASSUME NEW l \in Loops, Step(l) PROVE LoopInv'
  <2>1. CASE Exit(l)
    BY <2>1 DEF Exit, AskedToExit, LoopInv
  <2>2. CASE ~Exit(l)
    <3>1. /\ pc[l] \notin {"unborn", "exited"}
          /\ \E label \in Label \ {"unborn", "exited"} : pc' = [pc EXCEPT ![l] = label]
          /\ UNCHANGED <<running, cancelled>>
      BY <1>4, <2>2 DEF Step, InitialStat, TickStat, Load, LoadFails, Update, Goto, Label
    <3>2. Live' = Live
      BY <3>1 DEF Live, TypeOK
    <3>3. (\A k \in Loops : pc[k] # "exited") => \A k \in Loops : pc'[k] # "exited"
      BY <3>1 DEF TypeOK
    <3>4. QED
      BY <3>1, <3>2, <3>3 DEF LoopInv
  <2>3. QED
    BY <2>1, <2>2
<1>5. QED
  BY <1>1, <1>2, <1>3, <1>4
  DEF Next, Change, AddCallback, RunCallback, fileVars, loopVars, vars

(* The watcher starts with the file just loaded and no loop.               *)
LEMMA InitIInv == Init => IInv /\ SInv
<1> SUFFICES ASSUME Init PROVE IInv /\ SInv
  OBVIOUS
<1> USE WatcherAssumption DEF WatcherAssumption, Init
<1>1. TypeOK
  <2>1. content \in Contents /\ config \in Contents
    OBVIOUS
  <2>2. mtime \in 1 .. MaxTime
    OBVIOUS
  <2>3. pc \in [Loops -> Label] /\ loaded \in [Loops -> Contents]
    BY <2>1 DEF Label
  <2>4. lastMod \in [Loops -> 0 .. MaxTime]
    OBVIOUS
  <2>5. launched \in [Listeners -> [Contents -> 0 .. MaxLaunched]]
    OBVIOUS
  <2>6. /\ heard \in [Listeners -> Contents \cup {Missing}]
        /\ callbacks \subseteq Listeners
        /\ running \in BOOLEAN /\ cancelled \in BOOLEAN
        /\ missed \in BOOLEAN
    BY Zenon
  <2>7. QED
    BY <2>1, <2>2, <2>3, <2>4, <2>5, <2>6, Zenon DEF TypeOK
<1>2. AcceptedInv
  BY DEF AcceptedInv, OnlyAccepted
<1>3. LoopInv
  BY DEF LoopInv, Live
<1>4. SInv
  BY DEF SInv, Untouched, Loaded, SeenIsApplied
<1>5. QED
  BY <1>1, <1>2, <1>3, <1>4 DEF IInv

(* Every step preserves the invariant.                                     *)
LEMMA NextIInv == IInv /\ [Next]_vars => IInv'
BY TypeStep, AcceptedStep, LoopStep DEF IInv

-----------------------------------------------------------------------------
(* A change that is not missed comes when some loop has made its first     *)
(* Stat, and has a later time than any loop has seen that is not about to  *)
(* read the file.                                                          *)
LEMMA ChangeStep ==
    ASSUME TypeOK, Change, ~missed'
    PROVE  /\ Watched'
           /\ \A l \in Loops : mtime' <= lastMod'[l] => pc'[l] = "reloading"
<1>1. Watched /\ SeenBy(mtime') = {}
  BY Zenon DEF Change
<1>2. UNCHANGED loopVars
  BY DEF Change
<1>3. QED
  BY <1>1, <1>2 DEF Watched, SeenBy, loopVars

(* Where a loop is live before Stop, it is the only one.                   *)
LEMMA OnlyLoop ==
    ASSUME LoopInv, ~cancelled, NEW l \in Loops, NEW k \in Loops,
           pc[l] \notin {"unborn", "exited"}, pc[k] \notin {"unborn", "exited"}
    PROVE  l = k
BY DEF LoopInv, Live

(* A step of a loop keeps what SeenIsApplied rests on.                     *)
LEMMA LoopStepSInv ==
    ASSUME IInv, SInv, NEW l \in Loops, Step(l)
    PROVE  SInv'
<1> USE DEF IInv, SInv, Untouched, Loaded, SeenIsApplied, Watched, Goto
<1>0. cancelled' = cancelled /\ UNCHANGED <<content, mtime>>
  BY DEF Step, InitialStat, Exit, TickStat, Load, LoadFails, Update, fileVars
<1>1. CASE InitialStat(l)
  <2>2. ~cancelled /\ ~missed => content = config
    <3>1. SUFFICES ASSUME ~cancelled, ~missed PROVE ~Watched
      OBVIOUS
    <3>2. \A k \in Loops : pc[k] \notin {"unborn", "exited"} => k = l
      BY <1>1, <3>1, OnlyLoop DEF InitialStat
    <3>3. \A k \in Loops : pc[k] # "exited"
      BY <3>1 DEF LoopInv
    <3>4. QED
      BY <1>1, <3>2, <3>3 DEF InitialStat
  <2>3. QED
    BY <1>1, <2>2 DEF InitialStat, TypeOK, fileVars
<1>2. CASE Exit(l)
  BY <1>2 DEF Exit, AskedToExit, fileVars
<1>3. CASE TickStat(l)
  BY <1>3 DEF TickStat, TypeOK, fileVars
<1>4. CASE Load(l)
  BY <1>4 DEF Load, TypeOK, fileVars
<1>5. CASE LoadFails(l)
  BY <1>5 DEF LoadFails, Accepted, TypeOK, fileVars
<1>6. CASE Update(l)
  BY <1>6, OnlyLoop DEF Update, TypeOK, fileVars
<1>7. QED
  BY <1>1, <1>2, <1>3, <1>4, <1>5, <1>6 DEF Step

(* Every step keeps what SeenIsApplied rests on.        *)
LEMMA NextSInv == ASSUME IInv, SInv, [Next]_vars PROVE SInv'
<1>1. CASE Change
  <2>1. UNCHANGED <<config, cancelled, loopVars>>
    BY <1>1 DEF Change
  <2>2. QED
    BY <1>1, <2>1, ChangeStep
    DEF IInv, SInv, Untouched, Loaded, SeenIsApplied
<1>2. ASSUME NEW l \in Loops, Watch(l) PROVE SInv'
  BY <1>2
  DEF IInv, SInv, TypeOK, Untouched, Watched, Loaded, SeenIsApplied,
      Watch, Goto, fileVars
<1>3. CASE Stop
  BY <1>3 DEF SInv, Untouched, Watched, Loaded, SeenIsApplied, Stop, fileVars, loopVars
<1>4. CASE UNCHANGED <<content, mtime, missed, config, cancelled, loopVars>>
  BY <1>4 DEF SInv, Untouched, Watched, Loaded, SeenIsApplied, loopVars
<1>5. QED
  BY <1>1, <1>2, <1>3, <1>4, LoopStepSInv
  DEF Next, AddCallback, RunCallback, fileVars, vars

-----------------------------------------------------------------------------
(* The inductive invariant holds of every reachable state.                 *)
THEOREM Inductive == Spec => []IInv
BY InitIInv, NextIInv, PTL DEF Spec

(* The variables keep their types, for any contents, loops and callbacks.  *)
THEOREM TypeCorrect == Spec => []TypeOK
<1>1. IInv => TypeOK
  BY DEF IInv
<1>2. QED
  BY <1>1, Inductive, PTL

(* However the file changes, neither the configuration nor a callback sees *)
(* a configuration that was not accepted.                                  *)
THEOREM AcceptedOnly == Spec => []OnlyAccepted
<1>1. IInv => OnlyAccepted
  BY DEF IInv, AcceptedInv
<1>2. QED
  BY <1>1, Inductive, PTL

(* Until Stop there is one loop while the watcher runs, and none before.   *)
THEOREM OneLoop == Spec => []OneLoopUntilStopped
<1>1. IInv => OneLoopUntilStopped
  BY FS_EmptySet, FS_Singleton DEF IInv, LoopInv, OneLoopUntilStopped
<1>2. QED
  BY <1>1, Inductive, PTL

(* A loop that finds the present file no newer than the last time it saw   *)
(* has applied that file, whenever it changed, unless it had to miss the   *)
(* change.                                                                 *)
THEOREM WhatIsSeenIsApplied == Spec => []SeenIsApplied
<1>1. Init => SInv
  BY InitIInv
<1>2. IInv /\ SInv /\ [Next]_vars => SInv'
  BY NextSInv
<1>3. SInv => SeenIsApplied
  BY DEF SInv
<1>4. QED
  BY <1>1, <1>2, <1>3, Inductive, PTL DEF Spec
=============================================================================
