--------------------------- MODULE Collector_proofs ---------------------------
(***************************************************************************)
(* What holds of the collector for any scrapes, updates and configurations.*)
(* Between scrapes nothing is left of one; while the write lock is had     *)
(* nobody scrapes; and a scrape that began behind an open breaker has not  *)
(* got past it.                                                            *)
(***************************************************************************)
EXTENDS Collector, TLAPS

NothingLeft ==
    \A s \in Scrapers : pc[s] # "scraping" => samples[s] = <<>> /\ healthy[s]

BehindGate ==
    \A s \in Scrapers :
        began[s] = "down" => gate = "down" /\ phase[s] \notin {"inside", "served"}

InTheMiddle == \A s \in Scrapers : phase[s] # "idle" => More(s)

IInv ==
    /\ TypeOK /\ NothingLeft /\ InTheMiddle /\ BehindGate
    /\ ScrapeIsOfOneConfig /\ OpenBreakerFailsAll

-----------------------------------------------------------------------------
(* Sequences. *)

LEMMA Appended ==
    ASSUME NEW S, NEW q \in Seq(S), NEW e \in S
    PROVE  /\ Append(q, e) \in Seq(S)
           /\ Len(q) \in Nat /\ Len(Append(q, e)) = Len(q) + 1
           /\ \A k \in 1 .. Len(q) : Append(q, e)[k] = q[k]
           /\ Append(q, e)[Len(q) + 1] = e
OBVIOUS

LEMMA Nothing == ASSUME NEW S PROVE <<>> \in Seq(S) /\ Len(<<>>) = 0
OBVIOUS

(* The mount points in force are a sequence of mount points. *)
LEMMA CurrentType ==
    ASSUME TypeOK
    PROVE  /\ Current \in Seq(Mounts)
           /\ Len(Current) \in Nat
           /\ \A k \in 1 .. Len(Current) : Current[k] \in Mounts
<1>1. Current \in Seq(Mounts)
  BY CollectorAssumption DEF CollectorAssumption, TypeOK, Current
<1>2. QED
  BY <1>1

-----------------------------------------------------------------------------
(* Steps that add no sample. *)

(* A step of a check keeps the gate's types.                               *)
LEMMA GateStep ==
    ASSUME G!TypeOK, NEW s \in Scrapers,
           G!Ask(s) \/ G!Enter(s) \/ G!TurnAway(s) \/ G!Leave(s) \/ G!Answer(s)
    PROVE  /\ G!TypeOK'
           /\ \A t \in Scrapers \ {s} : phase'[t] = phase[t]
           /\ gate = "down" =>
                 /\ gate' = "down"
                 /\ phase[s] # "served" => phase'[s] \notin {"inside", "served"}
BY DEF G!TypeOK, G!Phase, G!Ask, G!Enter, G!TurnAway, G!Leave, G!Answer, G!Move,
       G!NobodyElseInside

LEMMA CheckStep == ASSUME IInv, NEW s \in Scrapers, Check(s) PROVE IInv'
<1> USE DEF IInv, Check, More
<1>1. /\ G!TypeOK'
      /\ \A t \in Scrapers \ {s} : phase'[t] = phase[t]
      /\ gate = "down" =>
            /\ gate' = "down"
            /\ phase[s] # "served" => phase'[s] \notin {"inside", "served"}
  BY GateStep DEF TypeOK
<1>2. TypeOK'
  BY <1>1 DEF TypeOK, lockVars, scrapeVars
<1>3. NothingLeft' /\ ScrapeIsOfOneConfig' /\ OpenBreakerFailsAll'
  BY DEF NothingLeft, ScrapeIsOfOneConfig, OpenBreakerFailsAll, Current, lockVars, scrapeVars
<1>4. BehindGate'
  BY <1>1 DEF BehindGate, scrapeVars
<1>5. InTheMiddle'
  BY <1>1 DEF InTheMiddle, Current, lockVars, scrapeVars
<1>6. QED
  BY <1>2, <1>3, <1>4, <1>5

(* Collect, UpdateConfig, Announce and GetFindmntWrapper leave the samples *)
(* and the gate alone.                                                     *)
LEMMA QuietStep ==
    ASSUME IInv,
           \/ \E s \in Scrapers : Collect(s)
           \/ \E u \in Updaters : UpdateConfig(u) \/ Announce(u)
           \/ GetFindmntWrapper
           \/ UNCHANGED vars
    PROVE  IInv'
<1> USE DEF IInv
<1>1. ASSUME NEW s \in Scrapers, Collect(s) PROVE IInv'
  <2> USE <1>1 DEF Collect
  <2>1. TypeOK'
    BY DEF TypeOK, G!TypeOK
  <2>2. NothingLeft' /\ ScrapeIsOfOneConfig' /\ OpenBreakerFailsAll'
    <3>1. \A t \in Scrapers : pc'[t] = "scraping" => pc[t] = "scraping" \/ t = s
      BY DEF TypeOK
    <3>2. \A t \in Scrapers : t # s => began'[t] = began[t] /\ pc'[t] = pc[t]
      BY DEF TypeOK
    <3>3. samples[s] = <<>> /\ healthy[s]
      BY DEF NothingLeft
    <3>4. QED
      BY <3>1, <3>2, <3>3, CurrentType, Nothing
      DEF NothingLeft, ScrapeIsOfOneConfig, OpenBreakerFailsAll, Current
  <2>3. BehindGate' /\ InTheMiddle'
    BY DEF BehindGate, InTheMiddle, More, Current, TypeOK
  <2>4. QED
    BY <2>1, <2>2, <2>3
<1>2. ASSUME NEW u \in Updaters, UpdateConfig(u) \/ Announce(u) PROVE IInv'
  <2> USE <1>2 DEF UpdateConfig, Announce, scrapeVars
  <2>1. TypeOK'
    BY DEF TypeOK, G!TypeOK
  <2>2. QED
    BY <2>1 DEF NothingLeft, InTheMiddle, More, BehindGate, ScrapeIsOfOneConfig,
                OpenBreakerFailsAll, Current
<1>3. CASE GetFindmntWrapper \/ UNCHANGED vars
  <2> USE <1>3 DEF GetFindmntWrapper, vars, lockVars, scrapeVars
  <2>1. TypeOK'
    BY DEF TypeOK, G!TypeOK
  <2>2. NothingLeft' /\ BehindGate' /\ OpenBreakerFailsAll'
    BY DEF NothingLeft, BehindGate, OpenBreakerFailsAll
  <2>3. ScrapeIsOfOneConfig' /\ InTheMiddle'
    BY DEF ScrapeIsOfOneConfig, InTheMiddle, More, Current
  <2>4. QED
    BY <2>1, <2>2, <2>3
<1>4. QED
  BY <1>1, <1>2, <1>3

(* Nobody scrapes when the configuration is replaced, and those who then   *)
(* begin have sent nothing.                                                *)
LEMMA ReplaceStep == ASSUME IInv, NEW u \in Updaters, Replace(u) PROVE IInv'
<1> USE DEF IInv, Replace, Drained
<1>1. TypeOK'
  BY DEF TypeOK, G!TypeOK
<1>2. \A s \in Scrapers : samples'[s] = <<>> /\ healthy'[s]
  BY DEF NothingLeft
<1>3. Len(Current') \in Nat
  BY CollectorAssumption DEF CollectorAssumption, Current
<1>4. NothingLeft' /\ ScrapeIsOfOneConfig' /\ OpenBreakerFailsAll'
  BY <1>2, <1>3, Nothing DEF NothingLeft, ScrapeIsOfOneConfig, OpenBreakerFailsAll
<1>5. BehindGate' /\ InTheMiddle'
  BY DEF BehindGate, InTheMiddle, TypeOK
<1>6. QED
  BY <1>1, <1>4, <1>5

(* A reset opens the gate for every scrape.                                *)
LEMMA ResetStep == ASSUME IInv, ResetCircuitBreaker PROVE IInv'
<1> USE DEF IInv, ResetCircuitBreaker, G!Raise, lockVars
<1>1. TypeOK'
  BY DEF TypeOK, G!TypeOK
<1>2. NothingLeft' /\ InTheMiddle' /\ BehindGate' /\ OpenBreakerFailsAll'
  BY DEF NothingLeft, InTheMiddle, More, Current, BehindGate, OpenBreakerFailsAll
<1>3. ScrapeIsOfOneConfig'
  BY DEF ScrapeIsOfOneConfig, Current
<1>4. QED
  BY <1>1, <1>2, <1>3

(* A scrape that ends leaves nothing.                                      *)
LEMMA FinishStep == ASSUME IInv, NEW s \in Scrapers, Finish(s) PROVE IInv'
<1> USE DEF IInv, Finish, Done, More
<1>0. \A t \in Scrapers : t # s => /\ pc'[t] = pc[t] /\ samples'[t] = samples[t]
                                 /\ healthy'[t] = healthy[t] /\ began'[t] = began[t]
  BY DEF TypeOK
<1>1. pc'[s] = "idle" /\ samples'[s] = <<>> /\ healthy'[s] = TRUE /\ began'[s] = "up"
  BY DEF TypeOK
<1>2. TypeOK'
  <2>1. samples' \in [Scrapers -> Seq(Sample)]
    BY Nothing DEF TypeOK
  <2>2. phase[s] = "idle"
    BY DEF InTheMiddle
  <2>3. G!TypeOK'
    BY DEF TypeOK, G!TypeOK
  <2>4. /\ pc' \in [Scrapers -> {"idle", "blocked", "scraping"}]
        /\ began' \in [Scrapers -> {"up", "down"}]
    BY DEF TypeOK
  <2>5. healthy' \in [Scrapers -> BOOLEAN]
    BY DEF TypeOK
  <2>6. QED
    BY <1>0, <2>1, <2>2, <2>3, <2>4, <2>5 DEF TypeOK
<1>3. NothingLeft' /\ BehindGate' /\ OpenBreakerFailsAll'
  BY <1>0, <1>1 DEF NothingLeft, BehindGate, OpenBreakerFailsAll
<1>4. ScrapeIsOfOneConfig' /\ InTheMiddle'
  BY <1>0, <1>1, Nothing DEF ScrapeIsOfOneConfig, InTheMiddle, Current
<1>5. QED
  BY <1>2, <1>3, <1>4

-----------------------------------------------------------------------------
(* The sample that is added is of the configuration and the wrapper in     *)
(* force, and an error if the gate is down.                                *)
LEMMA ExportStep == ASSUME IInv, NEW s \in Scrapers, Export(s) PROVE IInv'
<1> USE DEF IInv
<1>1. PICK status \in Answers(s) :
        /\ samples' = [samples EXCEPT ![s] = Append(@,
              [config |-> config, wrapper |-> generation,
               mount |-> Current[Len(@) + 1], status |-> status])]
        /\ healthy' = [healthy EXCEPT ![s] = @ /\ status # "error"]
  BY DEF Export
<1> DEFINE old == samples[s]
           new == [config |-> config, wrapper |-> generation,
                   mount |-> Current[Len(old) + 1], status |-> status]
<1>2. /\ pc[s] = "scraping" /\ Len(old) < Len(Current)
      /\ G!Answer(s)
      /\ UNCHANGED <<config, generation, began, lockVars, handle>>
  BY DEF Export, More
<1>3. old \in Seq(Sample) /\ status \in Status
  BY DEF TypeOK, Answers, Status
<1>4. Len(old) \in Nat /\ Len(old) + 1 \in 1 .. Len(Current)
  BY <1>2, <1>3, CurrentType
<1>5. new \in Sample
  BY <1>3, <1>4, CurrentType DEF Sample, TypeOK
<1>6. /\ samples' = [samples EXCEPT ![s] = Append(old, new)]
      /\ samples'[s] = Append(old, new)
      /\ healthy'[s] = (healthy[s] /\ status # "error")
      /\ \A t \in Scrapers \ {s} : samples'[t] = samples[t] /\ healthy'[t] = healthy[t]
  BY <1>1 DEF TypeOK
<1>7. /\ new.config = config /\ new.wrapper = generation
      /\ new.mount = Current[Len(old) + 1] /\ new.status = status
  OBVIOUS
<1> HIDE DEF old, new
<1>8. /\ Append(old, new) \in Seq(Sample)
      /\ Len(Append(old, new)) = Len(old) + 1
      /\ \A k \in 1 .. Len(old) : Append(old, new)[k] = old[k]
      /\ Append(old, new)[Len(old) + 1] = new
  BY <1>3, <1>5, Appended
<1>9. /\ G!TypeOK'
      /\ \A t \in Scrapers \ {s} : phase'[t] = phase[t]
      /\ gate = "down" => gate' = "down"
      /\ phase[s] \in {"refused", "served"} /\ phase'[s] = "idle"
  BY <1>2, GateStep DEF TypeOK, G!TypeOK, G!Answer, G!Move
<1>10. TypeOK'
  <2>1. samples' \in [Scrapers -> Seq(Sample)]
    BY <1>6, <1>8 DEF TypeOK
  <2>2. healthy' \in [Scrapers -> BOOLEAN]
    BY <1>1 DEF TypeOK
  <2>3. \A t \in Scrapers : phase'[t] # "idle" => pc'[t] = "scraping"
    BY <1>2, <1>9 DEF TypeOK, lockVars
  <2>4. QED
    BY <1>2, <1>9, <2>1, <2>2, <2>3 DEF TypeOK, lockVars
<1>11. NothingLeft'
  BY <1>2, <1>6 DEF NothingLeft, lockVars
<1>12. BehindGate' /\ InTheMiddle'
  <2>1. BehindGate'
    BY <1>2, <1>9 DEF BehindGate
  <2>2. \A t \in Scrapers \ {s} : phase[t] # "idle" => More(t)'
    BY <1>2, <1>6 DEF InTheMiddle, More, Current, lockVars
  <2>3. QED
    BY <1>9, <2>1, <2>2 DEF InTheMiddle
<1>13. ScrapeIsOfOneConfig'
  <2>1. ASSUME NEW k \in 1 .. Len(samples'[s])
        PROVE  /\ samples'[s][k].config = config
               /\ samples'[s][k].wrapper = generation
               /\ samples'[s][k].mount = Current[k]
    <3>1. CASE k = Len(old) + 1
      BY <3>1, <1>6, <1>7, <1>8
    <3>2. CASE k # Len(old) + 1
      <4>1. k \in 1 .. Len(old)
        BY <3>2, <1>4, <1>6, <1>8
      <4>2. samples'[s][k] = samples[s][k]
        BY <4>1, <1>6, <1>8 DEF old
      <4>3. QED
        BY <4>1, <4>2, <1>2 DEF ScrapeIsOfOneConfig, old
    <3>3. QED
      BY <3>1, <3>2
  <2>2. Len(samples'[s]) <= Len(Current)
    BY <1>4, <1>6, <1>8, CurrentType
  <2>3. healthy'[s] <=> \A k \in 1 .. Len(samples'[s]) : samples'[s][k].status # "error"
    <3>1. healthy[s] <=> \A k \in 1 .. Len(old) : old[k].status # "error"
      BY DEF ScrapeIsOfOneConfig, old
    <3>2. \A k : k \in 1 .. Len(samples'[s]) <=> k \in 1 .. Len(old) \/ k = Len(old) + 1
      BY <1>4, <1>6, <1>8
    <3>3. \A k \in 1 .. Len(old) : samples'[s][k].status = old[k].status
      BY <1>6, <1>8
    <3>4. samples'[s][Len(old) + 1].status = status
      BY <1>6, <1>7, <1>8
    <3>5. healthy'[s] <=> healthy[s] /\ status # "error"
      BY <1>6, Zenon
    <3>6. QED
      BY <3>1, <3>2, <3>3, <3>4, <3>5, Zenon
  <2>4. Current' = Current /\ config' = config /\ generation' = generation /\ pc' = pc
    BY <1>2 DEF Current, lockVars
  <2>5. QED
    BY <1>6, <2>1, <2>2, <2>3, <2>4 DEF ScrapeIsOfOneConfig
<1>14. OpenBreakerFailsAll'
  <2>1. began[s] = "down" => status = "error"
    BY <1>9 DEF BehindGate, Answers
  <2>2. ASSUME began[s] = "down", NEW k \in 1 .. Len(samples'[s])
        PROVE  samples'[s][k].status = "error"
    <3>1. CASE k = Len(old) + 1
      BY <2>1, <2>2, <3>1, <1>6, <1>7, <1>8
    <3>2. CASE k # Len(old) + 1
      <4>1. k \in 1 .. Len(old)
        BY <3>2, <1>4, <1>6, <1>8
      <4>2. QED
        BY <2>2, <4>1, <1>2, <1>6, <1>8 DEF OpenBreakerFailsAll, old
    <3>3. QED
      BY <3>1, <3>2
  <2>3. QED
    BY <1>2, <1>6, <2>2 DEF OpenBreakerFailsAll, lockVars
<1>15. QED
  BY <1>10, <1>11, <1>12, <1>13, <1>14

LEMMA InitIInv == Init => IInv
<1> SUFFICES ASSUME Init PROVE IInv
  OBVIOUS
<1>1. TypeOK
  BY Nothing, CollectorAssumption DEF Init, G!Init, TypeOK, G!TypeOK, G!Phase
<1>2. NothingLeft /\ InTheMiddle /\ BehindGate /\ OpenBreakerFailsAll
  BY DEF Init, G!Init, InTheMiddle, NothingLeft, BehindGate, OpenBreakerFailsAll
<1>3. ScrapeIsOfOneConfig
  <2>1. \A s \in Scrapers : pc[s] # "scraping" /\ samples[s] = <<>> /\ healthy[s] = TRUE
    BY DEF Init
  <2>2. \A k \in 1 .. Len(<<>>) : FALSE
    OBVIOUS
  <2>3. QED
    BY <2>1, <2>2, Zenon DEF ScrapeIsOfOneConfig
<1>4. QED
  BY <1>1, <1>2, <1>3 DEF IInv

(* Every step preserves the invariant.                                     *)
LEMMA NextIInv == IInv /\ [Next]_vars => IInv'
BY QuietStep, CheckStep, ExportStep, FinishStep, ReplaceStep, ResetStep DEF Next, Scrape

(* The inductive invariant holds of every reachable state.                 *)
THEOREM Inductive == Spec => []IInv
BY InitIInv, NextIInv, PTL DEF Spec

(* The variables keep their types: in particular nobody is in              *)
(* CheckMountPoint without the read lock.                                  *)
THEOREM TypeCorrect == Spec => []TypeOK
<1>1. IInv => TypeOK
  BY DEF IInv
<1>2. QED
  BY <1>1, Inductive, PTL

(* For any number of scrapes and updates, a scrape is of one configuration *)
(* and one wrapper, and up tells whether it had an error.                  *)
THEOREM OneConfigPerScrape == Spec => []ScrapeIsOfOneConfig
<1>1. IInv => ScrapeIsOfOneConfig
  BY DEF IInv
<1>2. QED
  BY <1>1, Inductive, PTL

(* A scrape that begins when the breaker is open and nobody is past IsOpen *)
(* reports nothing but errors, unless the breaker is reset or replaced.    *)
THEOREM OpenBreakerFails == Spec => []OpenBreakerFailsAll
<1>1. IInv => OpenBreakerFailsAll
  BY DEF IInv
<1>2. QED
  BY <1>1, Inductive, PTL

-----------------------------------------------------------------------------
(* Nobody starves: the safety part of BothReturn.                          *)

Scraping == {s \in Scrapers : pc[s] = "scraping"}

\* A scrape waits for a writer, and the writer for the scrapes that go on.
LockInv ==
    /\ \A s \in Scrapers : pc[s] = "blocked" => writer # None
    /\ \A u \in Updaters : update[u] = "draining" <=> writer = u

StepsTaken(step) ==
    CASE step = "idle" -> 0
      [] step = "asking" -> 1
      [] step = "inside" -> 2
      [] OTHER -> 3

\* The steps a scrape may still take: four for each mount point, and the end.
ToFinish(s) == 4 * (Len(Current) - Len(samples[s])) + 1 - StepsTaken(phase[s])

(* Every step keeps who waits for whom.                                    *)
LEMMA NextLock == TypeOK /\ LockInv /\ [Next]_vars => LockInv'
<1> SUFFICES ASSUME TypeOK, LockInv, [Next]_vars PROVE LockInv'
  OBVIOUS
<1> USE CollectorAssumption DEF CollectorAssumption, TypeOK, LockInv
<1>1. ASSUME NEW s \in Scrapers, Collect(s) \/ Finish(s) PROVE LockInv'
  BY <1>1 DEF Collect, Finish, MayRead
<1>2. ASSUME NEW u \in Updaters, UpdateConfig(u) \/ Announce(u) PROVE LockInv'
  BY <1>2 DEF UpdateConfig, Announce
<1>3. ASSUME NEW u \in Updaters, Replace(u) PROVE LockInv'
  BY <1>3 DEF Replace
<1>4. CASE UNCHANGED lockVars
  BY <1>4 DEF lockVars
<1>5. QED
  BY <1>1, <1>2, <1>3, <1>4
  DEF Next, Scrape, Check, Export, GetFindmntWrapper, ResetCircuitBreaker, vars

(* For any number of scrapes and updates: a scrape only waits for an update*)
(* that has announced itself, that update only for scrapes that had begun, *)
(* and no scrape joins them while it waits.                                *)
THEOREM UpdatesAreNotOvertaken ==
    Spec => []LockInv /\ [][writer # None /\ writer' # None => Scraping' \subseteq Scraping]_vars
<1>1. Init => LockInv
  BY CollectorAssumption DEF CollectorAssumption, Init, LockInv
<1>2. TypeOK /\ [Next]_vars =>
        [writer # None /\ writer' # None => Scraping' \subseteq Scraping]_vars
  <2> SUFFICES ASSUME TypeOK, Next, writer # None, writer' # None, NEW s \in Scrapers,
                      pc'[s] = "scraping"
               PROVE  pc[s] = "scraping"
    BY DEF Scraping
  <2>1. ASSUME NEW t \in Scrapers, Collect(t) \/ Finish(t) PROVE pc[s] = "scraping"
    BY <2>1 DEF Collect, Finish, MayRead, TypeOK
  <2>2. CASE UNCHANGED pc
    BY <2>2
  <2>3. QED
    BY <2>1, <2>2
    DEF Next, Scrape, Check, Export, UpdateConfig, Announce, Replace, GetFindmntWrapper,
        ResetCircuitBreaker, lockVars
<1>3. QED
  BY <1>1, <1>2, NextLock, TypeCorrect, PTL DEF Spec

(* A step of a scrape takes it nearer to its end.                          *)
LEMMA ScrapeStep ==
    ASSUME IInv, NEW s \in Scrapers, Scrape(s)
    PROVE  pc'[s] = "idle" \/ (ToFinish(s)' < ToFinish(s) /\ pc'[s] = pc[s])
<1> USE DEF StepsTaken
<1>0. /\ Len(Current) \in Nat /\ Len(samples[s]) \in Nat
      /\ phase \in [Scrapers -> G!Phase]
      /\ samples \in [Scrapers -> Seq(Sample)]
  BY CurrentType DEF IInv, TypeOK, G!TypeOK
<1>1. CASE Check(s)
  <2>1. UNCHANGED <<config, samples, pc>>
    BY <1>1 DEF Check, lockVars, scrapeVars
  <2>2. \/ phase[s] = "idle" /\ phase'[s] = "asking"
        \/ phase[s] = "asking" /\ phase'[s] \in {"inside", "refused"}
        \/ phase[s] = "inside" /\ phase'[s] \in {"refused", "served"}
    BY <1>0, <1>1 DEF Check, G!Ask, G!Enter, G!TurnAway, G!Leave, G!Move
  <2>3. Current' = Current
    BY <2>1 DEF Current
  <2>4. /\ StepsTaken(phase[s]) \in Nat /\ StepsTaken(phase'[s]) \in Nat
        /\ StepsTaken(phase'[s]) > StepsTaken(phase[s])
    BY <2>2
  <2> HIDE DEF StepsTaken
  <2>5. QED
    BY <1>0, <2>1, <2>3, <2>4 DEF ToFinish
<1>2. CASE Export(s)
  <2>1. Current' = Current /\ pc' = pc
    BY <1>2 DEF Export, Current, lockVars
  <2>2. PICK e \in Sample : samples' = [samples EXCEPT ![s] = Append(@, e)]
    <3>1. PICK status \in Answers(s) :
            samples' = [samples EXCEPT ![s] = Append(@,
                [config |-> config, wrapper |-> generation,
                 mount |-> Current[Len(@) + 1], status |-> status])]
      BY <1>2 DEF Export
    <3>2. status \in Status
      BY DEF Answers, Status
    <3>3. Current[Len(samples[s]) + 1] \in Mounts
      BY <1>0, <1>2, CurrentType DEF Export, More, IInv
    <3>4. QED
      BY <3>1, <3>2, <3>3 DEF Sample, IInv, TypeOK
  <2>3. Len(samples'[s]) = Len(samples[s]) + 1
    BY <1>0, <2>2, Appended
  <2>4. phase'[s] = "idle" /\ phase[s] \in {"refused", "served"}
    BY <1>0, <1>2 DEF Export, G!Answer, G!Move
  <2>5. QED
    BY <1>0, <2>1, <2>3, <2>4 DEF ToFinish
<1>3. CASE Finish(s)
  BY <1>3 DEF Finish, IInv, TypeOK
<1>4. QED
  BY <1>1, <1>2, <1>3 DEF Scrape

(* Nothing else lengthens a scrape: it keeps its configuration.            *)
LEMMA OthersKeepScrape ==
    ASSUME IInv, NEW s \in Scrapers, pc[s] = "scraping", [Next]_vars, ~Scrape(s)
    PROVE  ToFinish(s)' = ToFinish(s) /\ pc'[s] = pc[s]
<1>1. UNCHANGED <<config, pc[s], samples[s], phase[s]>>
  <2> USE DEF IInv, TypeOK, G!TypeOK
  <2>1. ASSUME NEW t \in Scrapers, Collect(t) \/ Finish(t)
        PROVE  UNCHANGED <<config, pc[s], samples[s], phase[s]>>
    <3>1. t # s
      BY <2>1 DEF Collect, Scrape
    <3>2. QED
      BY <2>1, <3>1 DEF Collect, Finish
  <2>2. ASSUME NEW t \in Scrapers, Check(t) \/ Export(t)
        PROVE  UNCHANGED <<config, pc[s], samples[s], phase[s]>>
    <3>1. t # s
      BY <2>2 DEF Scrape
    <3>2. QED
      BY <2>2, <3>1
      DEF Check, Export, G!Ask, G!Enter, G!TurnAway, G!Leave, G!Answer, G!Move,
          lockVars, scrapeVars
  <2>3. ASSUME NEW u \in Updaters, Replace(u) PROVE FALSE
    BY <2>3 DEF Replace, Drained
  <2>4. CASE UNCHANGED <<config, pc, samples, phase>>
    BY <2>4
  <2>5. QED
    BY <2>1, <2>2, <2>3, <2>4
    DEF Next, Scrape, UpdateConfig, Announce, GetFindmntWrapper, ResetCircuitBreaker,
        G!Raise, lockVars, scrapeVars, vars
<1>2. QED
  BY <1>1 DEF ToFinish, Current

(* Whatever is replaced and reset beside it, a scrape that has the read    *)
(* lock can take finitely many steps, which only its own steps use up.     *)
THEOREM ScrapesRunOut ==
    Spec =>
        /\ [](\A s \in Scrapers : pc[s] = "scraping" => ToFinish(s) \in Nat \ {0})
        /\ [][\A s \in Scrapers :
                 pc[s] = "scraping" =>
                    \/ Scrape(s) /\ (pc'[s] = "idle" \/ ToFinish(s)' < ToFinish(s))
                    \/ ToFinish(s)' = ToFinish(s) /\ pc'[s] = pc[s]]_vars
<1>1. IInv => \A s \in Scrapers : pc[s] = "scraping" => ToFinish(s) \in Nat \ {0}
  <2> SUFFICES ASSUME IInv, NEW s \in Scrapers, pc[s] = "scraping"
               PROVE  ToFinish(s) \in Nat \ {0}
    OBVIOUS
  <2>1. /\ Len(Current) \in Nat /\ Len(samples[s]) \in Nat
        /\ Len(samples[s]) <= Len(Current)
    BY CurrentType DEF IInv, TypeOK, ScrapeIsOfOneConfig
  <2>2. /\ StepsTaken(phase[s]) \in 0 .. 3
        /\ phase[s] = "idle" => StepsTaken(phase[s]) = 0
    BY DEF StepsTaken
  <2>3. phase[s] # "idle" => Len(samples[s]) < Len(Current)
    BY DEF IInv, InTheMiddle, More
  <2>4. QED
    BY <2>1, <2>2, <2>3 DEF ToFinish
<1>2. IInv /\ [Next]_vars =>
        [\A s \in Scrapers :
            pc[s] = "scraping" =>
               \/ Scrape(s) /\ (pc'[s] = "idle" \/ ToFinish(s)' < ToFinish(s))
               \/ ToFinish(s)' = ToFinish(s) /\ pc'[s] = pc[s]]_vars
  BY ScrapeStep, OthersKeepScrape
<1>3. QED
  BY <1>1, <1>2, Inductive, PTL DEF Spec
=============================================================================
