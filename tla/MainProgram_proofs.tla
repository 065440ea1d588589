--------------------------- MODULE MainProgram_proofs ---------------------------
(***************************************************************************)
(* What holds of panic recovery for any goroutines and any length of the   *)
(* stack that runtime.Stack writes: no panic is absorbed, and no call of   *)
(* Recover is lost from the statistics, since the goroutine that counts    *)
(* has read the present count.                                             *)
(*                                                                         *)
(* And what holds of the main program, which uses the panic handler as     *)
(* PanicHandler says: what it serves is what the layers of any command     *)
(* line, environment and file come to, and its exit status tells how it    *)
(* ended.                                                                  *)
(***************************************************************************)
EXTENDS MainProgram, SequenceTheorems, TLAPS

ReadIsPresent == \A g \in Goroutines : pc[g] = "count" => read[g] = recovered

IInv == TypeOK /\ EveryRecoverCounted /\ ReadIsPresent

-----------------------------------------------------------------------------
(* No window of nine bytes is the literal of ten, so the loop runs past    *)
(* the end of the stack whatever its length.                               *)
LEMMA NeverFound == \A n : ~IdFound(n)
BY DEF IdFound, Matches, Window, Literal

LEMMA Pushed ==
    ASSUME NEW S, NEW q \in Seq(S), NEW e \in S
    PROVE  Append(q, e) \in Seq(S) /\ Append(q, e) # <<>>
<1>1. Append(q, e) \in Seq(S) /\ Len(Append(q, e)) = Len(q) + 1 /\ Len(q) \in Nat
  OBVIOUS
<1>2. Len(<<>>) = 0
  OBVIOUS
<1>3. QED
  BY <1>1, <1>2

LEMMA Popped ==
    ASSUME NEW S, NEW q \in Seq(S), q # <<>>
    PROVE  SubSeq(q, 1, Len(q) - 1) \in Seq(S)
OBVIOUS

(* The stack of a goroutine that runs may be pushed or popped.             *)
LEMMA StackTypes ==
    ASSUME TypeOK, NEW g \in Goroutines
    PROVE  /\ \A frame \in Frame :
                 [stack EXCEPT ![g] = Append(@, frame)] \in [Goroutines -> Seq(Frame)]
           /\ stack[g] # <<>> /\ Pop(g) => stack' \in [Goroutines -> Seq(Frame)]
<1>1. stack \in [Goroutines -> Seq(Frame)] /\ stack[g] \in Seq(Frame)
  BY DEF TypeOK
<1>2. \A frame \in Frame : Append(stack[g], frame) \in Seq(Frame)
  BY <1>1, Pushed
<1>3. stack[g] # <<>> => SubSeq(stack[g], 1, Len(stack[g]) - 1) \in Seq(Frame)
  BY <1>1, Popped
<1>4. QED
  BY <1>1, <1>2, <1>3 DEF Pop

-----------------------------------------------------------------------------
(* Steps of a goroutine. *)

LEMMA PushStep ==
    ASSUME IInv, NEW g \in Goroutines, Call(g) \/ DeferRecover(g)
    PROVE  IInv'
<1>1. PICK frame \in Frame : Push(g, frame)
  BY DEF Call, DeferRecover, Frame
<1>2. stack' \in [Goroutines -> Seq(Frame)] /\ stack'[g] # <<>>
  BY <1>1, StackTypes, Pushed DEF IInv, TypeOK, Push
<1>3. \A h \in Goroutines : h # g => stack'[h] = stack[h]
  BY <1>1 DEF Push, IInv, TypeOK
<1>4. QED
  BY <1>1, <1>2, <1>3
  DEF Push, IInv, TypeOK, EveryRecoverCounted, ReadIsPresent, statVars, sliceVars

LEMMA UnwindStep ==
    ASSUME IInv, NEW g \in Goroutines,
           Return(g) \/ Unwind(g) \/ CallHandlers(g) \/ LookAtFlag(g)
    PROVE  IInv'
<1> USE DEF IInv
<1>1. /\ pc[g] \in {"running", "handlers", "recover"} /\ stack[g] # <<>>
      /\ UNCHANGED <<enabled, statVars, sliceVars, mutex, crashed>>
      /\ panicking' \subseteq Goroutines
      /\ pc' = pc \/ \E to \in {"running", "lock"} : pc' = [pc EXCEPT ![g] = to]
      /\ \/ stack' = stack
         \/ Pop(g) /\ pc'[g] = "running"
  BY NeverFound DEF Return, Unwind, CallHandlers, LookAtFlag, Runs, TypeOK, Pop
<1>2. stack' \in [Goroutines -> Seq(Frame)]
  BY <1>1, StackTypes DEF TypeOK
<1>3. \A h \in Goroutines : h # g => stack'[h] = stack[h] /\ pc'[h] = pc[h]
  BY <1>1 DEF Pop, TypeOK
<1>4. pc' \in [Goroutines -> {"running", "recover", "lock", "count", "handlers"}]
  BY <1>1 DEF TypeOK
<1>5. pc'[g] # "count" /\ pc[g] # "count"
  BY <1>1 DEF TypeOK
<1>6. TypeOK'
  BY <1>1, <1>2, <1>3, <1>4, <1>5 DEF TypeOK, statVars, sliceVars
<1>7. QED
  BY <1>1, <1>3, <1>5, <1>6 DEF EveryRecoverCounted, ReadIsPresent, statVars

LEMMA PanicStep ==
    ASSUME IInv, NEW g \in Goroutines, Panic(g) \/ Crash(g) \/ RunDeferred(g)
    PROVE  IInv'
BY DEF IInv, Panic, Crash, RunDeferred, Runs, TypeOK, EveryRecoverCounted, ReadIsPresent,
       statVars, sliceVars

(* Only the holder of the lock counts, and it has read the present count.  *)
LEMMA CountStep ==
    ASSUME IInv, NEW g \in Goroutines, Lock(g) \/ Count(g)
    PROVE  IInv'
<1> USE PanicAssumption DEF PanicAssumption, IInv
<1>1. CASE Lock(g)
  BY <1>1 DEF Lock, Free, TypeOK, EveryRecoverCounted, ReadIsPresent, sliceVars
<1>2. CASE Count(g)
  <2>1. TypeOK'
    BY <1>2 DEF Count, Unlock, TypeOK, sliceVars
  <2>2. recovered' = counted'
    BY <1>2 DEF Count, EveryRecoverCounted, ReadIsPresent
  <2>3. QED
    BY <1>2, <2>1, <2>2 DEF Count, Unlock, TypeOK, EveryRecoverCounted, ReadIsPresent
<1>3. QED
  BY <1>1, <1>2

-----------------------------------------------------------------------------
(* The other methods. *)

LEMMA SetterStep ==
    ASSUME IInv,
           SetEnabled \/ ResetStats \/ AddHandler \/ RemoveHandlers \/ StoreWord \/ HandlersSet
    PROVE  IInv'
<1> USE PanicAssumption DEF PanicAssumption, IInv
<1>1. CASE SetEnabled \/ ResetStats
  <2>1. enabled' \in BOOLEAN
    <3>1. CASE SetEnabled
      BY <3>1, Zenon DEF SetEnabled
    <3>2. CASE ResetStats
      BY <3>2, Zenon DEF ResetStats, TypeOK
    <3>3. QED
      BY <1>1, <3>1, <3>2
  <2>2. QED
    BY <1>1, <2>1 DEF SetEnabled, ResetStats, TypeOK, EveryRecoverCounted, ReadIsPresent,
                      statVars, sliceVars
<1>2. CASE AddHandler \/ RemoveHandlers
  <2>1. PICK slice \in Slice : SetHandlers(slice)
    <3>1. CASE AddHandler
      BY <3>1 DEF AddHandler, TypeOK, Slice
    <3>2. CASE RemoveHandlers
      BY <3>2 DEF RemoveHandlers, Slice
    <3>3. QED
      BY <1>2, <3>1, <3>2
  <2>2. QED
    BY <2>1 DEF SetHandlers, TypeOK, EveryRecoverCounted, ReadIsPresent, statVars
<1>3. CASE StoreWord
  <2>1. handlers' \in Slice
    BY <1>3 DEF StoreWord, TypeOK, Slice
  <2>2. QED
    BY <1>3, <2>1 DEF StoreWord, TypeOK, EveryRecoverCounted, ReadIsPresent, statVars
<1>4. CASE HandlersSet
  BY <1>4 DEF HandlersSet, Unlock, TypeOK, EveryRecoverCounted, ReadIsPresent,
              statVars, sliceVars
<1>5. QED
  BY <1>1, <1>2, <1>3, <1>4

LEMMA InitIInv == Init => IInv
<1> SUFFICES ASSUME Init PROVE IInv
  OBVIOUS
<1> USE PanicAssumption DEF PanicAssumption, Init
<1>1. handlers \in Slice /\ store \in Slice
  BY DEF Slice
<1>2. <<>> \in Seq(Frame)
  OBVIOUS
<1>3. /\ stack \in [Goroutines -> Seq(Frame)] /\ read \in [Goroutines -> Nat]
      /\ pc \in [Goroutines -> {"running", "recover", "lock", "count", "handlers"}]
      /\ panicking \subseteq Goroutines
  BY <1>2
<1>4. enabled \in BOOLEAN /\ crashed \in BOOLEAN
  BY Zenon
<1>5. TypeOK
  BY <1>1, <1>3, <1>4 DEF TypeOK
<1>6. QED
  BY <1>5 DEF IInv, EveryRecoverCounted, ReadIsPresent

(* Every step preserves the invariant. *)
LEMMA NextIInv == IInv /\ [Next]_vars => IInv'
<1> SUFFICES ASSUME IInv, [Next]_vars PROVE IInv'
  OBVIOUS
<1>1. CASE UNCHANGED vars
  BY <1>1 DEF vars, statVars, sliceVars, IInv, TypeOK, EveryRecoverCounted, ReadIsPresent
<1>2. QED
  BY <1>1, PushStep, UnwindStep, PanicStep, CountStep, SetterStep DEF Next, Recover

-----------------------------------------------------------------------------
(* The inductive invariant holds of every reachable state. *)
THEOREM Inductive == Spec => []IInv
BY InitIInv, NextIInv, PTL DEF Spec

(* The variables keep their types, and the holder of the lock is the       *)
(* goroutine that counts.                                                  *)
THEOREM TypeCorrect == Spec => []TypeOK
<1>1. IInv => TypeOK
  BY DEF IInv
<1>2. QED
  BY <1>1, Inductive, PTL

(* For any number of goroutines the statistics have every Recover that     *)
(* found the flag set.                                                     *)
THEOREM NoRecoverLost == Spec => []EveryRecoverCounted
<1>1. IInv => EveryRecoverCounted
  BY DEF IInv
<1>2. QED
  BY <1>1, Inductive, PTL

(* For any length of the stack and any nesting, no panic is absorbed.      *)
THEOREM NoPanicAbsorbed == Spec => NothingAbsorbed
<1>1. [Next]_vars => [\A g \in panicking : g \in panicking']_vars
  <2> SUFFICES ASSUME Next, NEW g \in panicking PROVE g \in panicking'
    OBVIOUS
  <2>1. ASSUME NEW h \in Goroutines, Unwind(h) PROVE g \in panicking'
    BY <2>1, NeverFound DEF Unwind
  <2>2. CASE SetEnabled \/ ResetStats \/ AddHandler \/ RemoveHandlers \/ StoreWord \/ HandlersSet
    BY <2>2 DEF SetEnabled, ResetStats, AddHandler, RemoveHandlers, SetHandlers,
                StoreWord, HandlersSet
  <2>3. ASSUME NEW h \in Goroutines,
               \/ Call(h) \/ DeferRecover(h) \/ Return(h) \/ Panic(h)
               \/ RunDeferred(h) \/ Crash(h) \/ Recover(h)
        PROVE  g \in panicking'
    BY <2>3 DEF Call, DeferRecover, Push, Return, Panic, RunDeferred, Crash, Recover,
                LookAtFlag, Lock, Count, CallHandlers
  <2>4. QED
    BY <2>1, <2>2, <2>3 DEF Next
<1>2. QED
  BY <1>1, PTL DEF Spec, NothingAbsorbed

-----------------------------------------------------------------------------
(* A panic ends the process: the safety part of PanicEndsProcess.          *)

StepsTaken(label) ==
    CASE label = "recover" -> 1
      [] label = "lock" -> 2
      [] label = "count" -> 3
      [] label = "handlers" -> 4
      [] OTHER -> 0

\* The steps from the panic of a goroutine to the end of its stack: five for a
\* function that defers Recover.
ToCrash(g) == 5 * Len(stack[g]) - StepsTaken(pc[g])

LEMMA PoppedLen ==
    ASSUME NEW S, NEW q \in Seq(S), q # <<>>
    PROVE  /\ Len(q) \in Nat \ {0}
           /\ Len(SubSeq(q, 1, Len(q) - 1)) = Len(q) - 1
<1>1. Len(q) \in Nat \ {0} /\ \A k \in 1 .. Len(q) - 1 : q[k] \in S
  OBVIOUS
<1> DEFINE n == Len(q) - 1
           popped == Len(SubSeq(q, 1, n))
<1>2. n \in Nat
  BY <1>1
<1>3. popped = IF 1 <= n THEN n - 1 + 1 ELSE 0
  BY <1>1, <1>2, SubSeqProperties
<1>4. popped = n
  <2> HIDE DEF n, popped
  <2>1. QED
    BY <1>2, <1>3
<1>5. QED
  BY <1>1, <1>4

(* A function on the stack of a panic is there until its steps are done.   *)
LEMMA ToCrashType == ASSUME TypeOK, NEW g \in Goroutines PROVE ToCrash(g) \in Nat
<1>1. stack[g] \in Seq(Frame) /\ Len(stack[g]) \in Nat
  BY DEF TypeOK
<1>2. stack[g] # <<>> => Len(stack[g]) # 0
  BY <1>1, PoppedLen
<1>3. StepsTaken(pc[g]) \in 0 .. 4 /\ (pc[g] = "running" => StepsTaken(pc[g]) = 0)
  BY DEF StepsTaken
<1>4. pc[g] # "running" => stack[g] # <<>>
  BY DEF TypeOK
<1>5. QED
  BY <1>1, <1>2, <1>3, <1>4 DEF ToCrash

(* A step of a panicking goroutine takes it nearer to the end of its stack:*)
(* no guard stops it, and no Recover keeps it.                             *)
LEMMA PanicUnwinds ==
    ASSUME TypeOK, NEW g \in Goroutines, Unwind(g) \/ RunDeferred(g) \/ Recover(g)
    PROVE  ToCrash(g)' < ToCrash(g)
<1> USE DEF StepsTaken
<1>0. /\ stack \in [Goroutines -> Seq(Frame)] /\ stack[g] # <<>>
      /\ pc \in [Goroutines -> {"running", "recover", "lock", "count", "handlers"}]
  BY DEF TypeOK, Unwind, RunDeferred, Recover, LookAtFlag, Lock, Count, CallHandlers
<1>1. /\ Len(stack[g]) \in Nat \ {0}
      /\ Pop(g) => Len(stack'[g]) = Len(stack[g]) - 1
  BY <1>0, PoppedLen DEF Pop
<1>2. CASE Unwind(g)
  <2>1. Pop(g) /\ UNCHANGED pc /\ pc[g] = "running"
    BY <1>2, NeverFound DEF Unwind, Runs
  <2>2. QED
    BY <1>1, <2>1 DEF ToCrash
<1>3. CASE RunDeferred(g) \/ Lock(g) \/ Count(g)
  <2>1. /\ stack' = stack
        /\ \/ pc[g] = "running" /\ pc'[g] = "recover"
           \/ pc[g] = "lock" /\ pc'[g] = "count"
           \/ pc[g] = "count" /\ pc'[g] = "handlers"
    BY <1>0, <1>3 DEF RunDeferred, Runs, Lock, Count
  <2>2. /\ StepsTaken(pc'[g]) > StepsTaken(pc[g])
        /\ StepsTaken(pc'[g]) \in Nat /\ StepsTaken(pc[g]) \in Nat
    BY <2>1
  <2> HIDE DEF StepsTaken
  <2>3. QED
    BY <1>1, <2>1, <2>2 DEF ToCrash
<1>4. CASE LookAtFlag(g) \/ CallHandlers(g)
  <2>1. \/ pc[g] = "recover" /\ pc'[g] = "lock" /\ stack' = stack
        \/ pc[g] \in {"recover", "handlers"} /\ pc'[g] = "running" /\ Pop(g)
    BY <1>0, <1>4 DEF LookAtFlag, CallHandlers
  <2>2. CASE pc[g] = "recover" /\ pc'[g] = "lock" /\ stack' = stack
    BY <1>1, <2>2 DEF ToCrash
  <2>3. CASE pc[g] \in {"recover", "handlers"} /\ pc'[g] = "running" /\ Pop(g)
    <3>1. StepsTaken(pc[g]) \in {1, 4} /\ StepsTaken(pc'[g]) = 0
      BY <2>3
    <3>2. Len(stack'[g]) = Len(stack[g]) - 1
      BY <1>1, <2>3
    <3> HIDE DEF StepsTaken
    <3>3. QED
      BY <1>1, <3>1, <3>2 DEF ToCrash
  <2>4. QED
    BY <2>1, <2>2, <2>3
<1>5. QED
  BY <1>2, <1>3, <1>4 DEF Recover

(* The other goroutines and the other methods do not add to its stack.     *)
LEMMA OthersKeepPanic ==
    ASSUME TypeOK, NEW g \in panicking, [Next]_vars,
           ~(Unwind(g) \/ RunDeferred(g) \/ Recover(g))
    PROVE  ToCrash(g)' = ToCrash(g)
<1>1. stack'[g] = stack[g] /\ pc'[g] = pc[g]
  <2> USE DEF TypeOK
  <2>1. ASSUME NEW h \in Goroutines, Call(h) \/ DeferRecover(h) \/ Return(h) \/ Panic(h)
        PROVE  stack'[g] = stack[g] /\ pc'[g] = pc[g]
    BY <2>1 DEF Call, DeferRecover, Push, Return, Panic, Pop
  <2>2. ASSUME NEW h \in Goroutines,
               Unwind(h) \/ RunDeferred(h) \/ Crash(h) \/ Recover(h)
        PROVE  stack'[g] = stack[g] /\ pc'[g] = pc[g]
    BY <2>2 DEF Unwind, RunDeferred, Crash, Recover, LookAtFlag, Lock, Count, CallHandlers, Pop
  <2>3. CASE UNCHANGED <<stack, pc>>
    BY <2>3
  <2>4. QED
    BY <2>1, <2>2, <2>3
    DEF Next, SetEnabled, ResetStats, AddHandler, RemoveHandlers, SetHandlers, StoreWord,
        HandlersSet, vars
<1>2. QED
  BY <1>1 DEF ToCrash

(* For any stack and any number of goroutines, a panic has finitely many   *)
(* steps to the end of the stack, which only its own goroutine takes and   *)
(* nobody adds to; and the lock that Recover waits for on the way is held  *)
(* by one that is counting or storing the handlers, and never waits.       *)
THEOREM PanicsRunOut ==
    Spec =>
        /\ [](/\ mutex \in Goroutines => pc[mutex] = "count"
              /\ \A g \in Goroutines : ToCrash(g) \in Nat)
        /\ [][\A g \in panicking :
                 \/ /\ Unwind(g) \/ RunDeferred(g) \/ Recover(g)
                    /\ ToCrash(g)' < ToCrash(g)
                 \/ ToCrash(g)' = ToCrash(g)]_vars
<1>1. TypeOK => /\ mutex \in Goroutines => pc[mutex] = "count"
                /\ \A g \in Goroutines : ToCrash(g) \in Nat
  BY ToCrashType DEF TypeOK
<1>2. TypeOK /\ [Next]_vars =>
        [\A g \in panicking :
            \/ /\ Unwind(g) \/ RunDeferred(g) \/ Recover(g)
               /\ ToCrash(g)' < ToCrash(g)
            \/ ToCrash(g)' = ToCrash(g)]_vars
  BY PanicUnwinds, OthersKeepPanic DEF TypeOK
<1>3. QED
  BY <1>1, <1>2, TypeCorrect, PTL DEF Spec

-----------------------------------------------------------------------------
(* The main program. *)

\* No path of applyEnvOverrides is left that ends in an error.
Ungarbled == \A f \in Fields : env[f] # "garbled"

\* LoadFromFile has merged every layer.
Merged == Ungarbled /\ \A f \in Fields : config[f] = Documented(f)

\* LoadFromFile has returned the defaults.
Skipped == file = Nothing /\ config["mount_points"] = Default["mount_points"]

Accepted == Merged /\ ~Rejected

Condemned == \E f \in Fields : Documented(f).kind \in {"invalid", "garbled"}

Taken == Documented("path").kind = "taken"

Early == {"begin", "guard", "parse flags", "read file", "return"}

Loading == {"parse flags", "read file", "apply env", "override level", "validate"}

Started == {"start", "set up routes", "listen", "wait"}

InputTypes ==
    /\ flags \in [ask : {"run", "help", "usage", "nonsense"}, named : BOOLEAN,
                  level : {"unset", "valid", "invalid"}]
    /\ env \in Layers(EnvKinds)
    /\ file \in Layers(FileKinds)
    /\ main \in Early \cup Loading \cup Started \cup {"fail", "unwind", "exited"}

\* Which layers are in the configuration.
LayersInv ==
    /\ main \in Early => config = Default /\ file = Nothing
    /\ main = "apply env" => config = Overlaid(Default, file, "file")
    /\ main = "override level" =>
          \/ Ungarbled /\ config = Overlaid(Overlaid(Default, file, "file"), env, "env")
          \/ config = Default /\ file = Nothing
    /\ main = "validate" => Merged \/ Skipped
    /\ main \in Started => Accepted
    /\ main \in {"listen", "wait"} \/ listener # "none" => Accepted /\ ~Taken
    /\ main = "fail" => trouble # "none" \/ Condemned

\* What has been decided.
WayInv ==
    /\ main = "return" => flags.ask = "help"
    /\ main \in (Loading \ {"parse flags"}) \cup Started \cup {"fail"} => flags.ask = "run"
    /\ main # "exited" => exit = None /\ (listener # "none" <=> main = "wait")
    /\ main \notin {"fail", "exited"} => trouble = "none"
    /\ main = "fail" => trouble # "shutdown"

\* The stacks of main: the deferred Recover, the guard of runApplication, and
\* that of Start.
Deferred == Append(<<>>, "record")
InMain == Append(Deferred, "guard")
InStart == Append(InMain, "guard")

StackInv ==
    /\ enabled /\ handlers = [array |-> 2, len |-> 2]
    /\ main = "begin" => stack[Main] = <<>>
    /\ main = "guard" => stack[Main] = Deferred
    /\ main \in Loading \cup {"start", "wait", "fail", "return"} =>
          stack[Main] = InMain
    /\ main \in {"set up routes", "listen"} => stack[Main] = InStart
    /\ main \notin {"unwind", "exited"} =>
          recovered = 0 /\ panicking = {} /\ pc[Main] = "running"

\* A return and a panic both come to the deferred Recover, and it counts once.
UnwindInv ==
    main = "unwind" =>
        /\ stack[Main] \in {<<>>, Deferred, InMain, InStart}
        /\ pc[Main] # "running" => stack[Main] = Deferred
        /\ recovered = IF stack[Main] = <<>> \/ pc[Main] = "handlers" THEN 1 ELSE 0
        /\ \/ flags.ask = "help" /\ panicking = {}
           \/ flags.ask = "run" /\ panicking = {Main} /\ Accepted /\ Taken

\* ExitExplained in these words.
Verdict ==
    exit # None =>
        /\ exit = IF flags.ask = "nonsense" THEN 2
                  ELSE IF flags.ask \in {"help", "usage"} THEN 0
                  ELSE IF trouble # "none" \/ Condemned THEN 1
                  ELSE IF Taken THEN 2 ELSE 0
        /\ recovered = 1 <=> Panicked \/ flags.ask = "help"
        /\ listener # "none" <=> flags.ask = "run" /\ (exit = 0 \/ trouble = "shutdown")

MainInv ==
    /\ IInv
    /\ InputTypes /\ LayersInv /\ WayInv /\ StackInv /\ UnwindInv
    /\ Verdict

-----------------------------------------------------------------------------
(* The main program uses the panic handler as PanicHandler says.           *)

LEMMA StepPanicHandler == [MainNext]_mainVars => [Next]_vars
<1> SUFFICES ASSUME [MainNext]_mainVars PROVE [Next]_vars
  OBVIOUS
<1> USE MainAssumption DEF MainAssumption
<1>1. CASE DeferGlobalRecover \/ EnterGuard
  BY <1>1 DEF DeferGlobalRecover, EnterGuard, Next
<1>2. CASE RoutesPanic \/ Listen \/ ListenFails \/ Fail \/ ReturnNil
  BY <1>2 DEF RoutesPanic, Listen, ListenFails, Fail, ReturnNil, Next
<1>3. CASE UnwindMain \/ Leave
  BY <1>3 DEF UnwindMain, Leave, Next, panicVars
<1>4. CASE UNCHANGED panicVars
  BY <1>4 DEF panicVars
<1>5. QED
  BY <1>1, <1>2, <1>3, <1>4
  DEF MainNext, mainVars, RejectFlags, ShowHelp, FindConfigFile, FileMissing, FileUnusable,
      ReadFile, ApplyEnvOverrides, OverrideLevel, Validate, SetupRoutes, ShutDown

(* So every safety property of the panic handler holds inside the program. *)
THEOREM ImplementsPanicHandler == MainSpec => Spec
<1>1. MainInit => Init
  BY DEF MainInit
<1>2. QED
  BY <1>1, StepPanicHandler, PTL DEF MainSpec, Spec

-----------------------------------------------------------------------------
(* The layers. *)

(* The layer with the highest priority that sets a field. *)
LEMMA DocumentedIs ==
    ASSUME NEW f \in Fields
    PROVE  Documented(f) =
             IF f = "level" /\ flags.level # "unset"
             THEN [from |-> "flag", kind |-> flags.level]
             ELSE IF env[f] # "unset" THEN [from |-> "env", kind |-> env[f]]
             ELSE IF file[f] # "unset" THEN [from |-> "file", kind |-> file[f]]
             ELSE Default[f]
<1> DEFINE level == IF f = "level" THEN flags.level ELSE "unset"
           layers == << <<"file", file[f]>>, <<"env", env[f]>>, <<"flag", level>> >>
           set == {i \in DOMAIN layers : layers[i][2] # "unset"}
           top == CHOOSE i \in set : \A k \in set : k <= i
<1>1. Documented(f) = IF set = {} THEN Default[f]
                      ELSE [from |-> layers[top][1], kind |-> layers[top][2]]
  BY DEF Documented
<1>2. /\ DOMAIN layers = {1, 2, 3}
      /\ layers[1][1] = "file" /\ layers[1][2] = file[f]
      /\ layers[2][1] = "env" /\ layers[2][2] = env[f]
      /\ layers[3][1] = "flag" /\ layers[3][2] = level
  OBVIOUS
<1> HIDE DEF layers
<1>3. /\ set \subseteq {1, 2, 3}
      /\ 1 \in set <=> file[f] # "unset"
      /\ 2 \in set <=> env[f] # "unset"
      /\ 3 \in set <=> level # "unset"
  BY <1>2
<1> HIDE DEF set
<1>4. ASSUME NEW i \in set, \A k \in set : k <= i PROVE top = i
  <2>1. top \in set /\ \A k \in set : k <= top
    BY <1>4
  <2> HIDE DEF top
  <2>2. top <= i /\ i <= top /\ top \in {1, 2, 3} /\ i \in {1, 2, 3}
    BY <1>3, <1>4, <2>1
  <2>3. QED
    BY <2>2
<1> HIDE DEF top
<1>5. CASE level # "unset"
  <2>1. top = 3
    BY <1>3, <1>4, <1>5
  <2>2. QED
    BY <1>1, <1>2, <1>3, <1>5, <2>1
<1>6. CASE level = "unset" /\ env[f] # "unset"
  <2>1. top = 2
    BY <1>3, <1>4, <1>6
  <2>2. QED
    BY <1>1, <1>2, <1>3, <1>6, <2>1
<1>7. CASE level = "unset" /\ env[f] = "unset" /\ file[f] # "unset"
  <2>1. top = 1
    BY <1>3, <1>4, <1>7
  <2>2. QED
    BY <1>1, <1>2, <1>3, <1>7, <2>1
<1>8. CASE level = "unset" /\ env[f] = "unset" /\ file[f] = "unset"
  BY <1>1, <1>3, <1>8
<1>9. QED
  BY <1>5, <1>6, <1>7, <1>8

(* A layer only has what can be written in it. *)
LEMMA LayerKinds ==
    ASSUME InputTypes, NEW f \in Fields
    PROVE  /\ env[f] \in Kinds /\ file[f] \in Kinds
           /\ env[f] = "taken" \/ file[f] = "taken" => f = "path"
           /\ file[f] # "garbled"
           /\ env["mount_points"] = "unset" /\ env["level"] # "garbled"
<1>1. /\ env[f] \in EnvKinds(f) /\ file[f] \in FileKinds(f)
      /\ env[f] \in Kinds /\ file[f] \in Kinds
  BY DEF InputTypes, Layers
<1>2. env["mount_points"] \in EnvKinds("mount_points") /\ env["level"] \in EnvKinds("level")
  BY MainAssumption DEF InputTypes, Layers, MainAssumption
<1>3. QED
  BY <1>1, <1>2 DEF EnvKinds, FileKinds, Kinds

(* What a field may come to. *)
LEMMA DocumentedKinds ==
    ASSUME InputTypes, NEW f \in Fields
    PROVE  /\ Documented(f).kind \in {"valid", "invalid", "taken", "garbled"}
           /\ Documented(f).kind = "taken" => f = "path"
           /\ Documented(f).kind = "garbled" => env[f] = "garbled"
           /\ env[f] = "garbled" => Documented(f).kind = "garbled"
<1>1. flags.level \in {"unset", "valid", "invalid"}
  BY DEF InputTypes
<1>2. Default[f].kind \in {"valid", "invalid"}
  BY DEF Default
<1>3. QED
  BY <1>1, <1>2, LayerKinds, DocumentedIs DEF Kinds

(* The overlays of LoadFromFile, applyEnvOverrides and main.go:88 come to  *)
(* what is documented.                                                     *)
LEMMA OverlaysMerge ==
    ASSUME NEW f \in Fields
    PROVE  Overlaid(Overlaid(Overlaid(Default, file, "file"), env, "env"),
                    [Nothing EXCEPT !["level"] = flags.level], "flag")[f] = Documented(f)
<1>1. [Nothing EXCEPT !["level"] = flags.level][f] =
         IF f = "level" THEN flags.level ELSE "unset"
  BY DEF Nothing
<1>2. QED
  BY <1>1, DocumentedIs DEF Overlaid

(* The defaults have no mount points, whatever the command line says.      *)
LEMMA DefaultsLackMountPoints ==
    /\ Default["mount_points"].kind = "invalid"
    /\ Overlaid(Default, [Nothing EXCEPT !["level"] = flags.level], "flag")["mount_points"]
          = Default["mount_points"]
BY MainAssumption DEF MainAssumption, Default, Overlaid, Nothing

(* A configuration that is not rejected has been merged from all layers.   *)
LEMMA SkippedIsRejected ==
    ASSUME InputTypes, Skipped
    PROVE  Rejected /\ Condemned
<1>1. "mount_points" \in Fields
  BY MainAssumption DEF MainAssumption
<1>2. Default["mount_points"].kind = "invalid"
  BY DefaultsLackMountPoints
<1>3. Rejected
  BY <1>1, <1>2 DEF Rejected, Skipped
<1>4. Documented("mount_points") = Default["mount_points"]
  BY <1>1, DocumentedIs, LayerKinds DEF Skipped, Nothing
<1>5. QED
  BY <1>1, <1>2, <1>3, <1>4 DEF Condemned

LEMMA MergedVerdicts ==
    ASSUME InputTypes, Merged
    PROVE  Rejected <=> Condemned
<1>1. \A f \in Fields : config[f].kind = Documented(f).kind /\ env[f] # "garbled"
  BY DEF Merged, Ungarbled
<1>2. \A f \in Fields : Documented(f).kind # "garbled"
  BY <1>1, DocumentedKinds
<1>3. QED
  BY <1>1, <1>2 DEF Rejected, Condemned

(* What is documented depends on nothing but the layers.                   *)
LEMMA SameDocumented ==
    ASSUME UNCHANGED <<inputVars, file>>
    PROVE  \A f \in Fields : Documented(f)' = Documented(f)
BY DEF inputVars, Documented

(* The verdicts depend on nothing but the layers and the configuration.    *)
LEMMA SameVerdicts ==
    ASSUME UNCHANGED <<inputVars, file>>
    PROVE  /\ Condemned' <=> Condemned
           /\ Taken' <=> Taken
           /\ Ungarbled' <=> Ungarbled
           /\ UNCHANGED config =>
                 /\ Merged' <=> Merged
                 /\ Skipped' <=> Skipped
                 /\ Rejected' <=> Rejected
                 /\ Accepted' <=> Accepted
<1>1. \A f \in Fields : Documented(f)' = Documented(f)
  BY SameDocumented
<1>2. UNCHANGED <<flags, env, file>>
  BY DEF inputVars
<1>3. (Condemned' <=> Condemned) /\ (Ungarbled' <=> Ungarbled)
  BY <1>1, <1>2 DEF Condemned, Ungarbled
<1>4. Taken' <=> Taken
  BY <1>1, MainAssumption DEF Taken, MainAssumption
<1>5. ASSUME UNCHANGED config
      PROVE  /\ Merged' <=> Merged
             /\ Skipped' <=> Skipped
             /\ Rejected' <=> Rejected
  BY <1>1, <1>2, <1>3, <1>5 DEF Merged, Skipped, Rejected
<1>6. ASSUME UNCHANGED config PROVE Accepted' <=> Accepted
  BY <1>5, <1>6 DEF Accepted
<1>7. QED
  BY <1>3, <1>4, <1>5, <1>6

-----------------------------------------------------------------------------
(* The steps of main. *)

(* Whatever main does next, its inputs stay what they were.                *)
LEMMA InputStep == ASSUME InputTypes, [MainNext]_mainVars PROVE InputTypes'
<1>1. UNCHANGED inputVars
  BY DEF MainNext, mainVars, DeferGlobalRecover, EnterGuard, RejectFlags, ShowHelp,
         FindConfigFile, FileMissing, FileUnusable, ReadFile, ApplyEnvOverrides, OverrideLevel,
         Validate, SetupRoutes, RoutesPanic, Listen, ListenFails, ShutDown, Fail, ReturnNil,
         UnwindMain, Leave
<1>2. file' \in Layers(FileKinds)
  BY DEF MainNext, mainVars, DeferGlobalRecover, EnterGuard, RejectFlags, ShowHelp,
         FindConfigFile, FileMissing, FileUnusable, ReadFile, ApplyEnvOverrides, OverrideLevel,
         Validate, SetupRoutes, RoutesPanic, Listen, ListenFails, ShutDown, Fail, ReturnNil,
         UnwindMain, Leave, InputTypes
<1>3. main' = main \/ main' \in Early \cup Loading \cup Started \cup {"fail", "unwind", "exited"}
  BY DEF MainNext, mainVars, DeferGlobalRecover, EnterGuard, RejectFlags, ShowHelp,
         FindConfigFile, FileMissing, FileUnusable, ReadFile, ApplyEnvOverrides, OverrideLevel,
         Validate, SetupRoutes, RoutesPanic, Listen, ListenFails, ShutDown, Fail, ReturnNil,
         UnwindMain, Leave, Proceed, Early, Loading, Started
<1>4. QED
  BY <1>1, <1>2, <1>3 DEF InputTypes, inputVars

(* A step that leaves the panic handler alone stays in the same functions. *)
LEMMA QuietStack ==
    ASSUME StackInv, UNCHANGED panicVars,
           \/ main \in Loading /\ main' \in Loading \cup {"start", "fail", "return", "exited"}
           \/ main = "set up routes" /\ main' = "listen"
           \/ main = "wait" /\ main' = "exited"
    PROVE  StackInv' /\ UnwindInv'
<1>1. UNCHANGED <<enabled, recovered, handlers, stack, panicking, pc>>
  BY DEF panicVars, vars, statVars, sliceVars
<1>2. QED
  BY <1>1 DEF StackInv, UnwindInv, Loading

(* A program that runs has no exit status. *)
LEMMA NotYet == ASSUME WayInv', main' # "exited" PROVE Verdict'
BY DEF WayInv, Verdict

(* The command line. *)
LEMMA FlagsStep ==
    ASSUME MainInv, RejectFlags \/ ShowHelp
    PROVE  LayersInv' /\ WayInv' /\ StackInv' /\ UnwindInv' /\ Verdict'
<1> USE MainAssumption DEF MainAssumption, MainInv
<1>1. /\ UNCHANGED <<panicVars, inputVars, file, config, listener, trouble>>
      /\ main = "parse flags"
      /\ \/ main' = "exited" /\ flags.ask = "nonsense" /\ exit' = 2
         \/ main' = "exited" /\ flags.ask = "usage" /\ exit' = 0
         \/ main' = "return" /\ flags.ask = "help" /\ exit' = exit
  BY DEF RejectFlags, ShowHelp, Proceed, Exit
<1>2. StackInv' /\ UnwindInv'
  BY <1>1, QuietStack DEF Loading
<1>3. LayersInv'
  BY <1>1, SameVerdicts DEF LayersInv, WayInv, Early, Loading, Started
<1>4. UNCHANGED <<flags, recovered>> /\ recovered = 0 /\ listener = "none"
  BY <1>1 DEF inputVars, panicVars, vars, statVars, StackInv, WayInv
<1>5. WayInv'
  BY <1>1, <1>4 DEF WayInv, Early, Loading, Started
<1>6. CASE main' = "return"
  BY <1>2, <1>3, <1>5, <1>6, NotYet
<1>7. CASE main' = "exited"
  <2>1. /\ recovered' = 0 /\ listener' = "none"
        /\ \/ exit' = 2 /\ flags'.ask = "nonsense"
           \/ exit' = 0 /\ flags'.ask = "usage"
    BY <1>1, <1>4, <1>7
  <2>2. Verdict'
    BY <2>1 DEF Verdict, Panicked
  <2>3. QED
    BY <1>2, <1>3, <1>5, <2>2
<1>8. QED
  BY <1>1, <1>6, <1>7

(* Finding and reading the file. *)
LEMMA FileStep ==
    ASSUME MainInv,
           \/ FindConfigFile \/ FileMissing \/ FileUnusable
           \/ \E layer \in Layers(FileKinds) : ReadFile(layer)
    PROVE  LayersInv' /\ WayInv' /\ StackInv' /\ UnwindInv' /\ Verdict'
<1> USE DEF MainInv
<1>1. /\ UNCHANGED <<panicVars, inputVars, listener, exit>>
      /\ main \in {"parse flags", "read file"}
      /\ main' \in {"read file", "override level", "apply env", "fail"}
      /\ main = "parse flags" => flags.ask = "run"
      /\ main' \in {"read file", "override level"} => UNCHANGED <<file, config, trouble>>
      /\ main' = "apply env" => config' = Overlaid(config, file', "file") /\ UNCHANGED trouble
      /\ main' = "fail" => trouble' = "file"
  BY DEF FindConfigFile, FileMissing, FileUnusable, ReadFile, Proceed
<1>2. StackInv' /\ UnwindInv'
  BY <1>1, QuietStack DEF Loading
<1>3. config = Default /\ file = Nothing /\ listener = "none" /\ trouble = "none" /\ exit = None
  BY <1>1 DEF LayersInv, WayInv, Early
<1>4. flags.ask = "run" /\ flags' = flags
  BY <1>1 DEF WayInv, Loading, inputVars
<1>5. WayInv'
  BY <1>1, <1>3, <1>4 DEF WayInv, Early, Loading, Started
<1>6. LayersInv'
  BY <1>1, <1>3 DEF LayersInv, Early, Started
<1>7. QED
  BY <1>1, <1>2, <1>5, <1>6, NotYet

(* Merging the other layers. *)
LEMMA MergeStep ==
    ASSUME MainInv, ApplyEnvOverrides \/ OverrideLevel \/ Validate
    PROVE  LayersInv' /\ WayInv' /\ StackInv' /\ UnwindInv' /\ Verdict'
<1> USE DEF MainInv
<1>1. /\ UNCHANGED <<panicVars, inputVars, file, listener, trouble, exit>>
      /\ main \in {"apply env", "override level", "validate"}
      /\ main' \in {"override level", "validate", "start", "fail"}
  BY DEF ApplyEnvOverrides, OverrideLevel, Validate, Proceed
<1>2. StackInv' /\ UnwindInv'
  BY <1>1, QuietStack DEF Loading
<1>3. flags.ask = "run" /\ listener = "none" /\ trouble = "none" /\ exit = None
  BY <1>1 DEF WayInv, Loading
<1>4. WayInv'
  BY <1>1, <1>3 DEF WayInv, inputVars, Early, Loading, Started
<1>5. (Condemned' <=> Condemned) /\ (Ungarbled' <=> Ungarbled)
  BY <1>1, SameVerdicts
<1>6. CASE ApplyEnvOverrides
  <2>1. CASE Ungarbled
    <3>1. main' = "override level" /\ config' = Overlaid(Overlaid(Default, file, "file"), env, "env")
      BY <1>6, <2>1 DEF ApplyEnvOverrides, Proceed, Ungarbled, LayersInv
    <3>2. LayersInv'
      BY <1>1, <1>3, <1>5, <2>1, <3>1 DEF LayersInv, inputVars, Early, Started
    <3>3. QED
      BY <1>1, <1>2, <1>4, <3>1, <3>2, NotYet
  <2>2. CASE ~Ungarbled
    <3>1. PICK f \in Fields : env[f] = "garbled"
      BY <2>2 DEF Ungarbled
    <3>2. Condemned
      BY <3>1, DocumentedKinds DEF Condemned
    <3>3. main' = "fail"
      BY <1>6, <3>1 DEF ApplyEnvOverrides, Proceed
    <3>4. LayersInv'
      BY <1>1, <1>3, <1>5, <3>2, <3>3 DEF LayersInv, Early, Started
    <3>5. QED
      BY <1>1, <1>2, <1>4, <3>3, <3>4, NotYet
  <2>3. QED
    BY <2>1, <2>2
<1>7. CASE OverrideLevel
  <2>1. /\ main = "override level" /\ main' = "validate"
        /\ config' = Overlaid(config, [Nothing EXCEPT !["level"] = flags.level], "flag")
    BY <1>7 DEF OverrideLevel, Proceed
  <2>2. Merged' \/ Skipped'
    <3>1. CASE Ungarbled /\ config = Overlaid(Overlaid(Default, file, "file"), env, "env")
      <4>1. \A f \in Fields : config'[f] = Documented(f)
        BY <2>1, <3>1, OverlaysMerge
      <4>2. \A f \in Fields : Documented(f)' = Documented(f)
        BY <1>1, SameDocumented
      <4>3. QED
        BY <1>5, <3>1, <4>1, <4>2 DEF Merged
    <3>2. CASE config = Default /\ file = Nothing
      BY <1>1, <2>1, <3>2, DefaultsLackMountPoints DEF Skipped
    <3>3. QED
      BY <2>1, <3>1, <3>2 DEF LayersInv
  <2>3. LayersInv'
    BY <1>1, <1>3, <2>1, <2>2 DEF LayersInv, Early, Started
  <2>4. QED
    BY <1>2, <1>4, <2>1, <2>3, NotYet
<1>8. CASE Validate
  <2>1. UNCHANGED config /\ main = "validate" /\ main' = IF Rejected THEN "fail" ELSE "start"
    BY <1>8 DEF Validate, Proceed
  <2>2. Rejected => Condemned
    BY <2>1, SkippedIsRejected, MergedVerdicts DEF LayersInv
  <2>3. ~Rejected => Accepted
    BY <2>1, SkippedIsRejected DEF LayersInv, Accepted
  <2>4. Accepted' <=> Accepted
    BY <1>1, <2>1, SameVerdicts
  <2>5. LayersInv'
    BY <1>1, <1>3, <1>5, <2>1, <2>2, <2>3, <2>4 DEF LayersInv, Early, Started
  <2>6. QED
    BY <1>2, <1>4, <2>1, <2>5, NotYet
<1>9. QED
  BY <1>6, <1>7, <1>8

-----------------------------------------------------------------------------
(* Entering and leaving functions. *)

(* Popping takes off what was pushed last. *)
LEMMA PushPop ==
    ASSUME NEW S, NEW q \in Seq(S), NEW e \in S
    PROVE  /\ SubSeq(Append(q, e), 1, Len(Append(q, e)) - 1) = q
           /\ Append(q, e)[Len(Append(q, e))] = e
           /\ Append(q, e) # <<>>
OBVIOUS

(* The functions main is in, their tops, and where they are called from.   *)
LEMMA Frames ==
    /\ Deferred # <<>> /\ InMain # <<>> /\ InStart # <<>>
    /\ Deferred # InMain /\ Deferred # InStart
    /\ Deferred[Len(Deferred)] = "record"
    /\ InMain[Len(InMain)] = "guard" /\ InStart[Len(InStart)] = "guard"
    /\ SubSeq(Deferred, 1, Len(Deferred) - 1) = <<>>
    /\ SubSeq(InMain, 1, Len(InMain) - 1) = Deferred
    /\ SubSeq(InStart, 1, Len(InStart) - 1) = InMain
<1>1. <<>> \in Seq(Frame) /\ "record" \in Frame /\ "guard" \in Frame
  BY DEF Frame
<1>2. Deferred \in Seq(Frame)
  BY <1>1 DEF Deferred
<1>3. InMain \in Seq(Frame)
  BY <1>1, <1>2 DEF InMain
<1>4. /\ Deferred # <<>> /\ Deferred[Len(Deferred)] = "record"
      /\ SubSeq(Deferred, 1, Len(Deferred) - 1) = <<>>
  BY <1>1, PushPop DEF Deferred
<1>5. /\ InMain # <<>> /\ InMain[Len(InMain)] = "guard"
      /\ SubSeq(InMain, 1, Len(InMain) - 1) = Deferred
  BY <1>1, <1>2, PushPop DEF InMain
<1>6. /\ InStart # <<>> /\ InStart[Len(InStart)] = "guard"
      /\ SubSeq(InStart, 1, Len(InStart) - 1) = InMain
  BY <1>1, <1>3, PushPop DEF InStart
<1>7. QED
  BY <1>4, <1>5, <1>6

(* Setting up the recovery, and calling under it. *)
LEMMA CallStep ==
    ASSUME MainInv, DeferGlobalRecover \/ EnterGuard
    PROVE  LayersInv' /\ WayInv' /\ StackInv' /\ UnwindInv' /\ Verdict'
<1> USE MainAssumption DEF MainAssumption, MainInv
<1>1. /\ UNCHANGED <<inputVars, file, config, listener, trouble, exit>>
      /\ \/ main = "begin" /\ main' = "guard"
         \/ main = "guard" /\ main' = "parse flags"
         \/ main = "start" /\ main' = "set up routes"
  BY DEF DeferGlobalRecover, EnterGuard, Proceed
<1>2. WayInv'
  BY <1>1 DEF WayInv, inputVars, Early, Loading, Started
<1>3. LayersInv'
  <2>1. Accepted' <=> Accepted
    BY <1>1, SameVerdicts
  <2>2. QED
    BY <1>1, <2>1 DEF LayersInv, WayInv, Early, Started
<1>4. PICK frame \in Frame : Push(Main, frame) /\ (main = "begin" <=> frame = "record")
                                             /\ (main # "begin" <=> frame = "guard")
  BY DEF DeferGlobalRecover, EnterGuard, Proceed, DeferRecover, Call, Frame, StackInv
<1>5. /\ stack'[Main] = Append(stack[Main], frame)
      /\ UNCHANGED <<enabled, recovered, handlers, panicking, pc>>
  BY <1>4 DEF Push, IInv, TypeOK, statVars, sliceVars
<1>6. StackInv' /\ UnwindInv'
  BY <1>1, <1>4, <1>5 DEF StackInv, UnwindInv, Deferred, InMain, InStart, Loading
<1>7. QED
  BY <1>1, <1>2, <1>3, <1>6, NotYet

(* Starting the server. *)
LEMMA StartStep ==
    ASSUME MainInv, SetupRoutes \/ RoutesPanic \/ Listen \/ ListenFails
    PROVE  LayersInv' /\ WayInv' /\ StackInv' /\ UnwindInv' /\ Verdict'
<1> USE MainAssumption DEF MainAssumption, MainInv
<1>1. /\ UNCHANGED <<inputVars, file, config, exit>>
      /\ main \in {"set up routes", "listen"}
      /\ main' \in {"listen", "unwind", "wait", "fail"}
      /\ main' = "fail" => trouble' = "address" /\ UNCHANGED listener
      /\ main' # "fail" => UNCHANGED trouble
      /\ main' = "wait" <=> listener' # "none"
      /\ main' = "wait" => main = "listen"
      /\ main' = "listen" => config["path"].kind # "taken"
  BY DEF SetupRoutes, RoutesPanic, Listen, ListenFails, Proceed, WayInv
<1>2. flags.ask = "run" /\ Accepted /\ exit = None /\ listener = "none"
  BY <1>1 DEF WayInv, LayersInv, Started
<1>3. WayInv'
  BY <1>1, <1>2 DEF WayInv, inputVars, Early, Loading, Started
<1>4. (Accepted' <=> Accepted) /\ (Taken' <=> Taken)
  BY <1>1, SameVerdicts
<1>5. Documented("path") = config["path"]
  BY <1>2 DEF Accepted, Merged
<1>6. LayersInv'
  BY <1>1, <1>2, <1>4, <1>5 DEF LayersInv, Early, Started, Taken
<1>7. stack[Main] = InStart /\ recovered = 0 /\ panicking = {} /\ pc[Main] = "running" /\ enabled
  BY <1>1 DEF StackInv
<1>8. StackInv' /\ UnwindInv'
  <2>1. CASE SetupRoutes
    BY <2>1, QuietStack DEF SetupRoutes, Proceed
  <2>2. CASE RoutesPanic
    <3>1. /\ main' = "unwind" /\ panicking' = {Main} /\ Taken
          /\ UNCHANGED <<flags, stack, pc, recovered, enabled, handlers>>
      BY <1>5, <1>7, <2>2
      DEF RoutesPanic, Panic, Proceed, Taken, inputVars, statVars, sliceVars
    <3>2. StackInv'
      BY <3>1 DEF StackInv, Loading
    <3>3. UnwindInv'
      BY <1>2, <1>4, <1>7, <3>1, Frames DEF UnwindInv
    <3>4. QED
      BY <3>2, <3>3
  <2>3. CASE Listen \/ ListenFails
    <3>1. Return(Main) /\ main' \in {"wait", "fail"}
      BY <2>3 DEF Listen, ListenFails, Proceed
    <3>2. /\ stack'[Main] = InMain
          /\ UNCHANGED <<enabled, recovered, handlers, panicking, pc>>
      BY <1>7, <3>1, Frames DEF Return, Pop, IInv, TypeOK, statVars, sliceVars
    <3>3. QED
      BY <1>7, <3>1, <3>2 DEF StackInv, UnwindInv, Loading
  <2>4. QED
    BY <2>1, <2>2, <2>3
<1>9. main' # "exited"
  BY <1>1
<1>10. QED
  BY <1>3, <1>6, <1>8, <1>9, NotYet

-----------------------------------------------------------------------------
(* The ways out. *)

(* A signal, or an error. *)
LEMMA EndStep ==
    ASSUME MainInv, ShutDown \/ Fail
    PROVE  LayersInv' /\ WayInv' /\ StackInv' /\ UnwindInv' /\ Verdict'
<1> USE MainAssumption DEF MainAssumption, MainInv
<1>1. /\ UNCHANGED <<inputVars, file, config>> /\ main' = "exited"
      /\ UNCHANGED <<enabled, recovered, handlers>>
      /\ flags.ask = "run" /\ recovered = 0
  BY DEF ShutDown, Fail, Proceed, Return, panicVars, vars, statVars, sliceVars, WayInv,
         StackInv, Started
<1>2. UNCHANGED flags
  BY <1>1 DEF inputVars
<1>3. WayInv' /\ StackInv' /\ UnwindInv'
  BY <1>1 DEF WayInv, StackInv, UnwindInv, Early, Loading, Started, inputVars
<1>4. /\ Condemned' <=> Condemned
      /\ Taken' <=> Taken
      /\ Accepted' <=> Accepted
  BY <1>1, SameVerdicts
<1>5. CASE ShutDown
  <2>1. /\ main = "wait" /\ trouble = "none" /\ listener' = "closed"
        /\ \/ exit' = 0 /\ trouble' = "none"
           \/ exit' = 1 /\ trouble' = "shutdown"
    BY <1>5 DEF ShutDown, Proceed, Exit, WayInv
  <2>2. Accepted /\ ~Taken
    BY <2>1 DEF LayersInv
  <2>3. ~Condemned
    BY <2>2, MergedVerdicts DEF Accepted
  <2>4. LayersInv'
    BY <1>1, <1>4, <2>2 DEF LayersInv, Early, Started
  <2>5. Verdict'
    BY <1>1, <1>2, <1>4, <2>1, <2>2, <2>3 DEF Verdict, Panicked
  <2>6. QED
    BY <1>3, <2>4, <2>5
<1>6. CASE Fail
  <2>1. main = "fail" /\ exit' = 1 /\ UNCHANGED <<listener, trouble>>
    BY <1>6 DEF Fail, Proceed, Exit
  <2>2. /\ trouble # "none" \/ Condemned
        /\ trouble # "shutdown" /\ listener = "none"
    BY <2>1 DEF LayersInv, WayInv
  <2>3. LayersInv'
    BY <1>1, <2>1, <2>2 DEF LayersInv, Early, Started
  <2>4. Verdict'
    BY <1>1, <1>2, <1>4, <2>1, <2>2 DEF Verdict, Panicked
  <2>5. QED
    BY <1>3, <2>3, <2>4
<1>7. QED
  BY <1>5, <1>6

(* A return, and what a return and a panic then come to. *)
LEMMA UnwindMainStep ==
    ASSUME MainInv, ReturnNil \/ UnwindMain
    PROVE  LayersInv' /\ WayInv' /\ StackInv' /\ UnwindInv' /\ Verdict'
<1> USE MainAssumption DEF MainAssumption, MainInv
<1>1. /\ UNCHANGED <<inputVars, file, config, listener, trouble, exit>>
      /\ main \in {"return", "unwind"} /\ main' = "unwind"
  BY DEF ReturnNil, UnwindMain, Proceed
<1>2. UNCHANGED flags
  BY <1>1 DEF inputVars
<1>3. (Taken' <=> Taken) /\ (Accepted' <=> Accepted)
  BY <1>1, SameVerdicts
<1>4. WayInv'
  BY <1>1 DEF WayInv, Early, Loading, Started
<1>5. LayersInv'
  BY <1>1 DEF LayersInv, WayInv, Early, Started
<1>6. CASE ReturnNil
  <2>1. /\ stack[Main] = InMain /\ recovered = 0 /\ panicking = {} /\ pc[Main] = "running"
        /\ flags.ask = "help"
    BY <1>6 DEF ReturnNil, Proceed, StackInv, WayInv
  <2>2. /\ stack'[Main] = Deferred
        /\ UNCHANGED <<enabled, recovered, handlers, panicking, pc>>
    BY <1>6, <2>1, Frames DEF ReturnNil, Return, Pop, IInv, TypeOK, statVars, sliceVars
  <2>3. StackInv' /\ UnwindInv'
    BY <1>1, <1>2, <2>1, <2>2, Frames DEF StackInv, UnwindInv, Loading
  <2>4. QED
    BY <1>1, <1>4, <1>5, <2>3, NotYet
<1>7. CASE Unwind(Main) /\ main = "unwind"
  <2>1. /\ Main \in panicking /\ stack[Main] \in {InMain, InStart}
        /\ UNCHANGED <<enabled, recovered, handlers, panicking, pc>>
        /\ pc[Main] = "running" /\ Pop(Main)
    BY <1>7, NeverFound, Frames
    DEF Unwind, Runs, Top, UnwindInv, statVars, sliceVars
  <2>2. stack'[Main] \in {Deferred, InMain}
    BY <2>1, Frames DEF Pop, IInv, TypeOK
  <2>3. StackInv' /\ UnwindInv'
    BY <1>1, <1>2, <1>3, <1>7, <2>1, <2>2, Frames DEF StackInv, UnwindInv, Loading
  <2>4. QED
    BY <1>1, <1>4, <1>5, <2>3, NotYet
<1>8. CASE (RunDeferred(Main) \/ Recover(Main)) /\ main = "unwind"
  <2>1. stack[Main] = Deferred
    BY <1>8, Frames DEF RunDeferred, Recover, LookAtFlag, Lock, Count, CallHandlers, Top, UnwindInv
  <2>2. /\ UNCHANGED <<enabled, handlers, panicking>> /\ enabled
        /\ handlers = [array |-> 2, len |-> 2]
    <3>1. enabled /\ handlers = [array |-> 2, len |-> 2]
      BY DEF StackInv
    <3>2. ~(handlers.len > handlers.array)
      BY <3>1
    <3>3. QED
      BY <1>8, <3>1, <3>2 DEF RunDeferred, Recover, LookAtFlag, Lock, Count, CallHandlers,
                        statVars, sliceVars
  <2>3. StackInv'
    BY <1>1, <2>2 DEF StackInv, Loading
  <2>4. UnwindInv'
    <3>1. CASE RunDeferred(Main)
      BY <1>1, <1>2, <1>3, <1>8, <2>1, <2>2, <3>1, Frames
      DEF RunDeferred, Runs, UnwindInv, IInv, TypeOK, statVars
    <3>2. CASE LookAtFlag(Main) \/ Lock(Main)
      BY <1>1, <1>2, <1>3, <1>8, <2>1, <2>2, <3>2, Frames
      DEF LookAtFlag, Lock, UnwindInv, IInv, TypeOK, statVars
    <3>3. CASE Count(Main)
      BY <1>1, <1>2, <1>3, <1>8, <2>1, <2>2, <3>3, Frames
      DEF Count, UnwindInv, IInv, TypeOK, ReadIsPresent
    <3>4. CASE CallHandlers(Main)
      BY <1>1, <1>2, <1>3, <1>8, <2>1, <2>2, <3>4, Frames
      DEF CallHandlers, Pop, UnwindInv, IInv, TypeOK, statVars
    <3>5. QED
      BY <1>8, <3>1, <3>2, <3>3, <3>4 DEF Recover
  <2>5. QED
    BY <1>1, <1>4, <1>5, <2>3, <2>4, NotYet
<1>9. QED
  BY <1>6, <1>7, <1>8 DEF UnwindMain, Proceed

(* The runtime ends the process. *)
LEMMA LeaveStep ==
    ASSUME MainInv, Leave
    PROVE  LayersInv' /\ WayInv' /\ StackInv' /\ UnwindInv' /\ Verdict'
<1> USE MainAssumption DEF MainAssumption, MainInv
<1>1. /\ UNCHANGED <<inputVars, file, config, listener, trouble>>
      /\ main = "unwind" /\ main' = "exited"
      /\ UNCHANGED <<enabled, recovered, handlers>>
      /\ stack[Main] = <<>>
      /\ \/ Main \in panicking /\ exit' = 2
         \/ Main \notin panicking /\ exit' = 0
  BY DEF Leave, Crash, Proceed, Exit, panicVars, vars, statVars, sliceVars
<1>2. UNCHANGED flags
  BY <1>1 DEF inputVars
<1>3. /\ Condemned' <=> Condemned
      /\ Taken' <=> Taken
  BY <1>1, SameVerdicts
<1>4. listener = "none" /\ trouble = "none" /\ recovered = 1
  BY <1>1 DEF WayInv, UnwindInv
<1>5. WayInv' /\ LayersInv' /\ StackInv' /\ UnwindInv'
  BY <1>1, <1>4 DEF WayInv, LayersInv, StackInv, UnwindInv, Early, Loading, Started
<1>6. CASE Main \notin panicking
  <2>1. flags.ask = "help" /\ exit' = 0
    BY <1>1, <1>6 DEF UnwindInv
  <2>2. Verdict'
    BY <1>1, <1>2, <1>4, <2>1 DEF Verdict, Panicked
  <2>3. QED
    BY <1>5, <2>2
<1>7. CASE Main \in panicking
  <2>1. flags.ask = "run" /\ exit' = 2 /\ Accepted /\ Taken
    BY <1>1, <1>7 DEF UnwindInv
  <2>2. ~Condemned
    BY <2>1, MergedVerdicts DEF Accepted
  <2>3. Verdict'
    BY <1>1, <1>2, <1>3, <1>4, <2>1, <2>2 DEF Verdict, Panicked
  <2>4. QED
    BY <1>5, <2>3
<1>8. QED
  BY <1>6, <1>7

(* Nothing happens. *)
LEMMA StutterStep ==
    ASSUME MainInv, UNCHANGED mainVars
    PROVE  LayersInv' /\ WayInv' /\ StackInv' /\ UnwindInv' /\ Verdict'
<1> USE DEF MainInv
<1>1. /\ UNCHANGED <<main, inputVars, flags, env, file, config, listener, trouble, exit>>
      /\ UNCHANGED <<enabled, recovered, handlers, stack, panicking, pc>>
  BY DEF mainVars, panicVars, vars, inputVars, statVars, sliceVars
<1>2. /\ Condemned' <=> Condemned
      /\ Taken' <=> Taken
      /\ Ungarbled' <=> Ungarbled
      /\ Merged' <=> Merged
      /\ Skipped' <=> Skipped
      /\ Accepted' <=> Accepted
  BY <1>1, SameVerdicts
<1>3. LayersInv'
  BY <1>1, <1>2 DEF LayersInv
<1>4. WayInv' /\ StackInv'
  BY <1>1 DEF WayInv, StackInv
<1>5. UnwindInv'
  BY <1>1, <1>2 DEF UnwindInv
<1>6. Verdict'
  BY <1>1, <1>2 DEF Verdict, Panicked
<1>7. QED
  BY <1>3, <1>4, <1>5, <1>6

-----------------------------------------------------------------------------
(* The program begins with nothing but its inputs. *)
LEMMA InitMainInv == MainInit => MainInv
<1> SUFFICES ASSUME MainInit PROVE MainInv
  OBVIOUS
<1> USE MainAssumption DEF MainAssumption, MainInit
<1>1. IInv
  BY InitIInv
<1>2. InputTypes
  <2>1. Nothing \in Layers(FileKinds)
    BY DEF Nothing, Layers, FileKinds, Kinds
  <2>2. QED
    BY <2>1 DEF InputTypes, Early
<1>3. LayersInv /\ WayInv
  BY DEF LayersInv, WayInv, Early, Loading, Started
<1>4. StackInv /\ UnwindInv /\ Verdict
  BY DEF Init, StackInv, UnwindInv, Verdict, Loading
<1>5. QED
  BY <1>1, <1>2, <1>3, <1>4 DEF MainInv

(* Every step of the program preserves the invariant. *)
LEMMA NextMainInv == MainInv /\ [MainNext]_mainVars => MainInv'
<1> SUFFICES ASSUME MainInv, [MainNext]_mainVars PROVE MainInv'
  OBVIOUS
<1>1. IInv'
  BY StepPanicHandler, NextIInv DEF MainInv
<1>2. InputTypes'
  BY InputStep DEF MainInv
<1>3. LayersInv' /\ WayInv' /\ StackInv' /\ UnwindInv' /\ Verdict'
  BY FlagsStep, FileStep, MergeStep, CallStep, StartStep, EndStep, UnwindMainStep, LeaveStep,
     StutterStep
  DEF MainNext
<1>4. QED
  BY <1>1, <1>2, <1>3 DEF MainInv

(* The inductive invariant holds of every reachable state. *)
THEOREM MainInductive == MainSpec => []MainInv
BY InitMainInv, NextMainInv, PTL DEF MainSpec

(* Whatever the command line, the environment and the file say, what is    *)
(* served is valid and has every field from the layer with the highest     *)
(* priority.                                                               *)
THEOREM ServesWhatIsDocumented == MainSpec => []ServedAsDocumented
<1>1. ASSUME MainInv PROVE ServedAsDocumented
  <2> SUFFICES ASSUME listener # "none", NEW f \in Fields
               PROVE  config[f] = Documented(f) /\ config[f].kind = "valid"
    BY DEF ServedAsDocumented
  <2>1. Merged /\ ~Rejected /\ ~Taken
    BY <1>1 DEF MainInv, LayersInv, Accepted
  <2>2. config[f] = Documented(f) /\ config[f].kind # "invalid" /\ env[f] # "garbled"
    BY <2>1 DEF Merged, Ungarbled, Rejected
  <2>3. QED
    BY <1>1, <2>1, <2>2, DocumentedKinds DEF MainInv, Taken
<1>2. QED
  BY <1>1, MainInductive, PTL

(* The exit status tells how the program ended, and the statistics of      *)
(* panics whether it did by one.                                           *)
THEOREM ExitIsExplained == MainSpec => []ExitExplained
<1>1. MainInv => ExitExplained
  BY DEF MainInv, Verdict, ExitExplained, Condemned, Taken
<1>2. QED
  BY <1>1, MainInductive, PTL
=============================================================================
