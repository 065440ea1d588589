---------------------------- MODULE Server_proofs ----------------------------
(***************************************************************************)
(* What holds of the server for any number of requests. It is a user of    *)
(* the resource manager like any other (ImplementsManager), so what        *)
(* ResourceManager_proofs says of the manager holds inside it; the rest of *)
(* CleanExit follows from where the main goroutine is.                     *)
(***************************************************************************)
EXTENDS Server, FiniteSetTheorems, TLAPS

P == INSTANCE ResourceManager_proofs WITH
        Callers <- {Main}, MaxResources <- 3, NoCleanup <- {}, MaxUnlocked <- 0

-----------------------------------------------------------------------------
(* The manager inside the server.                                          *)

(* The server starts with a new manager. *)
LEMMA InitManager == Init => M!Init
BY DEF Init

(* Every step of the server is a step of the manager, or leaves it alone.  *)
LEMMA StepManager == [Next]_vars => [M!Next]_(M!vars)
<1> SUFFICES ASSUME [Next]_vars PROVE [M!Next]_(M!vars)
  OBVIOUS
<1>1. CASE UNCHANGED managerVars
  BY <1>1
  DEF managerVars, M!vars, M!mapVars, M!countVars, M!jobVars
<1>2. CASE RegisterHTTP \/ RegisterCollector \/ RegisterListener
  BY <1>2, ServerAssumption
  DEF ServerAssumption, RegisterHTTP, RegisterCollector, RegisterListener, Register,
      M!Next, M!Operation
<1>3. CASE CleanUp \/ CloseManager \/ CloseCleansUp
  BY <1>3 DEF CleanUp, CloseManager, CloseCleansUp, M!Next, M!Operation
<1>4. ASSUME NEW id \in Ids, CleanUpResource(id) PROVE [M!Next]_(M!vars)
  BY <1>4 DEF CleanUpResource, M!Next, M!Step
<1>5. CASE CleanupEnds
  <2>1. \E how \in M!Outcome : M!CleanupReturns(Main, how)
    BY <1>5 DEF CleanupEnds, M!Outcome
  <2>2. QED
    BY <2>1 DEF M!Next, M!Step
<1>6. CASE CountCleanup \/ CleanedUp \/ Closed
  BY <1>6 DEF CountCleanup, CleanedUp, Closed, M!Next, M!Step
<1>7. CASE BackgroundLoop
  BY <1>7 DEF BackgroundLoop, M!Next
<1>8. QED
  BY <1>1, <1>2, <1>3, <1>4, <1>5, <1>6, <1>7
  DEF Next, MainStep, Listen, ListenFails, LaunchServe, Notify, ReceiveSignal,
      ShutdownSucceeds, ShutdownTimesOut, ServeBegins, AcceptFails, Arrive, Finish,
      Signal, vars

(* The server uses the manager as ResourceManager allows. *)
THEOREM ImplementsManager == Spec => ManagerSpec
<1>1. QED
  BY InitManager, StepManager, PTL DEF Spec, ManagerSpec, M!Spec

(* The constants of the server make a manager. *)
LEMMA ManagerConstants == P!ManagerAssumption
<1>1. P!IsFiniteSet({Main})
  BY FS_Singleton, Zenon DEF P!IsFiniteSet, IsFiniteSet
<1>2. None \notin {Main}
  BY ServerAssumption DEF ServerAssumption
<1>3. 3 \in Nat /\ 0 \in Nat /\ {} \subseteq 1 .. 3
  OBVIOUS
<1>4. QED
  BY <1>1, <1>2, <1>3 DEF P!ManagerAssumption

(* The instance of the manager in Server and the one its proofs are about  *)
(* are the same formulas.                                                  *)
LEMMA SameManager ==
    /\ M!Init => P!Init
    /\ [M!Next]_(M!vars) => [P!Next]_(P!vars)
<1>1. M!Init => P!Init
  BY DEF M!Init, P!Init, M!Outcome, P!Outcome, M!Resource, P!Resource
<1>2. [M!Next]_(M!vars) => [P!Next]_(P!vars)
  BY DEF M!vars, M!mapVars, M!countVars, M!jobVars, M!Next, M!Operation, M!Step,
         M!RegisterResource, M!UnregisterResource, M!CleanupResource, M!CleanupAll,
         M!Close, M!CloseCleanupAll, M!Retire, M!Registered, M!Free, M!Goto,
         M!Visit, M!AfterLookup, M!Remove, M!Finished, M!Remaining, M!Unlocked,
         M!CleanupReturns, M!Store, M!Counted, M!Outcome,
         M!LoopTick, M!LoopSweep, M!LoopExit,
         P!vars, P!mapVars, P!countVars, P!jobVars, P!Next, P!Operation, P!Step,
         P!RegisterResource, P!UnregisterResource, P!CleanupResource, P!CleanupAll,
         P!Close, P!CloseCleanupAll, P!Retire, P!Registered, P!Free, P!Goto,
         P!Visit, P!AfterLookup, P!Remove, P!Finished, P!Remaining, P!Unlocked,
         P!CleanupReturns, P!Store, P!Counted, P!Outcome,
         P!LoopTick, P!LoopSweep, P!LoopExit
<1>3. QED
  BY <1>1, <1>2

(* So are the steps of an operation of theirs.                             *)
LEMMA SameStep == M!Step(Main) => P!Step(Main)
BY DEF M!Step, M!Visit, M!AfterLookup, M!Remove, M!Finished, M!Remaining, M!Unlocked,
       M!CleanupReturns, M!Store, M!Counted, M!Outcome, M!Goto, M!mapVars, M!countVars,
       M!jobVars,
       P!Step, P!Visit, P!AfterLookup, P!Remove, P!Finished, P!Remaining, P!Unlocked,
       P!CleanupReturns, P!Store, P!Counted, P!Outcome, P!Goto, P!mapVars, P!countVars,
       P!jobVars

(* What is proved of the manager holds inside the server.                  *)
THEOREM ManagerInvariant == Spec => []P!IInv
<1>1. Init => P!IInv
  BY InitManager, SameManager, ManagerConstants, P!InitIInv
<1>2. P!IInv /\ [Next]_vars => P!IInv'
  BY StepManager, SameManager, ManagerConstants, P!NextIInv
<1>3. QED
  BY <1>1, <1>2, PTL DEF Spec

-----------------------------------------------------------------------------
(* Requests.                                                               *)

\* A server that is shutting down accepts nothing, and what has been waited
\* for does not come back.
DrainInv ==
    /\ shut => main \in {"shutdown", "clean up", "cleaning up", "close", "closing", "exited"}
    /\ shut /\ serve = "accepting" => listener = "closed"
    /\ exit = "ok" => main = "exited" /\ shut /\ requests = {}
    /\ main = "shutdown" => shut
    /\ DrainedBeforeCleanup

ShutType == shut \in BOOLEAN

(* The flag is one. *)
LEMMA NextShut == ShutType /\ [Next]_vars => ShutType'
BY DEF Next, MainStep, RegisterHTTP, RegisterCollector, RegisterListener, Register,
       Listen, ListenFails, LaunchServe, Notify, ReceiveSignal, ShutdownSucceeds,
       ShutdownTimesOut, CleanUp, CleanUpResource, CleanupEnds, CountCleanup, CleanedUp,
       CloseManager, CloseCleansUp, Closed, ServeBegins, AcceptFails, Arrive, Finish,
       Signal, BackgroundLoop, httpVars, vars, ShutType

(* Every step keeps it that way.                                           *)
LEMMA NextDrain == ShutType /\ DrainInv /\ [Next]_vars => DrainInv'
<1> SUFFICES ASSUME shut \in BOOLEAN, shut' \in BOOLEAN, DrainInv, [Next]_vars
             PROVE  DrainInv'
  BY NextShut DEF ShutType
<1> USE DEF DrainInv, DrainedBeforeCleanup, Proceed, Running, Exit, httpVars
<1>1. CASE RegisterHTTP \/ RegisterCollector \/ RegisterListener
  BY <1>1 DEF RegisterHTTP, RegisterCollector, RegisterListener, Register
<1>2. CASE Listen \/ ListenFails \/ LaunchServe \/ Notify
  BY <1>2 DEF Listen, ListenFails, LaunchServe, Notify
<1>3. CASE ReceiveSignal \/ ShutdownSucceeds \/ ShutdownTimesOut
  BY <1>3 DEF ReceiveSignal, ShutdownSucceeds, ShutdownTimesOut, ShutDown
<1>4. CASE CleanUp \/ CountCleanup \/ CleanedUp \/ CloseManager \/ CloseCleansUp \/ Closed
  BY <1>4 DEF CleanUp, CountCleanup, CleanedUp, CloseManager, CloseCleansUp, Closed
<1>5. CASE CleanupEnds \/ \E id \in Ids : CleanUpResource(id)
  BY <1>5 DEF CleanupEnds, CleanUpResource
<1>6. CASE ServeBegins \/ AcceptFails \/ \E r \in Requests : Arrive(r) \/ Finish(r)
  BY <1>6 DEF ServeBegins, AcceptFails, Arrive, Finish
<1>7. CASE Signal \/ BackgroundLoop \/ UNCHANGED vars
  BY <1>7 DEF Signal, BackgroundLoop, Notified, vars
<1>8. QED
  BY <1>1, <1>2, <1>3, <1>4, <1>5, <1>6, <1>7 DEF Next, MainStep

(* No request is there at first, and nothing is shutting down. *)
LEMMA InitDrain == Init => ShutType /\ DrainInv
BY DEF ShutType, Init, DrainInv, DrainedBeforeCleanup

(* The invariant holds of every reachable state. *)
LEMMA DrainInvariant == Spec => []DrainInv
BY InitDrain, NextShut, NextDrain, PTL DEF Spec

(* For any number of requests, whenever they end and whenever the signal   *)
(* and the call of Serve come, no cleanup meets a request.                 *)
THEOREM CleanupsFindNoRequest == Spec => []DrainedBeforeCleanup
<1>1. DrainInv => DrainedBeforeCleanup
  BY DEF DrainInv
<1>2. QED
  BY <1>1, DrainInvariant, PTL

-----------------------------------------------------------------------------
(* What the main goroutine has done to the manager, and what not.          *)

Entries(h, c, l) ==
    resources[HTTP] = h /\ resources[Collector] = c /\ resources[Listener] = l

Idle == pc[Main] = "idle" /\ writer = None

Progress ==
    /\ main = "start" => Idle /\ total = 0 /\ Entries(0, 0, 0)
    /\ main = "registering" =>
          Idle /\ total = 1 /\ Entries(1, 0, 0)
    /\ main \in {"listen", "register listener"} =>
          Idle /\ total = 2 /\ Entries(1, 2, 0)
    /\ main \in {"serve", "notify", "waiting", "shutdown", "clean up"} =>
          Idle /\ total = 3 /\ Entries(1, 2, 3)
    /\ main = "cleaning up" =>
          /\ pc[Main] \in {"retiring", "cleaning", "storing"}
          /\ writer = Main /\ target[Main] = Ids
          /\ total = 3 /\ Entries(1, 2, 3)
    /\ main = "close" =>
          /\ pc[Main] \in {"idle", "closing"} /\ writer = None
          /\ pc[Main] = "closing" => cancelled
          /\ total = 3 /\ Entries(0, 0, 0)
    /\ main = "closing" =>
          /\ pc[Main] = "retiring" /\ todo[Main] = {} /\ cancelled
          /\ total = 3 /\ Entries(0, 0, 0)
    /\ main = "exited" <=> exit # "none"
    /\ exit = "ok" => total = 3 /\ Entries(0, 0, 0) /\ cancelled

\* The listener is closed once its cleanup has ended.
ClosedInv ==
    /\ main = "cleaning up" /\ Listener \notin todo[Main] =>
          listener = "closed" \/ (pc[Main] = "cleaning" /\ current = Listener)
    /\ main \in {"close", "closing"} \/ exit = "ok" => listener = "closed"

MapTypes ==
    /\ resources \in [Ids -> 0 .. 3] /\ total \in 0 .. 3
    /\ pc \in [{Main} -> M!Label]
    /\ target \in [{Main} -> SUBSET Ids]
    /\ todo \in [{Main} -> SUBSET Ids]
    /\ replaced = {}
    /\ main \in Label

ExitInv == MapTypes /\ Progress /\ ClosedInv

(* Nothing is registered at first. *)
LEMMA InitExit == Init => ExitInv
<1> USE ServerAssumption DEF ServerAssumption, Init, M!Init
<1>1. Init => MapTypes
  BY DEF MapTypes, M!Label, Label
<1>2. Init => Progress
  BY DEF Progress, Idle, Entries
<1>3. Init => ClosedInv
  BY DEF ClosedInv
<1>4. QED
  BY <1>1, <1>2, <1>3 DEF ExitInv

(* Registering: each id is free when it is used. *)
LEMMA RegisterStep ==
    ASSUME ExitInv, RegisterHTTP \/ RegisterCollector \/ RegisterListener
    PROVE  ExitInv'
<1> USE ServerAssumption
    DEF ServerAssumption, ExitInv, Proceed, Running, Register, M!RegisterResource,
        M!countVars, M!jobVars, httpVars, MapTypes
<1>1. CASE RegisterHTTP
  <2>1. MapTypes'
    BY <1>1 DEF RegisterHTTP, Progress, Entries, Label
  <2>2. Progress'
    BY <1>1 DEF RegisterHTTP, Progress, Idle, Entries
  <2>3. QED
    BY <1>1, <2>1, <2>2 DEF RegisterHTTP, Progress, ClosedInv
<1>2. CASE RegisterCollector
  <2>1. MapTypes'
    BY <1>2 DEF RegisterCollector, Progress, Entries, Label
  <2>2. Progress'
    BY <1>2 DEF RegisterCollector, Progress, Idle, Entries
  <2>3. QED
    BY <1>2, <2>1, <2>2 DEF RegisterCollector, Progress, ClosedInv
<1>3. CASE RegisterListener
  <2>1. total = 2 /\ Entries(1, 2, 0) /\ Idle /\ exit = "none"
    BY <1>3 DEF RegisterListener, Progress
  <2>2. /\ total' = total + 1 /\ resources' = [resources EXCEPT ![Listener] = total + 1]
        /\ replaced' = replaced \cup ({resources[Listener]} \ {0}) /\ main' = "serve"
        /\ UNCHANGED <<pc, writer, target, todo, listener, exit>>
    BY <1>3 DEF RegisterListener
  <2>3. replaced' = {}
    BY <2>1, <2>2 DEF Entries
  <2>4. /\ total' = 3 /\ resources' = [resources EXCEPT ![Listener] = 3]
        /\ replaced' = {} /\ main' = "serve"
        /\ UNCHANGED <<pc, writer, target, todo, listener, exit>>
    BY <2>1, <2>2, <2>3
  <2>5. MapTypes'
    <3>1. main' \in Label
      BY <2>4 DEF Label
    <3>2. QED
      BY <2>4, <3>1
  <2>6. Progress'
    BY <2>1, <2>4 DEF Progress, Idle, Entries
  <2>7. QED
    BY <2>1, <2>4, <2>5, <2>6 DEF ClosedInv
<1>4. QED
  BY <1>1, <1>2, <1>3

(* Steps that leave the manager's map and its users alone: the world, the  *)
(* background loop, and the main goroutine between two uses.               *)
LEMMA QuietStep ==
    ASSUME ExitInv, UNCHANGED <<resources, total, pc, writer, target, todo, replaced, current>>,
           cancelled => cancelled',
           listener = "closed" /\ main # "listen" => listener' = "closed",
           \/ UNCHANGED <<main, exit>>
           \/ Running /\ \E how \in {"failed", "killed"} : Exit(how)
           \/ /\ UNCHANGED exit
              /\ \/ Proceed("listen", "register listener")
                 \/ Proceed("serve", "notify") \/ Proceed("notify", "waiting")
                 \/ Proceed("waiting", "shutdown") \/ Proceed("shutdown", "clean up")
    PROVE  ExitInv'
<1>1. MapTypes'
  BY DEF ExitInv, MapTypes, Label, Proceed, Exit
<1>2. Progress'
  BY DEF ExitInv, Progress, Idle, Entries, Proceed, Running, Exit
<1>3. ClosedInv'
  BY DEF ExitInv, Progress, ClosedInv, Proceed, Running, Exit
<1>4. QED
  BY <1>1, <1>2, <1>3 DEF ExitInv

(* The main goroutine works its way through CleanupAll and Close.          *)
LEMMA CleaningStep ==
    ASSUME ExitInv,
           \/ CleanUp \/ (\E id \in Ids : CleanUpResource(id))
           \/ CleanupEnds \/ CountCleanup \/ CleanedUp
    PROVE  ExitInv'
<1> USE ServerAssumption
    DEF ServerAssumption, ExitInv, Proceed, Running, M!Goto, httpVars, MapTypes,
        M!mapVars, M!countVars, M!jobVars, M!Label
<1>1. CASE CleanUp
  <2>1. total = 3 /\ Entries(1, 2, 3) /\ exit = "none"
    BY <1>1 DEF CleanUp, Progress
  <2>2. /\ writer' = Main /\ target' = [target EXCEPT ![Main] = Ids]
        /\ todo' = [todo EXCEPT ![Main] = Ids \cap M!Registered]
        /\ pc' = [pc EXCEPT ![Main] = "retiring"] /\ main' = "cleaning up"
        /\ UNCHANGED <<resources, total, replaced, cancelled, listener, exit, current>>
    BY <1>1 DEF CleanUp, M!CleanupAll, M!Retire
  <2>3. M!Registered = Ids
    BY <2>1 DEF M!Registered, Entries
  <2>4. MapTypes'
    <3>1. main' \in Label
      BY <2>2 DEF Label
    <3>2. QED
      BY <2>2, <2>3, <3>1
  <2>5. Progress'
    BY <2>1, <2>2 DEF Progress, Entries
  <2>6. ClosedInv'
    BY <2>1, <2>2, <2>3 DEF ClosedInv
  <2>7. QED
    BY <2>4, <2>5, <2>6
<1>2. ASSUME NEW id \in Ids, CleanUpResource(id) PROVE ExitInv'
  <2>1. /\ pc[Main] = "retiring" /\ id \in todo[Main]
        /\ todo' = [todo EXCEPT ![Main] = @ \ {id}]
        /\ pc' = [pc EXCEPT ![Main] = "cleaning"] /\ current' = id
        /\ UNCHANGED <<main, resources, total, replaced, writer, target, cancelled, listener, exit>>
    BY <1>2 DEF CleanUpResource, M!Visit, M!AfterLookup
  <2>2. MapTypes'
    BY <2>1
  <2>3. main = "cleaning up" /\ exit = "none"
    BY <1>2, <2>1 DEF CleanUpResource, Progress, Idle, Label
  <2>4. Progress'
    BY <2>1, <2>3 DEF Progress, Entries
  <2>5. ClosedInv'
    BY <2>1, <2>3 DEF ClosedInv
  <2>6. QED
    BY <2>2, <2>4, <2>5
<1>3. CASE CleanupEnds
  <2>1. /\ pc[Main] = "cleaning"
        /\ pc' = [pc EXCEPT ![Main] = "storing"]
        /\ listener' = IF current = Listener THEN "closed" ELSE listener
        /\ UNCHANGED <<main, resources, total, replaced, writer, target, todo, cancelled, exit, current>>
    BY <1>3 DEF CleanupEnds, M!CleanupReturns
  <2>2. MapTypes'
    BY <2>1
  <2>3. main = "cleaning up" /\ exit = "none"
    BY <1>3, <2>1 DEF CleanupEnds, Progress, Idle, Label
  <2>4. Progress'
    BY <2>1, <2>3 DEF Progress, Entries
  <2>5. ClosedInv'
    BY <2>1, <2>3 DEF ClosedInv
  <2>6. QED
    BY <2>2, <2>4, <2>5
<1>4. CASE CountCleanup
  <2>1. pc[Main] = "storing" /\ main = "cleaning up" /\ exit = "none" /\ writer = Main
    BY <1>4 DEF CountCleanup, M!Store, Progress, Idle, Label
  <2>2. /\ pc' = [pc EXCEPT ![Main] = "retiring"]
        /\ UNCHANGED <<main, resources, total, replaced, writer, target, todo, cancelled, exit, current, listener>>
    BY <1>4, <2>1 DEF CountCleanup, M!Store
  <2>3. MapTypes'
    BY <2>2
  <2>4. Progress'
    BY <2>1, <2>2 DEF Progress, Entries
  <2>5. ClosedInv'
    BY <2>1, <2>2 DEF ClosedInv
  <2>6. QED
    BY <2>3, <2>4, <2>5
<1>5. CASE CleanedUp
  <2>1. main = "cleaning up" /\ exit = "none" /\ target[Main] = Ids /\ total = 3
    BY <1>5 DEF CleanedUp, Progress
  <2>2. /\ pc[Main] = "retiring" /\ todo[Main] = {} /\ writer' = None
        /\ resources' = M!Remaining(Main) /\ main' = "close"
        /\ target' = [target EXCEPT ![Main] = {}] /\ todo' = [todo EXCEPT ![Main] = {}]
        /\ pc' = [pc EXCEPT ![Main] = "idle"]
        /\ UNCHANGED <<total, replaced, cancelled, exit, listener>>
    BY <1>5 DEF CleanedUp, M!Remove, M!Finished, M!Unlocked
  <2>3. resources' = [i \in Ids |-> 0]
    BY <2>1, <2>2 DEF M!Remaining
  <2>4. MapTypes'
    <3>1. main' \in Label
      BY <2>2 DEF Label
    <3>2. QED
      BY <2>2, <2>3, <3>1
  <2>5. Progress'
    BY <2>1, <2>2, <2>3 DEF Progress, Entries
  <2>6. ClosedInv'
    BY <2>1, <2>2 DEF ClosedInv
  <2>7. QED
    BY <2>4, <2>5, <2>6
<1>6. QED
  BY <1>1, <1>2, <1>3, <1>4, <1>5

(* Close finds nothing left to clean up, and the process ends.             *)
LEMMA ClosingStep ==
    ASSUME ExitInv, CloseManager \/ CloseCleansUp \/ Closed
    PROVE  ExitInv'
<1> USE ServerAssumption
    DEF ServerAssumption, ExitInv, Proceed, Running, M!Goto, httpVars, MapTypes,
        M!mapVars, M!countVars, M!jobVars, M!Label
<1>1. CASE CloseManager
  <2>1. /\ pc' = [pc EXCEPT ![Main] = "closing"] /\ cancelled' = TRUE /\ main = "close"
        /\ exit = "none"
        /\ UNCHANGED <<main, resources, total, replaced, writer, target, todo, exit, listener>>
    BY <1>1 DEF CloseManager, M!Close
  <2>2. MapTypes'
    BY <2>1
  <2>3. Progress'
    BY <2>1 DEF Progress, Entries
  <2>4. ClosedInv'
    BY <2>1 DEF ClosedInv
  <2>5. QED
    BY <2>2, <2>3, <2>4
<1>2. CASE CloseCleansUp
  <2>1. /\ main = "close" /\ exit = "none" /\ main' = "closing"
        /\ pc[Main] = "closing" /\ pc' = [pc EXCEPT ![Main] = "retiring"]
        /\ target' = [target EXCEPT ![Main] = Ids]
        /\ todo' = [todo EXCEPT ![Main] = Ids \cap M!Registered]
        /\ UNCHANGED <<resources, total, replaced, cancelled, exit, listener>>
    BY <1>2 DEF CloseCleansUp, M!CloseCleanupAll, M!Retire
  <2>2. cancelled /\ total = 3 /\ Entries(0, 0, 0)
    BY <2>1 DEF Progress
  <2>3. M!Registered = {}
    BY <2>2 DEF M!Registered, Entries
  <2>4. MapTypes'
    <3>1. main' \in Label
      BY <2>1 DEF Label
    <3>2. QED
      BY <2>1, <2>3, <3>1
  <2>5. Progress'
    BY <2>1, <2>2, <2>3 DEF Progress, Entries
  <2>6. ClosedInv'
    BY <2>1 DEF ClosedInv
  <2>7. QED
    BY <2>4, <2>5, <2>6
<1>3. CASE Closed
  <2>1. /\ main = "closing" /\ main' = "exited" /\ exit' = "ok"
        /\ resources' = M!Remaining(Main)
        /\ target' = [target EXCEPT ![Main] = {}] /\ todo' = [todo EXCEPT ![Main] = {}]
        /\ pc' = [pc EXCEPT ![Main] = "idle"]
        /\ UNCHANGED <<total, replaced, cancelled, listener>>
    BY <1>3 DEF Closed, Exit, M!Remove
  <2>2. cancelled /\ total = 3 /\ Entries(0, 0, 0)
    BY <2>1 DEF Progress
  <2>3. resources' = [i \in Ids |-> 0]
    BY <2>1, <2>2 DEF M!Remaining, Entries
  <2>4. MapTypes'
    <3>1. main' \in Label
      BY <2>1 DEF Label
    <3>2. QED
      BY <2>1, <2>3, <3>1
  <2>5. Progress'
    BY <2>1, <2>2, <2>3 DEF Progress, Entries
  <2>6. ClosedInv'
    BY <2>1 DEF ClosedInv
  <2>7. QED
    BY <2>4, <2>5, <2>6
<1>4. QED
  BY <1>1, <1>2, <1>3

(* Every step preserves the invariant.                                     *)
LEMMA NextExit == ExitInv /\ [Next]_vars => ExitInv'
<1> SUFFICES ASSUME ExitInv, [Next]_vars PROVE ExitInv'
  OBVIOUS
<1> USE DEF managerVars, httpVars, vars
<1>1. CASE Listen
  BY <1>1, QuietStep DEF Listen, Proceed, Running
<1>2. CASE ListenFails
  BY <1>2, QuietStep DEF ListenFails
<1>3. CASE LaunchServe
  BY <1>3, QuietStep DEF LaunchServe
<1>4. CASE Notify
  BY <1>4, QuietStep DEF Notify
<1>5. CASE ReceiveSignal
  BY <1>5, QuietStep DEF ReceiveSignal, Proceed, Running
<1>6. CASE ShutdownSucceeds
  BY <1>6, QuietStep DEF ShutdownSucceeds
<1>7. CASE ShutdownTimesOut
  BY <1>7, QuietStep DEF ShutdownTimesOut
<1>8. CASE Signal
  BY <1>8, QuietStep DEF Signal
<1>9. CASE ServeBegins \/ AcceptFails \/ \E r \in Requests : Arrive(r) \/ Finish(r)
  <2>1. UNCHANGED <<managerVars, main, current, exit>>
    BY <1>9 DEF ServeBegins, AcceptFails, Arrive, Finish
  <2>2. listener = "closed" => listener' = "closed"
    BY <1>9 DEF ServeBegins, AcceptFails, Arrive, Finish
  <2>3. QED
    BY <2>1, <2>2, QuietStep
<1>10. CASE BackgroundLoop
  BY <1>10, QuietStep
  DEF BackgroundLoop, M!LoopTick, M!LoopSweep, M!LoopExit, M!mapVars, M!countVars, M!jobVars
<1>11. CASE UNCHANGED vars
  BY <1>11, QuietStep
<1>12. QED
  BY <1>1, <1>2, <1>3, <1>4, <1>5, <1>6, <1>7, <1>8, <1>9, <1>10, <1>11,
     RegisterStep, CleaningStep, ClosingStep
  DEF Next, MainStep

(* The invariant holds of every reachable state.                           *)
LEMMA ExitInvariant == Spec => []ExitInv
BY InitExit, NextExit, PTL DEF Spec

(* A process that ends with status 0 has run the cleanup of everything it  *)
(* registered once, has closed its listener, has told the background loop  *)
(* to end and drops no request, for any number of requests.                *)
THEOREM ExitIsClean == Spec => []CleanExit
<1>1. P!IInv /\ ExitInv /\ DrainInv => CleanExit
  <2> SUFFICES ASSUME P!IInv, ExitInv, DrainInv, exit = "ok"
               PROVE  /\ total = 3 /\ \A r \in 1 .. 3 : retired[r] = 1
                      /\ listener = "closed" /\ cancelled /\ requests = {}
    BY DEF CleanExit
  <2>1. total = 3 /\ Entries(0, 0, 0) /\ cancelled /\ replaced = {} /\ listener = "closed"
    BY DEF ExitInv, MapTypes, Progress, ClosedInv
  <2>2. P!InMap = {0}
    BY <2>1, ServerAssumption DEF ServerAssumption, P!InMap, Entries
  <2>3. \A r \in 1 .. 3 : retired[r] \in Nat /\ retired[r] <= 1
    BY DEF P!IInv, P!TypeOK, P!RetiredOnce, P!Resource
  <2>4. \A r \in 1 .. 3 : retired[r] > 0
    BY <2>1, <2>2 DEF P!IInv, P!NothingForgotten
  <2>5. \A r \in 1 .. 3 : retired[r] = 1
    BY <2>3, <2>4
  <2>6. requests = {}
    BY DEF DrainInv
  <2>7. QED
    BY <2>1, <2>5, <2>6
<1>2. QED
  BY <1>1, ManagerInvariant, ExitInvariant, DrainInvariant, PTL

-----------------------------------------------------------------------------
(* A signal ends the process: the safety part of SignalEndsProcess.        *)

\* How far the main goroutine has come.
Line == [label \in Label |->
    CASE label = "start" -> 0
      [] label = "registering" -> 1
      [] label = "listen" -> 2
      [] label = "register listener" -> 3
      [] label = "serve" -> 4
      [] label = "notify" -> 5
      [] label = "waiting" -> 6
      [] label = "shutdown" -> 7
      [] label = "clean up" -> 8
      [] label = "cleaning up" -> 9
      [] label = "close" -> 10
      [] label = "closing" -> 11
      [] label = "exited" -> 12]

\* The main goroutine goes on to a later line, or uses up one of the steps of
\* the manager's operation it is in.
Advances ==
    \/ Line[main'] > Line[main]
    \/ main' = main /\ P!Busy(Main) /\ P!ToReturn(Main)' < P!ToReturn(Main)
    \/ main' = main /\ main = "close" /\ pc[Main] = "idle" /\ pc'[Main] = "closing"

\* What other goroutines leave alone, unless they end the process.
Stays == main' = main /\ pc'[Main] = pc[Main] /\ P!ToReturn(Main)' = P!ToReturn(Main)

\* Nobody else holds the lock that the main goroutine is about to take, and it
\* is not about to take one that it holds.
LockIsThere ==
    /\ main \notin {"cleaning up", "closing", "exited"} => writer = None
    /\ main \in {"cleaning up", "closing"} => writer = Main /\ P!Busy(Main)

(* The lines in their order. *)
LEMMA Lines ==
    /\ Line["start"] = 0 /\ Line["registering"] = 1 /\ Line["listen"] = 2
    /\ Line["register listener"] = 3 /\ Line["serve"] = 4 /\ Line["notify"] = 5
    /\ Line["waiting"] = 6 /\ Line["shutdown"] = 7 /\ Line["clean up"] = 8
    /\ Line["cleaning up"] = 9 /\ Line["close"] = 10 /\ Line["closing"] = 11
    /\ Line["exited"] = 12
BY DEF Line, Label

(* Every step of the main goroutine takes it nearer to the end.            *)
LEMMA MainAdvances == ASSUME P!IInv, ExitInv, Next, MainStep PROVE Advances
<1> USE DEF Proceed, Running, Exit, Advances
<1>1. CASE \/ RegisterHTTP \/ RegisterCollector \/ Listen \/ ListenFails
           \/ RegisterListener \/ LaunchServe
  <2>1. \/ main = "start" /\ main' = "registering"
        \/ main = "registering" /\ main' = "listen"
        \/ main = "listen" /\ main' \in {"register listener", "exited"}
        \/ main = "register listener" /\ main' = "serve"
        \/ main = "serve" /\ main' = "notify"
    BY <1>1
    DEF RegisterHTTP, RegisterCollector, Listen, ListenFails, RegisterListener, LaunchServe
  <2>2. \/ Line[main] = 0 /\ Line[main'] = 1
        \/ Line[main] = 1 /\ Line[main'] = 2
        \/ Line[main] = 2 /\ Line[main'] \in {3, 12}
        \/ Line[main] = 3 /\ Line[main'] = 4
        \/ Line[main] = 4 /\ Line[main'] = 5
    BY <2>1, Lines, Zenon
  <2>3. QED
    BY <2>2
<1>2. CASE \/ Notify \/ ReceiveSignal \/ ShutdownSucceeds \/ ShutdownTimesOut
           \/ CleanUp \/ CleanedUp \/ CloseCleansUp \/ Closed
  <2>1. \/ main = "notify" /\ main' = "waiting"
        \/ main = "waiting" /\ main' = "shutdown"
        \/ main = "shutdown" /\ main' \in {"clean up", "exited"}
        \/ main = "clean up" /\ main' = "cleaning up"
        \/ main = "cleaning up" /\ main' = "close"
        \/ main = "close" /\ main' = "closing"
        \/ main = "closing" /\ main' = "exited"
    BY <1>2
    DEF Notify, ReceiveSignal, ShutdownSucceeds, ShutdownTimesOut, CleanUp, CleanedUp,
        CloseCleansUp, Closed
  <2>2. \/ Line[main] = 5 /\ Line[main'] = 6
        \/ Line[main] = 6 /\ Line[main'] = 7
        \/ Line[main] = 7 /\ Line[main'] \in {8, 12}
        \/ Line[main] = 8 /\ Line[main'] = 9
        \/ Line[main] = 9 /\ Line[main'] = 10
        \/ Line[main] = 10 /\ Line[main'] = 11
        \/ Line[main] = 11 /\ Line[main'] = 12
    BY <2>1, Lines, Zenon
  <2>3. QED
    BY <2>2
<1>3. CASE CloseManager
  BY <1>3 DEF CloseManager, M!Close, M!Goto, ExitInv, MapTypes
<1>4. CASE CleanupEnds \/ CountCleanup \/ \E id \in Ids : CleanUpResource(id)
  <2>1. main' = main
    BY <1>4 DEF CleanupEnds, CountCleanup, CleanUpResource
  <2>2. M!Step(Main)
    <3>1. CleanupEnds => \E how \in M!Outcome : M!CleanupReturns(Main, how)
      BY DEF CleanupEnds, M!Outcome
    <3>2. QED
      BY <1>4, <3>1 DEF CountCleanup, CleanUpResource, M!Step
  <2>3. P!Step(Main)
    BY <2>2, SameStep
  <2>4. QED
    BY <2>1, <2>3, ManagerConstants, P!StepReturns DEF P!IInv
<1>5. QED
  BY <1>1, <1>2, <1>3, <1>4 DEF MainStep

(* The other goroutines and the world leave it where it is, or end it.     *)
LEMMA OthersStay == ASSUME Next, ~MainStep PROVE Stays \/ main' = "exited"
<1>1. UNCHANGED <<resources, pc, writer, todo>> /\ (main' = main \/ main' = "exited")
  BY DEF Next, ServeBegins, AcceptFails, Arrive, Finish, Signal, Exit, BackgroundLoop,
         managerVars, M!LoopTick, M!LoopSweep, M!LoopExit, M!mapVars, M!countVars, M!jobVars
<1>2. QED
  BY <1>1 DEF Stays, P!ToReturn, P!Waiting

(* For any number of requests: the main goroutine only moves forward, in   *)
(* finitely many steps; nobody takes one away from it but a signal that    *)
(* ends the process; and it never waits for the manager's lock.            *)
THEOREM MainRunsOut ==
    Spec => []LockIsThere /\ [][IF MainStep THEN Advances ELSE Stays \/ main' = "exited"]_vars
<1>1. P!IInv /\ ExitInv => LockIsThere
  BY DEF P!IInv, P!TypeOK, P!Label, P!Busy, ExitInv, MapTypes, Progress, Idle, Label, LockIsThere
<1>2. P!IInv /\ ExitInv /\ [Next]_vars =>
        [IF MainStep THEN Advances ELSE Stays \/ main' = "exited"]_vars
  BY MainAdvances, OthersStay
<1>3. QED
  BY <1>1, <1>2, ManagerInvariant, ExitInvariant, PTL DEF Spec

-----------------------------------------------------------------------------
(* Types.                                                                  *)

\* What TypeOK says beside the manager's types.
OwnTypes ==
    /\ main \in Label
    /\ serve \in {"none", "launched", "accepting", "returned"}
    /\ listener \in {"none", "open", "closed"}
    /\ shut \in BOOLEAN
    /\ requests \subseteq Requests
    /\ signal \in BOOLEAN
    /\ current \in Ids \cup {None}
    /\ errors \subseteq Ids
    /\ exit \in {"none", "killed", "failed", "ok"}
    /\ main = "exited" <=> exit # "none"

(* At first everything has its type. *)
LEMMA InitTypes == Init => OwnTypes
BY DEF Init, OwnTypes, Label

(* Every step leaves the server's own variables within their types.        *)
LEMMA NextTypes == OwnTypes /\ [Next]_vars => OwnTypes'
<1> SUFFICES ASSUME OwnTypes, [Next]_vars PROVE OwnTypes'
  OBVIOUS
<1> USE DEF OwnTypes, Label, Proceed, Running, Exit, httpVars
<1>1. CASE RegisterHTTP \/ RegisterCollector \/ RegisterListener
  BY <1>1 DEF RegisterHTTP, RegisterCollector, RegisterListener, Register
<1>2. CASE Listen \/ ListenFails \/ LaunchServe \/ Notify
  BY <1>2 DEF Listen, ListenFails, LaunchServe, Notify
<1>3. CASE ReceiveSignal \/ ShutdownSucceeds \/ ShutdownTimesOut
  BY <1>3 DEF ReceiveSignal, ShutdownSucceeds, ShutdownTimesOut
<1>4. CASE CleanUp \/ CountCleanup \/ CleanedUp \/ CloseManager \/ CloseCleansUp \/ Closed
  BY <1>4 DEF CleanUp, CountCleanup, CleanedUp, CloseManager, CloseCleansUp, Closed
<1>5. ASSUME NEW id \in Ids, CleanUpResource(id) PROVE OwnTypes'
  BY <1>5 DEF CleanUpResource
<1>6. CASE CleanupEnds
  BY <1>6, ServerAssumption DEF CleanupEnds, CleanupFails, ServerAssumption
<1>7. CASE ServeBegins \/ AcceptFails \/ \E r \in Requests : Arrive(r) \/ Finish(r)
  BY <1>7 DEF ServeBegins, AcceptFails, Arrive, Finish
<1>8. CASE Signal \/ BackgroundLoop \/ UNCHANGED vars
  BY <1>8 DEF Signal, BackgroundLoop, vars
<1>9. QED
  BY <1>1, <1>2, <1>3, <1>4, <1>5, <1>6, <1>7, <1>8 DEF Next, MainStep

(* The variables of the server and of the manager inside it keep their     *)
(* types, and the process ends when its main goroutine does.               *)
THEOREM TypeCorrect == Spec => []TypeOK
<1>1. P!IInv => M!TypeOK
  BY DEF P!IInv, P!TypeOK, M!TypeOK, P!Outcome, M!Outcome, P!Resource, M!Resource,
         P!Label, M!Label
<1>2. M!TypeOK /\ OwnTypes => TypeOK
  BY DEF OwnTypes, TypeOK
<1>3. QED
  BY <1>1, <1>2, InitTypes, NextTypes, ManagerInvariant, PTL DEF Spec
=============================================================================
