------------------------------- MODULE Server -------------------------------
(***************************************************************************)
(* The life of the process: Start, WaitForShutdown and Stop of             *)
(* src/server/server.go, as main.go runs them, over the resource manager.  *)
(*                                                                         *)
(* The main goroutine is the only caller of the manager, whose steps are   *)
(* those of ResourceManager; what a cleanup does, and whether it fails, is *)
(* decided here. The goroutine that serves, the requests and the signals   *)
(* come and go meanwhile. http.Server is modelled from how it is used:     *)
(* Shutdown closes the listener if Serve has announced it, turns Serve     *)
(* away if it has not, and returns when no request is left or when the     *)
(* context of 30 seconds is done.                                          *)
(***************************************************************************)
EXTENDS Integers

CONSTANTS
    Requests,   \* requests that may be in flight
    Ids,        \* the three ids of the resources
    HTTP, Collector, Listener,
    Main,       \* the goroutine of main
    None        \* no goroutine

ASSUME ServerAssumption ==
    /\ Ids = {HTTP, Collector, Listener}
    /\ HTTP # Collector /\ HTTP # Listener /\ Collector # Listener
    /\ Main # None

VARIABLES
    resources, total, stats, writer, cancelled, loop, pc, target, todo,
    outcome, read, retired, replaced, unlocked, ended,  \* of the manager
    main,       \* where the main goroutine is
    serve,      \* where the goroutine that calls Serve is
    listener,   \* the TCP listener: "none", "open", "closed"
    shut,       \* http.Server is shutting down
    requests,   \* requests in flight
    signal,     \* SIGINT or SIGTERM has been sent
    current,    \* id of the resource being cleaned up
    errors,     \* ids whose cleanup has failed
    exit        \* "none", or how the process ended

managerVars == <<resources, total, stats, writer, cancelled, loop, pc, target, todo,
                 outcome, read, retired, replaced, unlocked, ended>>
httpVars == <<serve, listener, shut, requests>>
vars == <<managerVars, main, httpVars, signal, current, errors, exit>>

M == INSTANCE ResourceManager WITH
        Callers <- {Main}, MaxResources <- 3, NoCleanup <- {}, MaxUnlocked <- 0

Label == {"start", "registering", "listen", "register listener", "serve", "notify",
          "waiting", "shutdown", "clean up", "cleaning up", "close", "closing", "exited"}

Running == exit = "none"

-----------------------------------------------------------------------------
Init ==
    /\ M!Init
    /\ main = "start"
    /\ serve = "none"
    /\ listener = "none"
    /\ shut = FALSE
    /\ requests = {}
    /\ signal = FALSE
    /\ current = None
    /\ errors = {}
    /\ exit = "none"

Proceed(from, to) == Running /\ main = from /\ main' = to

\* Mutant: main returns without ending the process.
ExitOnly(how) == UNCHANGED exit /\ main' = "exited"

Exit(how) == main' = "exited" /\ exit' = how

(* Start. *)

Register(id) ==
    /\ M!RegisterResource(Main, id)
    /\ UNCHANGED <<httpVars, signal, current, errors, exit>>

RegisterHTTP == Proceed("start", "registering") /\ Register(HTTP)

RegisterCollector == Proceed("registering", "listen") /\ Register(Collector)

Listen ==
    /\ Proceed("listen", "register listener")
    /\ listener' = "open"
    /\ UNCHANGED <<managerVars, serve, shut, requests, signal, current, errors, exit>>

\* Start returns the error, and main gives up with what it has registered.
ListenFails ==
    /\ Running /\ main = "listen"
    /\ Exit("failed")
    /\ UNCHANGED <<managerVars, httpVars, signal, current, errors>>

\* Mutant: the listener is registered under the id of the HTTP server.
RegisterListenerOverHTTP == Proceed("register listener", "serve") /\ Register(HTTP)

RegisterListener == Proceed("register listener", "serve") /\ Register(Listener)

LaunchServe ==
    /\ Proceed("serve", "notify")
    /\ serve' = "launched"
    /\ UNCHANGED <<managerVars, listener, shut, requests, signal, current, errors, exit>>

-----------------------------------------------------------------------------
(* WaitForShutdown and Stop. *)

Notify ==
    /\ Proceed("notify", "waiting")
    /\ UNCHANGED <<managerVars, httpVars, signal, current, errors, exit>>

ReceiveSignal ==
    /\ Proceed("waiting", "shutdown")
    /\ signal
    /\ shut' = TRUE
    /\ listener' = IF serve = "accepting" THEN "closed" ELSE listener
    /\ UNCHANGED <<managerVars, serve, requests, signal, current, errors, exit>>

\* Mutant: Stop goes on although Shutdown has failed.
ShutDownCareless == shut

\* Shutdown returns without an error.
ShutDown == requests = {}

ShutdownSucceeds ==
    /\ Proceed("shutdown", "clean up")
    /\ ShutDown
    /\ UNCHANGED <<managerVars, httpVars, signal, current, errors, exit>>

\* Mutant: the context of Shutdown has no deadline.
ShutdownTimesOutNever == ShutdownSucceeds

\* The 30 seconds are over: Stop returns the error and the process ends.
ShutdownTimesOut ==
    /\ Running /\ main = "shutdown"
    /\ requests # {}
    /\ Exit("failed")
    /\ UNCHANGED <<managerVars, httpVars, signal, current, errors>>

CleanUp ==
    /\ Proceed("clean up", "cleaning up")
    /\ M!CleanupAll(Main)
    /\ UNCHANGED <<httpVars, signal, current, errors, exit>>

CleanUpResource(id) ==
    /\ Running
    /\ M!Visit(Main, id)
    /\ current' = id
    /\ UNCHANGED <<main, httpVars, signal, errors, exit>>

\* Shutdown and the collector have nothing left to do; the listener cannot be
\* closed twice.
CleanupFails == current = Listener /\ listener = "closed"

CleanupEnds ==
    /\ Running
    /\ M!CleanupReturns(Main, IF CleanupFails THEN "failed" ELSE "ok")
    /\ errors' = IF CleanupFails THEN errors \cup {current} ELSE errors
    /\ listener' = IF current = Listener THEN "closed" ELSE listener
    /\ UNCHANGED <<main, serve, shut, requests, signal, current, exit>>

CountCleanup ==
    /\ Running
    /\ M!Store(Main)
    /\ UNCHANGED <<main, httpVars, signal, current, errors, exit>>

CleanedUp ==
    /\ Proceed("cleaning up", "close")
    /\ M!Remove(Main)
    /\ UNCHANGED <<httpVars, signal, current, errors, exit>>

CloseManager ==
    /\ Running /\ main = "close"
    /\ M!Close(Main)
    /\ UNCHANGED <<main, httpVars, signal, current, errors, exit>>

CloseCleansUp ==
    /\ Proceed("close", "closing")
    /\ M!CloseCleanupAll(Main)
    /\ UNCHANGED <<httpVars, signal, current, errors, exit>>

\* os.Exit(0), whatever the cleanups returned.
Closed ==
    /\ Running /\ main = "closing"
    /\ M!Remove(Main)
    /\ Exit("ok")
    /\ UNCHANGED <<httpVars, signal, current, errors>>

MainStep ==
    \/ RegisterHTTP \/ RegisterCollector \/ Listen \/ ListenFails
    \/ RegisterListener \/ LaunchServe
    \/ Notify \/ ReceiveSignal \/ ShutdownSucceeds \/ ShutdownTimesOut
    \/ CleanUp \/ (\E id \in Ids : CleanUpResource(id)) \/ CleanupEnds \/ CountCleanup
    \/ CleanedUp \/ CloseManager \/ CloseCleansUp \/ Closed

-----------------------------------------------------------------------------
(* The other goroutines and the outside world. *)

\* Serve returns at once, closing the listener, if Shutdown came first.
ServeBegins ==
    /\ Running /\ serve = "launched"
    /\ serve' = IF shut THEN "returned" ELSE "accepting"
    /\ listener' = IF shut THEN "closed" ELSE listener
    /\ UNCHANGED <<managerVars, main, shut, requests, signal, current, errors, exit>>

AcceptFails ==
    /\ Running /\ serve = "accepting"
    /\ listener = "closed"
    /\ serve' = "returned"
    /\ UNCHANGED <<managerVars, main, listener, shut, requests, signal, current, errors, exit>>

Arrive(r) ==
    /\ Running /\ serve = "accepting"
    /\ listener = "open"
    /\ requests' = requests \cup {r}
    /\ UNCHANGED <<managerVars, main, serve, listener, shut, signal, current, errors, exit>>

Finish(r) ==
    /\ Running
    /\ r \in requests
    /\ requests' = requests \ {r}
    /\ UNCHANGED <<managerVars, main, serve, listener, shut, signal, current, errors, exit>>

Notified == main \notin {"start", "registering", "listen", "register listener", "serve", "notify"}

\* Until Notify the signal kills the process; then it is noted, once.
Signal ==
    /\ Running
    /\ ~signal
    /\ signal' = TRUE
    /\ IF Notified THEN UNCHANGED <<main, exit>> ELSE Exit("killed")
    /\ UNCHANGED <<managerVars, httpVars, current, errors>>

BackgroundLoop ==
    /\ Running
    /\ M!LoopTick \/ M!LoopSweep \/ M!LoopExit
    /\ UNCHANGED <<main, httpVars, signal, current, errors, exit>>

Next ==
    \/ MainStep
    \/ ServeBegins \/ AcceptFails
    \/ \E r \in Requests : Arrive(r) \/ Finish(r)
    \/ Signal
    \/ BackgroundLoop

Spec == Init /\ [][Next]_vars

(***************************************************************************)
(* The main goroutine runs. It waits for nothing but a signal and, for 30  *)
(* seconds, the requests, which need not ever end.                         *)
(***************************************************************************)
FairSpec == Spec /\ WF_vars(MainStep)

-----------------------------------------------------------------------------
(* Variables within their types; the process has ended when main has.      *)
TypeOK ==
    /\ M!TypeOK
    /\ main \in Label
    /\ serve \in {"none", "launched", "accepting", "returned"}
    /\ listener \in {"none", "open", "closed"}
    /\ shut \in BOOLEAN
    /\ requests \subseteq Requests
    /\ signal \in BOOLEAN
    /\ current \in Ids \cup {None}
    /\ errors \subseteq Ids
    /\ exit \in {"none", "killed", "failed", "ok"}
    /\ main = "exited" <=> exit # "none"

(* No cleanup begins while a request is in flight, and none arrives after: *)
(* Stop cleans up after Shutdown has succeeded, whether the signal came    *)
(* before or after the goroutine of line 193 has called Serve.             *)
DrainedBeforeCleanup ==
    main \in {"clean up", "cleaning up", "close", "closing"} =>
        /\ shut
        /\ requests = {}

(* A process that ends with status 0 has run the cleanup of everything it  *)
(* registered, once though Stop calls CleanupAll twice, has closed its     *)
(* listener and told the background loop to end, and drops no request.     *)
CleanExit ==
    exit = "ok" =>
        /\ total = 3 /\ \A r \in 1 .. 3 : retired[r] = 1
        /\ listener = "closed"
        /\ cancelled
        /\ requests = {}

(* A signal ends the process, whatever the requests do. *)
SignalEndsProcess == signal ~> exit # "none"

(* The server uses the manager as ResourceManager allows, so that what is  *)
(* proved of the manager holds in the server.                              *)
ManagerSpec == M!Spec
=============================================================================
