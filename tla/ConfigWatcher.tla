---------------------------- MODULE ConfigWatcher ----------------------------
(***************************************************************************)
(* The configuration watcher of src/config/config.go: a loop that compares *)
(* the modification time of the file with the last one it saw, reloads the *)
(* file when it is newer, and launches the registered callbacks.           *)
(*                                                                         *)
(* The file is changed by somebody else at any time: between the load at   *)
(* start-up and the first Stat, and between the Stat and the read of one   *)
(* reload. A file is its modification time and a content, of which the     *)
(* model knows whether LoadFromFile and Validate accept it. A torn write   *)
(* is a write of a content they reject followed by one they accept. A file *)
(* that is moved or copied there may bring an older time (mv, cp -p).      *)
(* The history variable missed says that the loop cannot know of the       *)
(* present content: it came before the first Stat, or with a time that is  *)
(* not newer than the last the loop saw, older ones included, or reading   *)
(* it failed.                                                              *)
(***************************************************************************)
EXTENDS Integers, FiniteSets

CONSTANTS
    Contents,       \* contents of the file
    Valid,          \* those LoadFromFile and Validate accept
    Missing,        \* no file there
    Loops,          \* goroutines that Watch can start: bounds the restarts
    Listeners,      \* callbacks that may be added
    MaxLaunched,    \* callback goroutines of one kind not yet run, at most
    MaxTime         \* modification times are 1 .. MaxTime: bounds the reloads

ASSUME WatcherAssumption ==
    /\ Valid \subseteq Contents
    /\ Missing \notin Contents
    /\ MaxLaunched \in Nat \ {0}
    /\ MaxTime \in Nat \ {0}

VARIABLES
    content,    \* the file's content, or Missing
    mtime,      \* its modification time
    missed,     \* history: the watcher has lost track of the content
    config,     \* content of cw.config
    running,    \* cw.running
    cancelled,  \* cw.ctx is done
    pc,         \* where each loop is
    lastMod,    \* lastModTime of each loop; 0 is the zero time
    loaded,     \* newConfig of each loop
    callbacks,  \* cw.callbacks
    launched,   \* launched[f][c]: calls of f with c that have not run
    heard       \* the configuration each callback last ran with

fileVars == <<content, mtime, missed>>
loopVars == <<pc, lastMod, loaded>>
vars == <<fileVars, config, running, cancelled, loopVars, callbacks, launched, heard>>

Label == {"unborn", "starting", "selecting", "reloading", "updating", "exited"}

-----------------------------------------------------------------------------
\* The watcher is made with the configuration just loaded from the file.
Init ==
    /\ content \in Valid
    /\ mtime = 1
    /\ missed = FALSE
    /\ config = content
    /\ running = FALSE
    /\ cancelled = FALSE
    /\ pc = [l \in Loops |-> "unborn"]
    /\ lastMod = [l \in Loops |-> 0]
    /\ loaded = [l \in Loops |-> content]
    /\ callbacks = {}
    /\ launched = [f \in Listeners |-> [c \in Contents |-> 0]]
    /\ heard = [f \in Listeners |-> Missing]

Goto(l, label) == pc' = [pc EXCEPT ![l] = label]

-----------------------------------------------------------------------------
(* The file system. *)

\* Loops that take the time t for one they have seen.
SeenBy(t) == {l \in Loops : t <= lastMod[l] /\ pc[l] # "reloading"}

Watched == \E l \in Loops : pc[l] \notin {"unborn", "starting"}

\* The file is written, removed or replaced by a file of any time. A loop
\* about to read it will read the new content, whatever its time.
Change ==
    /\ content' \in Contents \cup {Missing}
    /\ mtime' \in 1 .. MaxTime
    /\ missed' = (~Watched \/ SeenBy(mtime') # {})
    /\ UNCHANGED <<config, running, cancelled, loopVars, callbacks, launched, heard>>

-----------------------------------------------------------------------------
(* The methods of ConfigWatcher. *)

AddCallback(f) ==
    /\ f \notin callbacks
    /\ callbacks' = callbacks \cup {f}
    /\ UNCHANGED <<fileVars, config, running, cancelled, loopVars, launched, heard>>

\* Mutant: the flag is not looked at.
MayWatchTwice == TRUE

MayWatch == ~running

\* Watch on a running watcher is an error and changes nothing.
Watch(l) ==
    /\ MayWatch
    /\ pc[l] = "unborn"
    /\ running' = TRUE
    /\ Goto(l, "starting")
    /\ UNCHANGED <<fileVars, config, cancelled, lastMod, loaded, callbacks, launched, heard>>

\* The context of the watcher is made once, and cancelled for good.
Stop ==
    /\ running
    /\ cancelled' = TRUE
    /\ running' = FALSE
    /\ UNCHANGED <<fileVars, config, loopVars, callbacks, launched, heard>>

-----------------------------------------------------------------------------
(* watchLoop and reloadConfig. *)

InitialStat(l) ==
    /\ pc[l] = "starting"
    /\ lastMod' = [lastMod EXCEPT ![l] = IF content = Missing THEN 0 ELSE mtime]
    /\ Goto(l, "selecting")
    /\ UNCHANGED <<fileVars, config, running, cancelled, loaded, callbacks, launched, heard>>

\* Mutant: the loop asks for the flag that Watch sets again.
AskedToExitByFlag == ~running

AskedToExit == cancelled

Exit(l) ==
    /\ pc[l] = "selecting"
    /\ AskedToExit
    /\ Goto(l, "exited")
    /\ UNCHANGED <<fileVars, config, running, cancelled, lastMod, loaded, callbacks, launched, heard>>

\* The ticker fires and the file is newer. It may also fire when the context
\* is done: select takes either case. A file that is missing, or not newer,
\* changes nothing.
TickStat(l) ==
    /\ pc[l] = "selecting"
    /\ content # Missing
    /\ mtime > lastMod[l]
    /\ lastMod' = [lastMod EXCEPT ![l] = mtime]
    /\ Goto(l, "reloading")
    /\ UNCHANGED <<fileVars, config, running, cancelled, loaded, callbacks, launched, heard>>

\* Mutant: the reloaded configuration is not validated.
AcceptedUnchecked(c) == c \in Contents

Accepted(c) == c \in Valid

\* LoadFromFile and Validate accept what the file holds by now.
Load(l) ==
    /\ pc[l] = "reloading"
    /\ Accepted(content)
    /\ loaded' = [loaded EXCEPT ![l] = content]
    /\ Goto(l, "updating")
    /\ UNCHANGED <<fileVars, config, running, cancelled, lastMod, callbacks, launched, heard>>

\* Mutant: a rejected file ends the loop.
LoadFailsForGood(l) ==
    /\ pc[l] = "reloading"
    /\ Goto(l, "exited")
    /\ UNCHANGED <<fileVars, config, running, cancelled, lastMod, loaded, callbacks, launched, heard>>

\* They reject it (a missing file loads the defaults, which have no mount
\* points), or the read fails. The loop goes on, and lastModTime stays.
LoadFails(l) ==
    /\ pc[l] = "reloading"
    /\ missed' = (missed \/ (Accepted(content) /\ mtime <= lastMod[l]))
    /\ Goto(l, "selecting")
    /\ UNCHANGED <<content, mtime, config, running, cancelled, lastMod, loaded, callbacks, launched, heard>>

\* Mutant: the modification time is taken after the reload, not before it.
UpdateRestats(l) ==
    /\ pc[l] = "updating"
    /\ config' = loaded[l]
    /\ lastMod' = [lastMod EXCEPT ![l] = mtime]
    /\ Goto(l, "selecting")
    /\ UNCHANGED <<fileVars, running, cancelled, loaded, callbacks, launched, heard>>

\* Under the read lock of the watcher and the configuration's own lock: it is
\* replaced, and every callback gets a goroutine and a copy.
Update(l) ==
    /\ pc[l] = "updating"
    /\ config' = loaded[l]
    /\ \A f \in callbacks : launched[f][loaded[l]] < MaxLaunched
    /\ launched' = [f \in Listeners |->
            IF f \in callbacks THEN [launched[f] EXCEPT ![loaded[l]] = @ + 1]
            ELSE launched[f]]
    /\ Goto(l, "selecting")
    /\ UNCHANGED <<fileVars, running, cancelled, lastMod, loaded, callbacks, heard>>

\* Mutant: a callback runs that was not launched.
DueAlways(f, c) == TRUE

Due(f, c) == launched[f][c] > 0

RunCallback(f, c) ==
    /\ Due(f, c)
    /\ launched' = [launched EXCEPT ![f][c] = @ - 1]
    /\ heard' = [heard EXCEPT ![f] = c]
    /\ UNCHANGED <<fileVars, config, running, cancelled, loopVars, callbacks>>

Step(l) ==
    InitialStat(l) \/ Exit(l) \/ TickStat(l) \/ Load(l) \/ LoadFails(l) \/ Update(l)

Next ==
    \/ Change
    \/ \E f \in Listeners : AddCallback(f)
    \/ \E l \in Loops : Watch(l) \/ Step(l)
    \/ Stop
    \/ \E f \in Listeners, c \in Valid : RunCallback(f, c)

Spec == Init /\ [][Next]_vars

(***************************************************************************)
(* The loops are scheduled, their tickers fire, and the ticker of a loop   *)
(* whose context is done does not win every select. The goroutine of a     *)
(* callback runs some time, so that MaxLaunched does not stop the loop.    *)
(***************************************************************************)
FairSpec ==
    /\ Spec
    /\ \A l \in Loops : WF_vars(Step(l))
    /\ \A f \in Listeners, c \in Valid : WF_vars(RunCallback(f, c))

-----------------------------------------------------------------------------
(* Variables within their types; no callback runs more often than it was   *)
(* launched.                                                               *)
TypeOK ==
    /\ content \in Contents \cup {Missing}
    /\ mtime \in 1 .. MaxTime
    /\ missed \in BOOLEAN
    /\ config \in Contents
    /\ running \in BOOLEAN /\ cancelled \in BOOLEAN
    /\ pc \in [Loops -> Label]
    /\ lastMod \in [Loops -> 0 .. MaxTime]
    /\ loaded \in [Loops -> Contents]
    /\ callbacks \subseteq Listeners
    /\ launched \in [Listeners -> [Contents -> 0 .. MaxLaunched]]
    /\ heard \in [Listeners -> Contents \cup {Missing}]

(* However the file changes under the watcher, torn or removed, neither    *)
(* the configuration nor a callback ever sees one that was not accepted.   *)
OnlyAccepted ==
    /\ config \in Valid
    /\ \A f \in Listeners : heard[f] \in Valid \cup {Missing}

Live == {l \in Loops : pc[l] \notin {"unborn", "exited"}}

(* Until it is stopped a watcher has one loop exactly while it is running, *)
(* so that no two loops reload the file against each other.                *)
OneLoopUntilStopped ==
    ~cancelled => Cardinality(Live) = IF running THEN 1 ELSE 0

(* A loop that finds the present file no newer than the last time it saw   *)
(* has applied that file, even if it changed between the loop's Stat and   *)
(* its read (lines 267 and 268), unless it had to miss the change.         *)
SeenIsApplied ==
    ~cancelled /\ ~missed =>
        \A l \in Loops :
            pc[l] = "selecting" /\ mtime <= lastMod[l] /\ content \in Valid
                => config = content

(* A valid file that stays is applied, if the watcher keeps running and    *)
(* the file was neither changed before the first Stat (line 252), nor      *)
(* replaced under a time that is not after the last one seen (line 266),   *)
(* an older time included, nor failed to be read. ARCHITECTURE.md:234,     *)
(* from "Config File Changed" to "Apply New Config", makes no exceptions.  *)
HotReload ==
    \A c \in Valid :
        <>[](running /\ ~cancelled /\ ~missed /\ content = c) => <>[](config = c)

(* Stop ends every loop, also those of a watcher that is started again.    *)
StopEndsLoops == cancelled ~> Live = {}
=============================================================================
