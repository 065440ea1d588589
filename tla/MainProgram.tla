----------------------------- MODULE MainProgram -----------------------------
(***************************************************************************)
(* src/main.go from the command line to the exit status: the layers of the *)
(* configuration, which src/config/config.go merges and validates, the     *)
(* start of the server of src/server/server.go, and the panic recovery     *)
(* around it all, whose steps are those of PanicHandler.                   *)
(*                                                                         *)
(* A value is the layer it comes from and what the program can tell of it. *)
(* The two panic handlers of main.go are one here: what either counts is   *)
(* in recovered. What happens from a signal on is the subject of Server.   *)
(***************************************************************************)
EXTENDS PanicHandler

CONSTANTS
    Fields,     \* the fields of a configuration
    Main        \* the main goroutine

ASSUME MainAssumption ==
    /\ {"path", "mount_points", "level"} \subseteq Fields
    /\ Fields \subseteq {"host", "port", "path", "mount_points", "interval", "level", "format"}
    /\ Main \in Goroutines
    /\ None \notin 0 .. 2

VARIABLES
    main,       \* where the main goroutine is
    flags,      \* the command line
    env,        \* the environment
    file,       \* what the file read sets
    config,     \* cfg
    listener,   \* "none", "open", or "closed" with the process
    trouble,    \* history: what the world has refused
    exit        \* None or the exit status

inputVars == <<flags, env>>
panicVars == vars
mainVars == <<panicVars, main, inputVars, file, config, listener, trouble, exit>>

-----------------------------------------------------------------------------
(* The layers. A field is unset, or set to a value that Validate accepts   *)
(* or not, that cannot be parsed, or that is a path the server has already *)
(* given to another handler, or that is no pattern at all.                 *)

FileKinds(f) ==
    {"unset", "valid"} \cup (IF f = "host" THEN {} ELSE {"invalid"})
                       \cup (IF f = "path" THEN {"taken"} ELSE {})

EnvKinds(f) ==
    IF f \in {"port", "interval"} THEN FileKinds(f) \cup {"garbled"}
    ELSE IF f \in {"host", "path", "level"} THEN FileKinds(f)
    ELSE {"unset"}

Kinds == {"unset", "valid", "invalid", "taken", "garbled"}

Layers(Of(_)) == {l \in [Fields -> Kinds] : \A f \in Fields : l[f] \in Of(f)}

Nothing == [f \in Fields |-> "unset"]

Default == [f \in Fields |->
    [from |-> "default", kind |-> IF f = "mount_points" THEN "invalid" ELSE "valid"]]

\* Mutant: what an earlier layer has set is left alone.
OverlaidOnDefaults(cfg, layer, name) ==
    [f \in Fields |-> IF layer[f] = "unset" \/ cfg[f].from # "default"
                      THEN cfg[f] ELSE [from |-> name, kind |-> layer[f]]]

Overlaid(cfg, layer, name) ==
    [f \in Fields |-> IF layer[f] = "unset"
                      THEN cfg[f] ELSE [from |-> name, kind |-> layer[f]]]

\* Mutant: the defaults are taken to be valid.
RejectedSet == \E f \in Fields : config[f].from # "default" /\ config[f].kind = "invalid"

Rejected == \E f \in Fields : config[f].kind = "invalid"

-----------------------------------------------------------------------------
MainInit ==
    /\ Init /\ enabled /\ handlers = [array |-> 2, len |-> 2]
    /\ main = "begin"
    /\ flags \in [ask : {"run", "help", "usage", "nonsense"}, named : BOOLEAN,
                  level : {"unset", "valid", "invalid"}]
    /\ env \in Layers(EnvKinds)
    /\ file = Nothing
    /\ config = Default
    /\ listener = "none"
    /\ trouble = "none"
    /\ exit = None

Proceed(from, to) == exit = None /\ main = from /\ main' = to

Exit(status) == exit' = status

DeferGlobalRecover ==
    /\ Proceed("begin", "guard")
    /\ DeferRecover(Main)
    /\ UNCHANGED <<inputVars, file, config, listener, trouble, exit>>

EnterGuard ==
    /\ Proceed("guard", "parse flags") \/ Proceed("start", "set up routes")
    /\ Call(Main)
    /\ UNCHANGED <<inputVars, file, config, listener, trouble, exit>>

\* flag.Parse ends the process itself: with 2, or with 0 for -h, which is no
\* flag of the program. Help stands for the version, too.
RejectFlags ==
    /\ Proceed("parse flags", "exited")
    /\ \/ flags.ask = "nonsense" /\ Exit(2)
       \/ flags.ask = "usage" /\ Exit(0)
    /\ UNCHANGED <<panicVars, inputVars, file, config, listener, trouble>>

ShowHelp ==
    /\ Proceed("parse flags", "return")
    /\ flags.ask = "help"
    /\ UNCHANGED <<panicVars, inputVars, file, config, listener, trouble, exit>>

\* A file named on the command line is not looked for. If one is found, that
\* says nothing of what ReadFile will find.
FindConfigFile ==
    /\ flags.ask = "run"
    /\ \/ Proceed("parse flags", "read file")
       \/ Proceed("parse flags", "override level") /\ ~flags.named
    /\ UNCHANGED <<panicVars, inputVars, file, config, listener, trouble, exit>>

\* The defaults are returned as they are, without the environment's overrides.
FileMissing ==
    /\ Proceed("read file", "override level")
    /\ UNCHANGED <<panicVars, inputVars, file, config, listener, trouble, exit>>

FileUnusable ==
    /\ Proceed("read file", "fail")
    /\ trouble' = "file"
    /\ UNCHANGED <<panicVars, inputVars, file, config, listener, exit>>

ReadFile(layer) ==
    /\ Proceed("read file", "apply env")
    /\ file' = layer
    /\ config' = Overlaid(config, layer, "file")
    /\ UNCHANGED <<panicVars, inputVars, listener, trouble, exit>>

ApplyEnvOverrides ==
    /\ IF \E f \in Fields : env[f] = "garbled"
       THEN Proceed("apply env", "fail") /\ UNCHANGED config
       ELSE /\ Proceed("apply env", "override level")
            /\ config' = Overlaid(config, env, "env")
    /\ UNCHANGED <<panicVars, inputVars, file, listener, trouble, exit>>

OverrideLevel ==
    /\ Proceed("override level", "validate")
    /\ config' = Overlaid(config, [Nothing EXCEPT !["level"] = flags.level], "flag")
    /\ UNCHANGED <<panicVars, inputVars, file, listener, trouble, exit>>

Validate ==
    /\ IF Rejected THEN Proceed("validate", "fail") ELSE Proceed("validate", "start")
    /\ UNCHANGED <<panicVars, inputVars, file, config, listener, trouble, exit>>

-----------------------------------------------------------------------------
(* Start, and the ways out. *)

SetupRoutes ==
    /\ config["path"].kind # "taken"
    /\ Proceed("set up routes", "listen")
    /\ UNCHANGED <<panicVars, inputVars, file, config, listener, trouble, exit>>

\* Handle panics for a pattern it has or cannot parse.
RoutesPanic ==
    /\ config["path"].kind = "taken"
    /\ Proceed("set up routes", "unwind")
    /\ Panic(Main)
    /\ UNCHANGED <<inputVars, file, config, listener, trouble, exit>>

\* Start returns through the guard.
Listen ==
    /\ Proceed("listen", "wait")
    /\ listener' = "open"
    /\ Return(Main)
    /\ UNCHANGED <<inputVars, file, config, trouble, exit>>

ListenFails ==
    /\ Proceed("listen", "fail")
    /\ trouble' = "address"
    /\ Return(Main)
    /\ UNCHANGED <<inputVars, file, config, listener, exit>>

\* WaitForShutdown calls os.Exit.
ShutDown ==
    /\ Proceed("wait", "exited")
    /\ listener' = "closed"
    /\ \/ Exit(0) /\ UNCHANGED trouble
       \/ Exit(1) /\ trouble' = "shutdown"
    /\ UNCHANGED <<panicVars, inputVars, file, config>>

\* log.Fatalf runs no deferred function.
Fail ==
    /\ Proceed("fail", "exited")
    /\ Return(Main)
    /\ Exit(1)
    /\ UNCHANGED <<inputVars, file, config, listener, trouble>>

ReturnNil ==
    /\ Proceed("return", "unwind")
    /\ Return(Main)
    /\ UNCHANGED <<inputVars, file, config, listener, trouble, exit>>

\* The deferred call of Recover runs when main returns, and when it panics.
UnwindMain ==
    /\ Proceed("unwind", "unwind")
    /\ Unwind(Main) \/ RunDeferred(Main) \/ Recover(Main)
    /\ UNCHANGED <<inputVars, file, config, listener, trouble, exit>>

Leave ==
    /\ Proceed("unwind", "exited")
    /\ \/ Crash(Main) /\ Exit(2)
       \/ stack[Main] = <<>> /\ Main \notin panicking /\ Exit(0) /\ UNCHANGED panicVars
    /\ UNCHANGED <<inputVars, file, config, listener, trouble>>

MainNext ==
    \/ DeferGlobalRecover \/ EnterGuard \/ RejectFlags \/ ShowHelp
    \/ FindConfigFile \/ FileMissing \/ FileUnusable
    \/ \E layer \in Layers(FileKinds) : ReadFile(layer)
    \/ ApplyEnvOverrides \/ OverrideLevel \/ Validate
    \/ SetupRoutes \/ RoutesPanic \/ Listen \/ ListenFails \/ ShutDown
    \/ Fail \/ ReturnNil \/ UnwindMain \/ Leave

MainSpec == MainInit /\ [][MainNext]_mainVars

-----------------------------------------------------------------------------
(* docs/ARCHITECTURE.md:298: what has the highest priority is last here. *)
Documented(f) ==
    LET layers == << <<"file", file[f]>>, <<"env", env[f]>>,
                     <<"flag", IF f = "level" THEN flags.level ELSE "unset">> >>
        set == {i \in DOMAIN layers : layers[i][2] # "unset"}
    IN IF set = {} THEN Default[f]
       ELSE LET i == CHOOSE i \in set : \A k \in set : k <= i
            IN [from |-> layers[i][1], kind |-> layers[i][2]]

(* A configuration that is served is valid and has every field from the    *)
(* layer with the highest priority that sets it, although LoadFromFile     *)
(* leaves the environment out on two of its paths (config.go:59 and 65),   *)
(* although the file found may have gone when it is read (main.go:161),    *)
(* and although the level is overridden outside of it (main.go:88): what   *)
(* those paths return has no mount points, and is not served.              *)
ServedAsDocumented ==
    listener # "none" =>
        \A f \in Fields : config[f] = Documented(f) /\ config[f].kind = "valid"

Panicked == flags.ask = "run" /\ exit = 2

(* The exit status tells how the program ended, whatever layer the cause   *)
(* is in: an error ends it with 1, before anything listens if it is the    *)
(* configuration's; a path that the server uses itself (server.go:66) gets *)
(* past Validate and past both guards, and ends it as a panic. The         *)
(* statistics count that panic, and one when main returns without any      *)
(* (main.go:34), and none when Fatalf or os.Exit ends it, also that of     *)
(* flag.Parse.                                                             *)
ExitExplained ==
    exit # None =>
        /\ exit = IF flags.ask = "nonsense" THEN 2
                  ELSE IF flags.ask \in {"help", "usage"} THEN 0
                  ELSE IF \/ trouble # "none"
                          \/ \E f \in Fields : Documented(f).kind \in {"invalid", "garbled"}
                       THEN 1
                  ELSE IF Documented("path").kind = "taken" THEN 2 ELSE 0
        /\ recovered = 1 <=> Panicked \/ flags.ask = "help"
        /\ listener # "none" <=> /\ flags.ask = "run"
                                 /\ exit = 0 \/ trouble = "shutdown"
=============================================================================
