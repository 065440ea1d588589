# mount-exporter in TLA+

mount-exporter is a Prometheus exporter: on every scrape it asks `findmnt`
about each configured mount point and publishes what it learns. This directory
holds TLA+ models of the parts of it that run concurrently, TLC
configurations that check them on small instances, and proofs, checked by
TLAPS, of what matters most for every value of the parameters.

All paths below are relative to `src/`, line numbers are those of the modelled
commit. The models follow the Go source, not its documents; where the two
disagree, a run expected to fail shows it (see *Where the code and its
documents part*). The committed source does not compile as it stands:
`Retry.DoWithValue[T any]` is a method with type parameters, `cleanup.go:225`
reads a field `runtime.MemStats` does not have, and some imports are unused. We
model what the statements say.

## 1. Inventory

| Component | Source | State | Operations |
|---|---|---|---|
| Circuit breaker | `reliability/circuit_breaker.go` | state, failures, lastFailTime, onStateChange, a mutex | `Execute` (`allowRequest`, fn, `recordResult`), `Reset`, getters |
| Retry | `reliability/retry.go` | configuration only | `Do`, `DoWithValue`, `calculateDelay`, `IsTransientError` |
| Findmnt wrapper | `system/findmnt.go` | a breaker, a retry, statistics under a mutex | `CheckMountPoint`, `CheckMultipleMountPoints`, `ResetCircuitBreaker`, `GetStats` |
| Configuration loading | `config/config.go` 38-199 | a `Config` | `LoadFromFile`, environment overrides, `Validate`, `Clone`, `Update` |
| Configuration watcher | `config/config.go` 202-324 | config, callbacks, running, a context, the loop's lastModTime | `AddCallback`, `Watch`, `Stop`, `watchLoop`, `reloadConfig` |
| Resource manager | `resources/cleanup.go` | a map of resources, statistics, a context, an RW lock | `RegisterResource`, `UnregisterResource`, `CleanupResource`, `CleanupAll`, `Close`, the background loop |
| Metrics collector | `metrics/collector.go` | config and wrapper under an RW lock | `Collect`, `UpdateConfig` |
| Panic recovery | `recovery/panic_recovery.go` | counts per goroutine, handlers, enabled | `Recover`, `RecoverWithFunc`, `SafeGo` |
| HTTP server | `server/server.go` | http.Server, collector, resource manager | `Start`, `Stop`, `WaitForShutdown`, handlers |
| Main program | `main.go` | none | load, validate, start, wait |

How they interact: an HTTP scrape calls `Collector.Collect`, which calls
`CheckMountPoint` for one mount point after the other; net/http runs scrapes in
goroutines of their own, so several calls of `CheckMountPoint` share one wrapper.
`CheckMountPoint` asks the breaker, then runs `findmnt` inside the breaker's
`Execute` and inside `Retry.Do`. The watcher replaces its configuration and
launches callbacks. `Server.Stop` shuts the HTTP server down and then has the
resource manager run every cleanup. In the committed program nothing starts
the watcher, and nothing calls `ResetCircuitBreaker` or
`CheckMultipleMountPoints`; tests do, and the documents describe them.

What is hard in each:

- *Breaker*: `Execute` takes the lock twice with fn between, so a result is
  recorded in a state other than the one that admitted it; callbacks run in
  goroutines of their own. Correct means: the threshold opens it, no fresh
  failure leaves it half-open, no callback is lost, it can recover.
- *Findmnt wrapper*: the breaker is asked twice (`IsOpen`, `allowRequest`) and
  the answers differ; calls past the first question add failures after the
  breaker has opened; three paths update the statistics. Correct means: every
  call is counted once, an error explains what was run, no error carries a
  status, late failures are bounded, every call returns.
- *Concurrent checks*: results arrive in any order and the caller may give up.
  Correct means: results are filed under their own index, none received is
  lost, no goroutine stays blocked.
- *Watcher*: the file changes at any time, between load and first Stat, and
  between Stat and read. Correct means: only accepted configurations are
  applied, a file that stays is applied, one loop runs, Stop ends it.
- *Resource manager*: cleanups run under the lock in two operations and outside
  it in a third. Correct means: nothing leaves the map without its cleanup,
  nothing is cleaned twice under the lock, the counters claim no more than was
  done, every operation gives the lock back.
- *Server*: a signal may come at any time, before the goroutine of line 193 has
  called `Serve` or while requests are in flight, and the requests may outlive
  the shutdown's timeout. Correct means: no cleanup while requests are served,
  everything registered is released once, a signal ends the process.
- *Collector*: scrapes share a read lock and a wrapper; an update waits for
  them and holds new ones back. Correct means: a scrape reports one
  configuration, an open breaker is not hidden by it, nobody starves.
- *Panic recovery*: a panic unwinds through guards whose deferred functions may
  panic themselves; the flag and the handlers are read without the lock. Correct
  means: every panic that is recovered is counted, and one that is not ends the
  process.
- *Retry*: delays are floats made integers, capped and then jittered. Correct
  means: waits are bounded, and what is returned says what was called.
- *Configuration loading* and *main program*: four layers, merged in different
  functions, on paths that leave some of them out. Correct means: what is served
  follows the priorities of the documents, and the exit status tells the cause.

`PROJECT.json` lists the hazards with the line where each bites.

## 2. The modules and the code

Names of actions are those of the functions they model, or say which part of
one they are. A step is what happens between two points where another goroutine
can be seen: a critical section is one step, what runs unlocked is not.

### CircuitBreaker

The state is the struct: `state`, `failures`, and `elapsed`, the ticks since
`lastFailTime`. `Execute` is two steps, since it takes the lock twice:
`Admit` or `Refuse` (`allowRequest`), and later `RecordResult` (`onSuccess`,
`onFailure`), in whatever state the breaker is by then. `SetState` launches a
callback when the state changes; `pending` counts the callbacks that have not
run, and `RunCallback` runs any of them. `seen` is what a listener that counts
arrivals and departures knows. `Reset` and the passage of time (`Tick`) complete
it.

### FindmntWrapper, CheckGate

`FindmntWrapper` contains the breaker as an instance (`CB`), and its steps that
touch it are the breaker's actions. Each caller has a program counter through
`CheckMountPoint`: `Call` (count the call), `CheckOpen` (`IsOpen`), `Admitted` or
`Refused` (`allowRequest` inside `Execute`), then the retry loop, `Attempt`,
`CommandSucceeds`, `CommandFailsTransiently`, `CommandFails`, `BackoffEnds`,
`BackoffCancelled`, then `Record` (`recordResult`) and `Count` (the statistics
on the way out). What findmnt prints is one of the outcomes `executeFindmnt`
tells apart; the mount details it parses are left out.

`CheckGate` is the abstract specification of what a caller can count on: a gate
that comes down when the last one inside leaves it down, and that only the
operator raises. `GateSpec` says that `FindmntWrapper` implements it, with the
gate down exactly when the breaker is open and nobody is past `IsOpen`.

### CheckMultipleMountPoints

One goroutine per mount point (`Check`, `Send`), the buffered channel, the
collecting loop (`Receive`, `GiveUp`, `Return`), and the context (`Cancel`). A
check is one step with either result, justified by `CallsReturn` of
`FindmntWrapper`.

### ConfigWatcher

`AddCallback`, `Watch`, `Stop`, and per loop `InitialStat`, `TickStat`, `Load` or
`LoadFails`, `Update`, `Exit`. The file is a modification time and a content,
changed by `Change` at any time and to any time, older ones included: a file that
is moved or copied there may keep its own. `missed` tells that a loop cannot know of the present content:
it came before the first Stat, its time is the last one seen or older, or reading
it failed. A configuration is known by the content it was loaded from, of which the model
knows whether `LoadFromFile` and `Validate` accept it. `launched` and
`RunCallback` are the callback goroutines, as in the breaker.

### ResourceManager

`resources` maps ids to resources, numbered in the order they were registered,
so that two that used the same id are told apart. `UnregisterResource`,
`CleanupAll` and `Close` take the lock (`Retire`), run the cleanups one by one
(`Visit`, `CleanupReturns`, `Store`), and remove the entries (`Remove`).
`CleanupResource` looks up under the lock and then runs the same
`CleanupReturns` and `Store` without it; the load and the store of a counter are
two steps, so increments can be lost, which is what the race of lines 156 and
161 can do. `LoopTick`, `LoopSweep`, `LoopExit` are the background loop.
`retired`, `replaced`, `unlocked`, `ended` are history.

### Server

Composes `ResourceManager` with the main goroutine as its only caller: `M`'s
actions do what the manager does, and `Server` decides when they are called,
what a cleanup does and whether it fails. `RegisterHTTP` to `LaunchServe` are
`Start`, `Notify` and `ReceiveSignal` `WaitForShutdown`, the rest `Stop`.
`ServeBegins`, `AcceptFails`, `Arrive`, `Finish` and `Signal` are the world:
`http.Server` is taken to do what its documentation says of `Serve` and
`Shutdown`, and requests to last as long as they like. The cleanup registered
for the HTTP server shuts down what is shut down, so it succeeds at once; that
of the listener closes what `Shutdown` has closed, so it fails, and the error is
only logged.

### Collector

`Collect`, then for each mount point a passage through `CheckMountPoint`
(`Check`) and its samples (`Export`), then `Finish`. The wrapper is an instance of
`CheckGate`, which `FindmntWrapper` is proved to implement: a scrape knows no more
of it than whether it is refused. `UpdateConfig`, `Announce`, `Replace` are
`UpdateConfig`, in the steps of Go's lock: a writer that waits holds new readers
back, and lets those in that have waited for it. `GetFindmntWrapper` takes no
lock, and resetting the breaker of a wrapper that has been replaced does nothing.

### PanicHandler

A goroutine is a stack of functions: under `RecoverWithFunc`,
`RecoverWithContext`, `SafeGo` or `SafeGoWithContext` with recovery enabled
(`guard`) or disabled (`plain`), or deferring `Recover` by hand (`record`).
`Panic` starts unwinding, `Unwind` runs a guard's deferred function, `Crash` ends
the process. `IdFound` is the question on which everything hangs: does
`getGoroutineID` return? It compares `Window` bytes with `Literal`. `LookAtFlag`,
`Lock`, `Count`, `CallHandlers` are `Recover`; the two words of the slice of
handlers are stored one by one (`StoreWord`) and read without the lock.

### MainProgram

From the command line to the exit status, one step per decision of `main`,
`runApplication`, `findConfigFile`, `LoadFromFile`, `applyEnvOverrides`, `Validate`
and `Start`. A value is the layer it comes from and what the program can tell of
it: valid, invalid, garbled (does not parse), taken (a path the server uses
itself). The module extends `PanicHandler`, whose steps are used as they are, and
is proved to implement it. `flag.Parse` may end the process itself, for an
unknown flag or for `-h`. The file found may have gone or be unusable when it is
read, and the address may be in use. `Documented` says which layer wins, from
`docs/ARCHITECTURE.md:298` and not from the functions that merge.

### Retry

One call of `Do` or `DoWithValue` (the latter is also followed in the value).
There are twice `Half` Durations, 2^64 in the code. `Product` is the exact delay, `Converted` what a
conversion of it may give: it is up to the processor when it does not fit.
Then come the cap (`Delays`), the jitter, and an addition that wraps around. A
message is known by where the patterns of `IsTransientError` occur in it, and in
which case; `Contains` is what the expression of line 287 comes to: the first
occurrence counts only if its case is right, any other in any case.

## 3. Runs

| Run | Question | Result |
|---|---|---|
| `breaker` | late results, resets, unordered callbacks | holds |
| `findmnt` | two checks at once through breaker and retries | holds |
| `findmnt_auto_reset` | does the breaker recover inside the wrapper? | no |
| `check_multiple` | results out of order, cancellation, blocking | holds |
| `watcher` | torn and missing files, any times, failing reads, early writes, restart | holds, with the misses told |
| `resources` | operations that overlap, cleanups that fail | holds |
| `server` | signals and requests at any time | holds |
| `collector` | scrapes against updates, over one breaker | holds |
| `panic` | panics under nested guards while the handler changes | holds: none is absorbed |
| `main` | every combination of layers, to the exit status | holds |
| `retry` | delays that overflow, cancellation, classification | holds |
| `retry_timed_out` | is an error that says "timed out" tried again? | no |

Each property is stated in words above its definition. Every property of a
passing run has a mutant in `PROJECT.json`: an operator next to the one it
replaces, a plausible slip of the code, under which TLC finds the property
violated.

### Bounds

- *Callers*: two. Every hazard of the breaker, the wrapper and the manager is
  between one goroutine and another that has overtaken it. The proofs cover
  any number.
- *Breaker*: threshold 2, timeout 2 ticks in its own run, 1 in the wrapper.
  `FailureCap` stops the counting of failures and `elapsed` that of ticks: the code
  compares them only with the threshold and the timeout. In the wrapper's run
  `FailureCap` lies above what `LateFailuresBounded` allows, so that
  a count above the bound would be seen.
- *`MaxPending`, `MaxLaunched`*: callback goroutines of one kind that have not run.
  A step that would launch one more waits; in the breaker's fair run the
  callbacks are scheduled, so no step waits forever.
- *`MaxAttempts`* 2 (3 in the code): a first attempt, a backoff and a last one.
- *`CounterModulus`* 2, for the 2^64 of the code: wrap-around happens at once.
- *Concurrent checks*: three, so that results may arrive in an order that is not
  the reverse either.
- *Watcher*: three contents, one rejected, and two loops. Modification times are
  1 to `MaxTime`, 3, so that a loop may see two reloads, and a change between them
  or after them may be newer, older or of the same time; since the last time seen
  only grows, `MaxTime` bounds the reloads. Reads may fail, changes may come before
  the first Stat. What the code cannot notice of these is kept in the history
  variable `missed`, and `HotReload` is about the rest.
- *Resources*: two ids, three registrations, so that an id is reused or a resource
  comes after a cleanup of everything; one resource without a cleanup; one
  `CleanupResource`, which is enough to lose an increment.
- *Server*: its three resources are the program's; two requests, so that one ends
  while another does not.
- *Collector*: two scrapes and two updates, so that each can wait for one of its
  own kind and of the other; two configurations that share one mount point.
- *Panics*: two goroutines, stacks of two, two counted calls of `Recover`, two
  handlers: enough for a guard in a guard, a lost increment and a torn slice.
- *Main*: five of the seven fields, one of each kind: `port` is parsed from the
  environment, `path` may be taken, `mount_points` has no default, `level` has a
  flag, `format` is in the file only. `host` (never rejected) and `interval` (as
  `port`) would multiply the layers and add no case.
- *Retry*: a `Half` of 128, so eight bits for 64. Delays of -40, 0, 3 and 50 with
  multipliers from a half to ten, and one below 0, and maxima of which one is below
  0 and one the longest Duration: products overflow at the second or third wait,
  and the largest maximum with its jitter.

No run uses symmetry: most have liveness properties, for which it is not sound.
Deadlock is checked in `breaker`, `findmnt`, `watcher`, `resources` and
`collector`. It is off where the system stops by itself: a call of
`CheckMultipleMountPoints` or `Do` returns, a process ends.

### Fairness

- `CircuitBreaker`: the clock advances, a called function returns (findmnt is run
  with a timeout), goroutines of callbacks are scheduled, some caller keeps
  calling (scrapes do). Nobody is obliged to call `Reset`.
- `FindmntWrapper`: a goroutine inside `CheckMountPoint` goes on, since it never
  waits for another; nobody is obliged to call, except in `BusySpec`, which gives
  `AutoReset` the best chance.
- `CheckMultipleMountPoints`: checks end, goroutines are scheduled; nobody is
  obliged to cancel.
- `ConfigWatcher`: a loop goes on. `select` chooses among ready cases at random, so
  a done context is not passed over for ever: that is weak fairness of the loop's
  step taken together with `MaxTime`: the last time seen only grows, so that in the
  end no tick finds anything newer; `StopEndsLoops` needs no more.
- `ResourceManager`: a cleanup returns, the lock goes to whoever waits for it
  (`sync.RWMutex` lets no waiter starve, hence strong fairness), and `select` does
  not ignore a ready case for ever.
- `Collector`: a scrape goes on, since checks return (`CallsReturn`); the mutex
  among writers goes to whoever has waited long (Go's starvation mode, hence
  strong fairness); nobody is obliged to scrape or to update.
- `PanicHandler`: a goroutine that panics is unwound; the mutex does not starve.
  Nobody is obliged to return or to panic.
- `MainProgram`, `Retry`: none, they are checked for safety.
- `Server`: the main goroutine runs. Requests need not end, `Serve` need not be
  scheduled, and no signal need come.

## 4. Proofs

Eight modules hold theorems, for every value of the constants that meets the
named assumption of the module they are about (`BreakerAssumption`,
`WrapperAssumption`, `CountAssumption`, `WatcherAssumption`, `ManagerAssumption`,
`ServerAssumption`, `CollectorAssumption`, `PanicAssumption`, `MainAssumption`,
`RetryAssumption`: thresholds positive, sets of goroutines finite, names distinct,
the fields those of the program). TLC evaluates each of them in a run.

| Module | Proved of `Spec` |
|---|---|
| `CircuitBreaker_proofs` | `TypeOK`, `ClosedBelowThreshold`, `HalfOpenQuiet`, `CallbackBalance` |
| `FindmntWrapper_proofs` | the wrapper is a circuit breaker (`CB!Spec`), `TypeOK`, `OutcomeExplained`, `StatsConserved`, `LateFailuresBounded`, that it implements `CheckGate`, and `CallsRunOut`; of `RetrySpec`: `DoExplained`, `WaitBounded` |
| `CheckMultipleMountPoints_proofs` | `TypeOK`, `OwnResult`, `ReceivedIsKept`, `NobodyIsStuck`, `StepsRunOut` |
| `ConfigWatcher_proofs` | `TypeOK`, `OnlyAccepted`, `OneLoopUntilStopped`, `SeenIsApplied` |
| `ResourceManager_proofs` | `TypeOK`, `NothingForgotten`, `RetiredOnce`, `StatsHonest`, `OperationsRunOut` |
| `Server_proofs` | the server uses the manager as `ResourceManager` says (`M!Spec`), `TypeOK`, `DrainedBeforeCleanup`, `CleanExit`, `MainRunsOut` |
| `Collector_proofs` | `TypeOK`, `ScrapeIsOfOneConfig`, `OpenBreakerFailsAll`, `UpdatesAreNotOvertaken`, `ScrapesRunOut` |
| `MainProgram_proofs` | of `PanicHandler`: `TypeOK`, `EveryRecoverCounted`, `NothingAbsorbed`, `PanicsRunOut`; of `MainSpec`: that it implements `PanicHandler`, `ServedAsDocumented`, `ExitExplained` |

`FindmntWrapper_proofs` is about two modules that share no variable: the retry
loop of the wrapper is `Do` without its durations, and `Retry` has the durations.

The arguments:

- *Breaker*. The conjunction of the four is inductive as it stands; each of the
  others needs the types and no more.
- *Wrapper*. Every step of the wrapper is a step of its breaker or leaves it
  alone, so the breaker's invariant holds inside the wrapper. `WInv` adds what a
  caller's `status`, `err` and outcome may be at each point of the function; each
  step changes one caller, so the proof looks at one caller at a time. The gate is
  a refinement: while the gate is down no caller can pass `IsOpen`, and the last
  one inside is the only one who can leave it down. The late failures are bounded
  by counting: a caller past `IsOpen` while the breaker is open can add one
  failure and is then past it no more. The statistics balance up to a multiple
  of the counters' modulus (`Balanced`), and that multiple is bounded because
  each counter stays below the modulus.
- *Concurrent checks*. Each result is in one place: with its goroutine, in the
  channel, or in the slice (`InChannel`, `OnePlace`, `Filed`). So the loop's
  counter is the number of results received (`Counted`), and when it ends without
  a cancellation the slice is full.
- *Watcher*. While nothing has been cancelled, `running` says whether one loop is
  live or none (`LoopInv`). `SeenIsApplied` says that a file that a loop
  does not find newer than what it saw is applied, unless `missed` says why not: a
  change under the time last seen or an older one, a change that came before the
  first Stat, or one whose reading failed. It follows from `Untouched`, what holds
  before the first Stat, and `Loaded`, what a loop about to update has read; a
  change that is not missed is newer than every time seen, except by a loop about
  to read the file (`ChangeStep`).
- *Manager*. `Locked` and `OneEntryEach` say that the goroutine that holds the
  lock works on entries that exist, each on its own. `RetiredInv` gives each
  registered resource its exact number of cleanups under the lock, from which
  `RetiredOnce` and `NothingForgotten` are preserved. `StatsHonest` needs a bound on
  what a goroutine has read and not yet stored: `CountInv` has a witness, how many
  cleanups ended each way, and says that a counter plus the goroutines about to
  store it never exceeds it. Without a `CleanupResource` the counters are
  exact (`ExactInv`).
- *Server*. `ImplementsManager` gives it the manager's invariant. `DrainInv` says
  that no request can arrive once `Shutdown` has returned; `ExitInv` says, for each
  line the main goroutine may be at, which resources are registered and whether
  the listener is closed.
- *Collector*. A scrape holds the read lock, so no `Replace` comes between its
  samples; what it has sent is therefore about the configuration in force. The
  gate gives the other half: a caller that asks when the gate is down (the breaker
  open, and nobody past `IsOpen`) is refused,
  and only a raise or a replacement, both of which end what `began` says, lifts it.
- *Panic handler*. `NeverFound` shows that `getGoroutineID` never returns, for any
  length of the stack; so a guard never absorbs. The lock makes the count of
  whoever holds it the current one, which is `EveryRecoverCounted`.

- *Main program*. `LayersInv` says for each line of `main` which layers have been
  merged, `Accepted` that none is missing and none rejected; `WayInv` and
  `UnwindInv` say what has been decided and counted by then, `StackInv` which guards
  are on the stack. The choice that `Documented` makes among the layers is
  unfolded once (`DocumentedIs`), and overlaying them one by one comes to the same
  (`OverlaysMerge`). The paths that leave the environment out keep the defaults,
  which lack mount points, so `Validate` rejects them (`SkippedIsRejected`).
- *Retry*. `WaitExplained` keeps what a wait was computed from: a converted, capped
  delay and a jitter. When the product fits there is one such delay, a tenth of it
  has its sign (`JitterBetween`), and a sum that is a Duration is not changed by
  wrapping around (`WrapKeeps`). Powers stay uninterpreted: nothing more is
  needed of the product than whether it fits. `AttemptsInv` counts the calls.

The liveness properties themselves are out of the prover's reach, but those that
say that something ends say two things: that steps are taken, which is the
fairness, and that there are only finitely many, which is safety. The second part
is proved of six of them, for any number of goroutines: a measure in the natural numbers that steps of the goroutine itself
lower and that no other step changes, and, where a lock or a channel may make it
wait, that whoever it waits for does not.

- `CallsRunOut` (of `CallsReturn`): `ToReturn`, the attempts left and the point of
  the function.
- `NobodyIsStuck` and `StepsRunOut` (of `NobodyBlocks`): `Conserved`, results sent are
  received or in the channel, so that a sender finds room and a receiver waits
  for a goroutine that will send; and `StepsLeft`, for all goroutines together.
- `OperationsRunOut` (of `OperationsReturn`): `ToReturn`, three steps for each
  resource left to visit; who holds the manager's lock is always at one of them.
- `MainRunsOut` (of `SignalEndsProcess`): the lines of `main` in their order, and the
  manager's measure within `CleanupAll`; the lock is free whenever it is needed.
- `UpdatesAreNotOvertaken` and `ScrapesRunOut` (of `BothReturn`): who is blocked
  waits for an announced update, and the scrapes that update waits for only become
  fewer; a scrape has four steps for each mount point left.
- `PanicsRunOut` (of `PanicEndsProcess`): five steps for each frame on the stack,
  and the holder of the lock is never waiting itself.

Only model-checked is liveness as such: `Recovers`, `CallsReturn`, `NobodyBlocks`,
`HotReload`, `StopEndsLoops`, `OperationsReturn`, `SignalEndsProcess`, `BothReturn`,
`PanicEndsProcess`. Every invariant and every action property of a passing run is
a theorem.

## 5. Where the code and its documents part

Two of these are runs that TLC ends with a counterexample:

- `findmnt_auto_reset`: an open breaker never recovers. `CheckMountPoint`
  (`system/findmnt.go:103`) refuses while the breaker is `OPEN`, before
  `allowRequest` could admit the probe that ends it. `docs/ARCHITECTURE.md:74`
  promises "Auto-Reset". The breaker by itself recovers: `Recovers` holds in
  `breaker`.
- `retry_timed_out`: a findmnt that timed out is not tried again.
  `IsTransientError` (`reliability/retry.go:263`) knows "timeout" and "connection
  timed out", but not the "timed out" of `system/findmnt.go:156`, nor of
  `reliability/retry_test.go:360`, which wants it transient.

Five are what properties that hold say, where a document says otherwise:

- `NothingAbsorbed` (`panic`): no guard recovers a panic, since
  `recovery/panic_recovery.go:234` compares nine bytes with ten and then slices
  past the end of the stack. Line 103 and `recovery/panic_recovery_test.go:119`
  say that the panic becomes an error.
- `HotReload` (`watcher`): a valid file that replaces another under an older
  modification time (`mv` of a backup, `cp -p`, `rsync -t`) or the same one is never
  applied, since `config/config.go:266` asks for a later one.
  `docs/ARCHITECTURE.md:234` draws the way from "Config File Changed" to "Apply New
  Config" without a condition. Without the condition on the time TLC finds a file
  of time 2 applied, then replaced by one of time 1, and nothing happening.
- `WaitBounded` (`retry`): a wait may be longer than `MaxDelay`, by at most a tenth.
  `Do` adds the jitter (`reliability/retry.go:126`) after `calculateDelay` has capped
  the delay, where line 73 says "the maximum delay between retries" and
  `reliability/retry_test.go:310` "capped at MaxDelay".
- `OpenBreakerFailsAll` (`collector`): all mount points share one breaker, so
  failures of one make a scrape report errors for all of them
  (`metrics/collector.go:82`), at the latest from the first scrape on that begins
  when the breaker is open and nobody is past `IsOpen`. `docs/ARCHITECTURE.md:353`
  says "Error Isolation: Failed checks don't affect others".
- `ExitExplained` (`main`): the deferred `Recover` of `main.go:34` counts a panic on
  a plain return, and does not stop a real one. A path the server uses itself
  (`/`, `/health`, `/healthz`) passes `Validate` and ends the program as a panic.

The rest is written into the properties as what they leave out, or is one
transition of a model:

- A cancelled `CheckMultipleMountPoints` may return nil for a mount point
  (`system/findmnt.go:229`), since results arrive in any order (`ReturnExplained`).
- The watcher does not apply a change between the load and its first Stat
  (`config/config.go:252`), one that shares its time with the last one seen, or
  one whose reading fails (`missed`). After `Stop` and `Watch` the new loop ends at once
  while `IsRunning` stays true (`config/config.go:307`).
- When a request outlives the 30 seconds of `Shutdown`, `Stop` returns before it
  has cleaned up anything (`server/server.go:217`).
- A delay that overflows escapes the cap: on amd64 it becomes the least Duration,
  and with its negative jitter wraps around to a wait of almost the longest one.
  With the program's settings (three attempts, doubling) it cannot happen; with
  `WithMaxAttempts` of about 40 it does.
- `contains` misses a pattern in other letters at the very start of a message,
  where `reliability/retry.go:285` says "case-insensitive" and
  `reliability/retry_test.go:369` expects it.
- `Do` reports "max retry attempts exceeded" also for an error it did not retry.
- Without a configuration file `LoadFromFile` leaves the environment's overrides
  out, where `README.md:115` says they override. `ServedAsDocumented` holds all the
  same, because without a file there are no mount points and nothing is served.
- A successful probe of an open breaker leaves it `HALF_OPEN`, where
  `reliability/circuit_breaker_test.go:133` wants `CLOSED`; `HALF_OPEN` admits any
  number of calls, where `docs/ARCHITECTURE.md:382` says "Limited requests"; a
  check that fails reports `Unknown`, where `system/findmnt_test.go:29` and `:243`
  want `NotMounted`.
- Callbacks of the watcher run in goroutines of their own, so a listener may end
  with the older of two configurations.
- `scrape_success_total` is 1 for every successful check (`collector.go:129`), not
  a total; a mount point listed twice passes `Validate`, and its samples collide
  in every scrape.

## 6. What is left out

Every component is modelled; within them these are not, and why:

- Details of a mount (the parsing of findmnt's output past its outcome), labels,
  durations, logging: data no property tells apart.
- HTTP handlers and middleware: they keep no state; what they call is modelled.
- `http.Server`, `sync`, `context`, `yaml.v3` and the file system are external,
  modelled from how the code uses them. A connection accepted and not yet tracked
  when `Shutdown` looks is not modelled.
- Cleanups that panic or call the manager; none in the program does.
- Getters, `RunGC`, `ListResources`: they change nothing.
- `reloadConfig` replacing `MountPoints` under a running `Collect`: nothing in the
  program starts a watcher on the configuration the collector holds.
- The rounding of the floats `Retry` computes its delays with.
- What lies behind a torn slice of handlers: reading past its array is one panic.
