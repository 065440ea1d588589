------------------------------ MODULE Collector ------------------------------
(***************************************************************************)
(* The metrics collector of src/metrics/collector.go: every scrape checks  *)
(* all mount points of one configuration under the read lock; UpdateConfig *)
(* replaces the configuration and the findmnt wrapper under the write lock.*)
(*                                                                         *)
(* The wrapper is the gate of CheckGate, which FindmntWrapper implements:  *)
(* a scrape is a caller of CheckMountPoint, and a new wrapper has a new    *)
(* gate. The lock is Go's: a writer that waits holds new readers back, and *)
(* a writer that unlocks lets the readers in that have waited for it.      *)
(***************************************************************************)
EXTENDS Naturals, Sequences

CONSTANTS
    Scrapers,       \* goroutines that call Collect, one per scrape
    Updaters,       \* goroutines that call UpdateConfig
    None,           \* no updater
    Configs,        \* configurations
    Mounts,         \* mount points
    MountPoints     \* the mount points of each configuration, in order

ASSUME CollectorAssumption ==
    /\ None \notin Updaters
    /\ MountPoints \in [Configs -> Seq(Mounts)]

VARIABLES
    config,     \* c.config
    generation, \* parity of the number of wrappers made: tells the last two apart
    gate,       \* of c.findmnt: "down" when only ResetCircuitBreaker opens it
    phase,      \* where each scrape is in CheckMountPoint
    pc,         \* where each Collect is
    samples,    \* what each scrape has sent, one record per mount point
    healthy,    \* the variable of Collect
    began,      \* history: was the gate down when the scrape began, and since?
    update,     \* where each UpdateConfig is
    writer,     \* the updater that has c.mu.w, and holds new readers back
    handle      \* wrapper somebody got from GetFindmntWrapper

lockVars == <<pc, update, writer>>
scrapeVars == <<samples, healthy, began>>
vars == <<config, generation, gate, phase, lockVars, scrapeVars, handle>>

G == INSTANCE CheckGate WITH Callers <- Scrapers

\* A mount point that is not mounted is an answer.
Status == {"answer", "error"}

Sample == [config : Configs, wrapper : {0, 1}, mount : Mounts, status : Status]

-----------------------------------------------------------------------------
Init ==
    /\ config \in Configs
    /\ generation = 0
    /\ G!Init
    /\ pc = [s \in Scrapers |-> "idle"]
    /\ samples = [s \in Scrapers |-> <<>>]
    /\ healthy = [s \in Scrapers |-> TRUE]
    /\ began = [s \in Scrapers |-> "up"]
    /\ update = [u \in Updaters |-> "idle"]
    /\ writer = None
    /\ handle = "none"

-----------------------------------------------------------------------------
(* Collect. *)

\* Mutant: readers overtake a writer that waits.
MayReadAlways == TRUE

MayRead == writer = None

Collect(s) ==
    /\ pc[s] = "idle"
    /\ pc' = [pc EXCEPT ![s] = IF MayRead THEN "scraping" ELSE "blocked"]
    /\ began' = [began EXCEPT ![s] = gate]
    /\ UNCHANGED <<config, generation, gate, phase, update, writer, samples, healthy, handle>>

Current == MountPoints[config]

More(s) == pc[s] = "scraping" /\ Len(samples[s]) < Len(Current)

\* A step of CheckMountPoint on the next mount point.
Check(s) ==
    /\ More(s)
    /\ G!Ask(s) \/ G!Enter(s) \/ G!TurnAway(s) \/ G!Leave(s)
    /\ UNCHANGED <<config, generation, lockVars, scrapeVars, handle>>

\* Mutant: an error of the breaker is exported as a status.
AnswersCareless(s) == Status

\* A refused call is an error; findmnt may also have failed itself.
Answers(s) == IF phase[s] = "refused" THEN {"error"} ELSE Status

\* CheckMountPoint returns, and the samples of the mount point are sent.
Export(s) ==
    /\ More(s)
    /\ G!Answer(s)
    /\ \E status \in Answers(s) :
          /\ samples' = [samples EXCEPT ![s] = Append(@,
                [config |-> config, wrapper |-> generation,
                 mount |-> Current[Len(@) + 1], status |-> status])]
          /\ healthy' = [healthy EXCEPT ![s] = @ /\ status # "error"]
    /\ UNCHANGED <<config, generation, began, lockVars, handle>>

\* Mutant: the scrape ends in the middle of a check.
DoneAlways(s) == TRUE

Done(s) == ~More(s)

\* The sample of up is sent, and the read lock given back. What was sent and
\* the variables of Collect are forgotten.
Finish(s) ==
    /\ pc[s] = "scraping" /\ Done(s)
    /\ pc' = [pc EXCEPT ![s] = "idle"]
    /\ samples' = [samples EXCEPT ![s] = <<>>]
    /\ healthy' = [healthy EXCEPT ![s] = TRUE]
    /\ began' = [began EXCEPT ![s] = "up"]
    /\ UNCHANGED <<config, generation, gate, phase, update, writer, handle>>

-----------------------------------------------------------------------------
(* UpdateConfig. *)

UpdateConfig(u) ==
    /\ update[u] = "idle"
    /\ update' = [update EXCEPT ![u] = "locking"]
    /\ UNCHANGED <<config, generation, gate, phase, pc, writer, scrapeVars, handle>>

Announce(u) ==
    /\ update[u] = "locking" /\ writer = None
    /\ update' = [update EXCEPT ![u] = "draining"]
    /\ writer' = u
    /\ UNCHANGED <<config, generation, gate, phase, pc, scrapeVars, handle>>

\* Mutant: the write lock is had while scrapes hold the read lock.
DrainedAlways == TRUE

Drained == \A s \in Scrapers : pc[s] # "scraping"

\* The section under the write lock, to its unlocking. The scrapes that have
\* waited begin with what is now in force.
Replace(u) ==
    /\ update[u] = "draining" /\ Drained
    /\ config' \in Configs
    /\ generation' = 1 - generation
    /\ gate' = "up"
    /\ update' = [update EXCEPT ![u] = "idle"]
    /\ writer' = None
    /\ pc' = [s \in Scrapers |-> IF pc[s] = "blocked" THEN "scraping" ELSE pc[s]]
    /\ began' = [s \in Scrapers |-> "up"]
    /\ handle' = IF handle = "none" THEN "none" ELSE "stale"
    /\ UNCHANGED <<phase, samples, healthy>>

-----------------------------------------------------------------------------
(* GetFindmntWrapper takes no lock, and what it returns may be replaced.   *)

GetFindmntWrapper ==
    /\ handle' = "current"
    /\ UNCHANGED <<config, generation, gate, phase, lockVars, scrapeVars>>

\* Resetting the breaker of a wrapper that was replaced changes nothing.
ResetCircuitBreaker ==
    /\ handle = "current"
    /\ G!Raise
    /\ began' = [s \in Scrapers |-> "up"]
    /\ UNCHANGED <<config, generation, lockVars, samples, healthy, handle>>

Scrape(s) == Check(s) \/ Export(s) \/ Finish(s)

Next ==
    \/ \E s \in Scrapers : Collect(s) \/ Scrape(s)
    \/ \E u \in Updaters : UpdateConfig(u) \/ Announce(u) \/ Replace(u)
    \/ GetFindmntWrapper \/ ResetCircuitBreaker

Spec == Init /\ [][Next]_vars

(***************************************************************************)
(* Checks return (CallsReturn of FindmntWrapper) and goroutines run. The   *)
(* mutex among the writers hands itself to whoever has waited long.        *)
(***************************************************************************)
FairSpec ==
    /\ Spec
    /\ \A s \in Scrapers : WF_vars(Scrape(s))
    /\ \A u \in Updaters : SF_vars(Announce(u)) /\ WF_vars(Replace(u))

-----------------------------------------------------------------------------
(* Variables within their types; only a scrape with the lock is in         *)
(* CheckMountPoint.                                                        *)
TypeOK ==
    /\ config \in Configs
    /\ generation \in {0, 1}
    /\ G!TypeOK
    /\ pc \in [Scrapers -> {"idle", "blocked", "scraping"}]
    /\ samples \in [Scrapers -> Seq(Sample)]
    /\ healthy \in [Scrapers -> BOOLEAN]
    /\ began \in [Scrapers -> {"up", "down"}]
    /\ update \in [Updaters -> {"idle", "locking", "draining"}]
    /\ writer \in Updaters \cup {None}
    /\ handle \in {"none", "current", "stale"}
    /\ \A s \in Scrapers : phase[s] # "idle" => pc[s] = "scraping"

(* Whatever updates run beside it, a scrape reports the mount points of    *)
(* one configuration in order, each once, checked through one wrapper, and *)
(* up is 1 exactly if none of them had an error.                           *)
ScrapeIsOfOneConfig ==
    \A s \in Scrapers :
        /\ pc[s] = "scraping" =>
              /\ Len(samples[s]) <= Len(Current)
              /\ \A k \in 1 .. Len(samples[s]) :
                    /\ samples[s][k].config = config
                    /\ samples[s][k].wrapper = generation
                    /\ samples[s][k].mount = Current[k]
        /\ healthy[s] <=> \A k \in 1 .. Len(samples[s]) : samples[s][k].status # "error"

(* The mount points share one breaker. A scrape that begins when it is     *)
(* open and no check of another scrape is past IsOpen any more (the gate   *)
(* is down) reports an error for every mount point, also for those findmnt *)
(* would find, until the breaker is reset or the wrapper replaced.         *)
OpenBreakerFailsAll ==
    \A s \in Scrapers :
        pc[s] = "scraping" /\ began[s] = "down" =>
            \A k \in 1 .. Len(samples[s]) : samples[s][k].status = "error"

(* No stream of scrapes starves an update, and no stream of updates a      *)
(* scrape: each returns.                                                   *)
BothReturn ==
    /\ \A u \in Updaters : update[u] # "idle" ~> update[u] = "idle"
    /\ \A s \in Scrapers : pc[s] # "idle" ~> pc[s] = "idle"
=============================================================================
