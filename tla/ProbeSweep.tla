------------------------------ MODULE ProbeSweep ------------------------------
(***************************************************************************)
(* The sweep behind /health and /metrics: a list of the corpora and a read *)
(* of each, which on the cloud backend are requests to the bucket.  Probes *)
(* come every few seconds from many sides and share one sweep, also an old *)
(* one while another probe sweeps or the store fails.                      *)
(*                                                                         *)
(* Source: ietf_llm/mcp/serve.py.  Each probe runs on a worker thread.     *)
(***************************************************************************)
EXTENDS Integers, FiniteSets

CONSTANTS
  Probe,      \* the worker threads of the probes
  NoProbe,    \* "the lock is free"
  MaxClock,   \* bound: the clock
  MaxProbes,  \* bound: probes begun
  SweepTTL,   \* _SWEEP_TTL, in ticks
  FailureTTL  \* _SWEEP_FAILURE_TTL

ASSUME ProbeAssumption ==
  /\ NoProbe \notin Probe
  /\ MaxClock \in Nat \ {0} /\ MaxProbes \in Nat /\ SweepTTL \in Nat /\ FailureTTL \in Nat

Never == 0
Clock == 0..MaxClock

VARIABLES
  clock,     \* time.monotonic
  answered,  \* the probes begun so far
  swept,     \* _SWEEP_CACHE: when the last good sweep ended, or Never
  failed,    \* _SWEEP_FAILURE: when a sweep failed after it, or Never
  sweeper,   \* the probe that holds _refresh_lock, or NoProbe
  probe      \* the probes' local variables, below

probeVars == <<clock, answered, swept, failed, sweeper, probe>>

ProbeStage == {"idle", "peek", "lock", "sweep", "release", "wait"}
ProbeFrame ==
  [pc    : ProbeStage,
   stale : Clock,                        \* the sweep it has peeked at
   had   : BOOLEAN,                      \* history: was there one when it began?
   seen  : Clock,                        \* history: when it last peeked
   said  : {"nothing", "sweep", "error"}] \* history: its last answer

IdleProbe == [pc |-> "idle", stale |-> Never, had |-> FALSE, seen |-> Never, said |-> "nothing"]
ProbeAt(p, stage) == probe[p].pc = stage

ProbeInit ==
  /\ clock = 1 /\ answered = 0
  /\ swept = Never /\ failed = Never
  /\ sweeper = NoProbe
  /\ probe = [p \in Probe |-> IdleProbe]

Usable(when, lifetime) == when # Never /\ clock - when < lifetime
Say(p, said, stage) == probe' = [probe EXCEPT ![p].pc = stage, ![p].said = said]

-----------------------------------------------------------------------------
(* _freshness_sweep                                                        *)

Begin(p) ==
  /\ ProbeAt(p, "idle") /\ answered < MaxProbes
  /\ answered' = answered + 1
  /\ probe' = [probe EXCEPT ![p] = [IdleProbe EXCEPT !.pc = "peek", !.had = (swept # Never)]]
  /\ UNCHANGED <<clock, swept, failed, sweeper>>

\* _peek_sweep: a fresh sweep is served, and any sweep while a failure is remembered;
\* without one the error is raised again.
PeekSweep(p) ==
  /\ ProbeAt(p, "peek")
  /\ \/ (Usable(swept, SweepTTL) \/ (Usable(failed, FailureTTL) /\ swept # Never))
        /\ Say(p, "sweep", "idle")
     \/ Usable(failed, FailureTTL) /\ swept = Never /\ Say(p, "error", "idle")
     \/ /\ ~Usable(swept, SweepTTL) /\ ~Usable(failed, FailureTTL)
        /\ probe' = [probe EXCEPT ![p].pc = "lock", ![p].stale = swept, ![p].seen = clock]
  /\ UNCHANGED <<clock, answered, swept, failed, sweeper>>

\* The first to come sweeps ...
Lock(p) ==
  /\ ProbeAt(p, "lock") /\ sweeper = NoProbe
  /\ sweeper' = p
  /\ probe' = [probe EXCEPT ![p].pc = "sweep"]
  /\ UNCHANGED <<clock, answered, swept, failed>>

\* ... and any other serves what it has peeked at, or waits for the first sweep ever.
Busy(p) ==
  /\ ProbeAt(p, "lock") /\ sweeper # NoProbe
  /\ IF probe[p].stale # Never THEN Say(p, "sweep", "idle")
     ELSE probe' = [probe EXCEPT ![p].pc = "wait"]
  /\ UNCHANGED <<clock, answered, swept, failed, sweeper>>

\* It takes the lock and gives it back, and looks again.
Waited(p) ==
  /\ ProbeAt(p, "wait") /\ sweeper = NoProbe
  /\ probe' = [probe EXCEPT ![p].pc = "peek"]
  /\ UNCHANGED <<clock, answered, swept, failed, sweeper>>

-----------------------------------------------------------------------------
(* _refresh_sweep                                                          *)

Sweep(p) ==
  /\ ProbeAt(p, "sweep")
  /\ swept' = clock /\ failed' = Never
  /\ Say(p, "sweep", "release")
  /\ UNCHANGED <<clock, answered, sweeper>>

\* Mutant of SweepFails: the sweep before is not served in its place.
SweepFailsRaises(p) ==
  /\ ProbeAt(p, "sweep")
  /\ failed' = clock
  /\ Say(p, "error", "release")
  /\ UNCHANGED <<clock, answered, swept, sweeper>>

\* The failure is remembered, and the sweep that was peeked at is served.
SweepFails(p) ==
  /\ ProbeAt(p, "sweep")
  /\ failed' = clock
  /\ Say(p, IF probe[p].stale = Never THEN "error" ELSE "sweep", "release")
  /\ UNCHANGED <<clock, answered, swept, sweeper>>

ReleaseSweep(p) ==
  /\ ProbeAt(p, "release")
  /\ sweeper' = NoProbe
  /\ probe' = [probe EXCEPT ![p].pc = "idle"]
  /\ UNCHANGED <<clock, answered, swept, failed>>

ProbeTick ==
  /\ clock < MaxClock
  /\ clock' = clock + 1
  /\ UNCHANGED <<answered, swept, failed, sweeper, probe>>

ProbeStep(p) ==
  \/ Begin(p) \/ PeekSweep(p) \/ Lock(p) \/ Busy(p) \/ Waited(p)
  \/ Sweep(p) \/ SweepFails(p) \/ ReleaseSweep(p)

ProbeNext == (\E p \in Probe : ProbeStep(p)) \/ ProbeTick

ProbeSpec == ProbeInit /\ [][ProbeNext]_probeVars

-----------------------------------------------------------------------------
(* Properties.                                                             *)

\* Every variable stays within the values its comment gives.
ProbeTypeOK ==
  /\ clock \in Clock \ {0} /\ answered \in 0..MaxProbes
  /\ swept \in Clock /\ failed \in Clock
  /\ sweeper \in Probe \cup {NoProbe}
  /\ probe \in [Probe -> ProbeFrame]

\* A probe that began after a sweep had succeeded never raises, however often
\* sweeps have failed since ("probes serve the previous sweep").
OldSweepBeatsError == \A p \in Probe : probe[p].said = "error" => ~probe[p].had

\* Probes sweep one at a time, and a probe that looked after a sweep ended, well or
\* badly, does not sweep again within that sweep's lifetime.
SweptInTurn ==
  \A p \in Probe : ProbeAt(p, "sweep") =>
    /\ sweeper = p
    /\ Usable(swept, SweepTTL) => probe[p].seen <= swept
    /\ Usable(failed, FailureTTL) => probe[p].seen <= failed

\* The docstring of _freshness_sweep: an error is only raised "when there is none", no
\* sweep to serve.  A probe that peeked before the first sweep succeeded, takes the
\* lock after it and then fails, raises: the code breaks it (README.md).
ErrorOnlyWithoutSweep ==
  [][\A p \in Probe : (ProbeAt(p, "sweep") /\ probe'[p].said = "error") => swept = Never]_probeVars

\* The shared sweep is of its type, taken in turn, and served rather than an error.
ProbeInv == ProbeTypeOK /\ OldSweepBeatsError /\ SweptInTurn
=============================================================================
