------------------------------ MODULE GatherChild ------------------------------
(***************************************************************************)
(* A gather in a process of its own: the server's worker starts it, reads  *)
(* its progress from a pipe, kills it when a stop is asked for, and takes  *)
(* its exit code for the gather's outcome.  What the process does in       *)
(* between is HttpStore's: requests, and the flush of its store when the   *)
(* interpreter exits, after the pipe has been closed.                      *)
(*                                                                         *)
(* Sources: ietf_llm/gather/pipeline.py and gather/child.py.               *)
(***************************************************************************)
EXTENDS HttpStore

CONSTANTS
  MaxSpawns,   \* bound: processes started
  ChildFaults  \* a subset of {"spawn", "raise", "killed", "stop", "stuck", "exit", "die"}

ASSUME ChildAssumption ==
  /\ MaxSpawns \in Nat
  /\ ChildFaults \subseteq {"spawn", "raise", "killed", "stop", "stuck", "exit", "die"}

VARIABLES
  spawns,     \* the processes started so far
  drive,      \* the worker that drives each process, below
  finished,   \* how run_gather ended in each process that has not been killed, or "no"
  registered, \* _children
  doomed,     \* the processes killed that had not died within the grace: "stuck"
  reap        \* the server's orderly exit, below

serverSide == <<spawns, registered, reap>>
childVars == <<serverSide, drive, finished, doomed, httpVars>>

\* listed: the processes registered when the exit began, less those that ended and
\* whose place another has taken.
Reap == [on : BOOLEAN, listed : SUBSET Child, left : SUBSET Child]
NoReap == [on |-> FALSE, listed |-> {}, left |-> {}]

DriveStage == {"idle", "spawned", "pumping", "waiting", "returned"}
\* "skipped" is also a gather that found nothing usable: neither is published.
GatherEnd == {"no", "gathered", "skipped", "raised"}
Outcome == {"none", "gathered", "skipped", "cancelled", "error"}
Drive ==
  [pc      : DriveStage,
   code    : GatherEnd \cup {"signal"},  \* the exit code, once there is one
   outcome : Outcome]
NoDrive == [pc |-> "idle", code |-> "no", outcome |-> "none"]

DriveAt(c, stage) == drive[c].pc = stage

\* The process closes its end of the pipe when run_gather has ended, if not by its own end.
PipeOpen(c) == Running(c) /\ finished[c] = "no"

ChildInit ==
  /\ HttpInit
  /\ spawns = 0
  /\ drive = [c \in Child |-> NoDrive]
  /\ finished = [c \in Child |-> "no"]
  /\ registered = {} /\ doomed = {} /\ reap = NoReap

-----------------------------------------------------------------------------
(* The worker (_run_pipeline_child).                                       *)

\* Popen, for a gather whose last call has returned.
Spawn(c) ==
  /\ drive[c].pc \in {"idle", "returned"} /\ ~Running(c) /\ spawns < MaxSpawns
  /\ spawns' = spawns + 1
  /\ \/ /\ Launched(c)
        /\ drive' = [drive EXCEPT ![c] = [NoDrive EXCEPT !.pc = "spawned"]]
        /\ finished' = [finished EXCEPT ![c] = "no"]
        /\ doomed' = doomed \ {c}
        /\ reap' = [reap EXCEPT !.listed = @ \ {c}, !.left = @ \ {c}]
     \/ /\ "spawn" \in ChildFaults
        /\ drive' = [drive EXCEPT ![c] = [NoDrive EXCEPT !.pc = "returned", !.outcome = "error"]]
        /\ UNCHANGED <<finished, doomed, reap, httpVars>>
  /\ UNCHANGED registered

\* An exit of the server that begins from now on reaps it.
Register(c) ==
  /\ DriveAt(c, "spawned")
  /\ drive' = [drive EXCEPT ![c].pc = "pumping"]
  /\ registered' = registered \cup {c}
  /\ UNCHANGED <<spawns, reap, finished, doomed, httpVars>>

\* The worker returns, and the process is no longer registered.
Give(c, outcome) ==
  /\ drive' = [drive EXCEPT ![c] = [pc |-> "returned", code |-> "no", outcome |-> outcome]]
  /\ registered' = registered \ {c}

\* Mutant of EndOfPipe: the end of the pipe is taken for the end of the process.
EndOfPipeReturns(c) ==
  /\ DriveAt(c, "pumping") /\ ~PipeOpen(c)
  /\ Give(c, IF finished[c] = "raised" THEN "error" ELSE "gathered")
  /\ UNCHANGED <<spawns, reap, finished, doomed, httpVars>>

\* _pump_child ends; proc.wait() follows, in which no stop is looked for.
EndOfPipe(c) ==
  /\ DriveAt(c, "pumping") /\ ~PipeOpen(c)
  /\ drive' = [drive EXCEPT ![c].pc = "waiting"]
  /\ UNCHANGED <<serverSide, finished, doomed, httpVars>>

\* A process's exit code is there for the worker that waits for it, if one does.
Exited(c, code) ==
  drive' = IF drive[c].pc \in {"idle", "returned"} THEN drive ELSE [drive EXCEPT ![c].code = code]

\* A process ends at whatever it is, ...
Cut(c) == Ended({c}) /\ finished' = [finished EXCEPT ![c] = "no"] /\ UNCHANGED doomed

\* ... or has been killed but is not gone when the second wait times out, and nobody
\* waits for it any more: what it is in may still complete.
Stuck(c) ==
  /\ "stuck" \in ChildFaults /\ Running(c)
  /\ doomed' = doomed \cup {c}
  /\ UNCHANGED <<finished, httpVars>>

\* A stop, or the lease is lost: the process is terminated, and the gather cancelled,
\* also when the process had ended by itself.
Stop(c) ==
  /\ "stop" \in ChildFaults /\ DriveAt(c, "pumping")
  /\ Give(c, "cancelled")
  /\ Cut(c) \/ Stuck(c)
  /\ UNCHANGED <<spawns, reap>>

\* A server that is exiting may refuse the thread that is to read the pipe (Python 3.12
\* does): the process is terminated and the gather fails.
NoReader(c) ==
  /\ reap.on /\ DriveAt(c, "pumping") /\ c \notin reap.listed
  /\ Give(c, "error")
  /\ Cut(c) \/ Stuck(c)
  /\ UNCHANGED <<spawns, reap>>

\* _EXIT_CODE_OUTCOMES; anything else is an error.
OutcomeOf(code) == IF code \in {"gathered", "skipped"} THEN code ELSE "error"

Collect(c) ==
  /\ DriveAt(c, "waiting") /\ ~Running(c)
  /\ Give(c, OutcomeOf(drive[c].code))
  /\ UNCHANGED <<spawns, reap, finished, doomed, httpVars>>

-----------------------------------------------------------------------------
(* The process (child.main).                                               *)

\* The stages ask the store, until run_gather returns or raises and the pipe closes.
Gathering(c) == PipeOpen(c) /\ Requesting(c) /\ UNCHANGED <<serverSide, drive, finished, doomed>>

FinishGather(c, how) ==
  /\ PipeOpen(c) /\ ChildAt(c, "ready")
  /\ how = "raised" => "raise" \in ChildFaults
  /\ finished' = [finished EXCEPT ![c] = how]
  /\ UNCHANGED <<serverSide, drive, doomed, httpVars>>

\* The interpreter's exit flushes the store ...
Leaving(c) == ~PipeOpen(c) /\ Flushing(c) /\ UNCHANGED <<serverSide, drive, finished, doomed>>

\* ... and the process ends with its code.
Leave(c) ==
  /\ ChildAt(c, "flushed")
  /\ Ended({c})
  /\ Exited(c, finished[c])
  /\ UNCHANGED <<serverSide, finished, doomed>>

\* The system kills it, out of memory; or the kill that it was stuck under takes effect.
Killed(c) ==
  /\ Running(c)
  /\ "killed" \in ChildFaults \/ c \in doomed
  /\ Cut(c)
  /\ Exited(c, "signal")
  /\ UNCHANGED serverSide

-----------------------------------------------------------------------------
(* The server.                                                             *)

\* An orderly exit copies _children, and then terminates the processes one after the
\* other; the workers are daemons and go on meanwhile.
ExitBegins ==
  /\ "exit" \in ChildFaults /\ ~reap.on
  /\ reap' = [on |-> TRUE, listed |-> registered, left |-> registered]
  /\ UNCHANGED <<spawns, registered, drive, finished, doomed, httpVars>>

\* Mutant of ReapNext: a process whose pipe has closed is taken for ended.
ReapNextGathering(c) ==
  /\ c \in reap.left
  /\ reap' = [reap EXCEPT !.left = @ \ {c}]
  /\ \/ ~PipeOpen(c) /\ UNCHANGED <<drive, finished, doomed, httpVars>>
     \/ PipeOpen(c) /\ Cut(c) /\ Exited(c, "signal")
  /\ UNCHANGED <<spawns, registered>>

ReapNext(c) ==
  /\ c \in reap.left
  /\ reap' = [reap EXCEPT !.left = @ \ {c}]
  /\ \/ ~Running(c) /\ UNCHANGED <<drive, finished, doomed, httpVars>>
     \/ Running(c) /\ Cut(c) /\ Exited(c, "signal")
     \/ Stuck(c) /\ UNCHANGED drive
  /\ UNCHANGED <<spawns, registered>>

\* The workers stop where they are, and a server starts again.
ServerGone ==
  /\ registered' = {} /\ drive' = [c \in Child |-> NoDrive] /\ reap' = NoReap
  /\ UNCHANGED <<spawns, finished, doomed, httpVars>>

ExitEnds == reap.on /\ reap.left = {} /\ ServerGone

\* A server that is killed reaps none.
ServerDies == "die" \in ChildFaults /\ ServerGone

Elsewhere == World /\ UNCHANGED <<serverSide, drive, finished, doomed>>

Worker(c) == Spawn(c) \/ Register(c) \/ EndOfPipe(c) \/ Stop(c) \/ NoReader(c) \/ Collect(c)
Life(c) == Gathering(c) \/ (\E how \in GatherEnd \ {"no"} : FinishGather(c, how)) \/ Leaving(c) \/ Leave(c) \/ Killed(c)
Server == ExitBegins \/ (\E c \in Child : ReapNext(c)) \/ ExitEnds \/ ServerDies

ChildNext ==
  \/ \E c \in Child : Worker(c) \/ Life(c)
  \/ Server \/ Elsewhere

ChildSpec == ChildInit /\ [][ChildNext]_childVars

-----------------------------------------------------------------------------
(* Properties.                                                             *)

\* Every variable stays within the values its comment gives.
ChildTypeOK ==
  /\ HttpTypeOK
  /\ spawns \in 0..MaxSpawns
  /\ drive \in [Child -> Drive] /\ finished \in [Child -> GatherEnd]
  /\ registered \in SUBSET Child /\ doomed \in SUBSET Child /\ reap \in Reap

\* A worker that reports a gathered tree, which it then publishes, drove a process
\* whose run_gather gathered it, and which has ended by itself and writes no more.
GatheredWhenOver ==
  \A c \in Child : drive[c].outcome = "gathered" => finished[c] = "gathered" /\ ~Running(c)

\* No worker returns, whatever the outcome, while its process still runs, unless it
\* has been killed and does not die: the lease and the workspace are given up after it.
NothingLeftRunning == \A c \in Child : DriveAt(c, "returned") /\ Running(c) => c \in doomed

\* While its workers go on, an orderly exit ends each process that it listed, itself or
\* by its worker, unless the process has been killed and does not die; and one that
\* begins lists each process that runs for a worker, except between Popen and its
\* registration.
ReapedAtExit ==
  /\ \A c \in reap.listed \ reap.left : Running(c) => c \in doomed
  /\ \A c \in Child : (drive[c].pc \in {"pumping", "waiting"} /\ Running(c)) => c \in registered

\* The workers, their processes and the store are of their types, and a worker and
\* its process end in order.
ChildInv == ChildTypeOK /\ GatheredWhenOver /\ NothingLeftRunning /\ ReapedAtExit

\* An orderly exit leaves no process running that it could have ended (child.py:76-77:
\* "the parent reaps it on exit").  The code breaks it (README.md): a worker that
\* has just started a process, or starts one meanwhile, registers it too late.
NoneOutlivesTheExit == [][ExitEnds => \A c \in Child : Running(c) => c \in doomed]_childVars
=============================================================================
