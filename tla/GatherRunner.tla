----------------------------- MODULE GatherRunner -----------------------------
(***************************************************************************)
(* In-session gathers: the job registry, queue and worker pool of each     *)
(* server process, the corpus lease and fleet slot every job takes, the    *)
(* fleet-visible status record, and stopping a gather.                     *)
(*                                                                         *)
(* Sources: ietf_llm/gather/runner.py, ietf_llm/gather/lifecycle.py (lease *)
(* watch, status record), the lease and slots of ietf_llm/store/control.py *)
(* and get_gather_status of ietf_llm/store/cloud.py.                       *)
(*                                                                         *)
(* Several threads run in a host: callers of start and request_stop, N     *)
(* workers and a heartbeat.  One action is what a thread does under        *)
(* _registry_lock, or one request to the bucket.  Publishing is a single   *)
(* step here; CloudPublish details it.  The queue's order is abstracted: a *)
(* worker takes any queued job.                                            *)
(***************************************************************************)
EXTENDS Integers, FiniteSets

CONSTANTS
  Host,       \* server processes (runner._owner); a restarted one is another
  Corpus,
  Gather,     \* calls of start, each with the gather it asks for and its stop token
  Stopper,    \* calls of request_stop
  None,       \* no host, corpus or gather
  Workers,    \* gather_max_inflight: threads per host, and slots in the fleet
  QueueMax,   \* bound on a host's registered jobs
  Faults      \* which faults may happen, a subset of FaultKind

FaultKind == {"spawn",     \* a thread cannot be started
              "lapse",     \* a live job's lease expires before it is renewed
              "error",     \* a request to the bucket fails
              "crash"}     \* a host dies

\* The constants are of the kinds the comments above give them.
ASSUME ConstantsAssumption ==
  /\ None \notin Host \cup Corpus \cup Gather
  /\ Workers \in Nat \ {0} /\ QueueMax \in Nat \ {0}
  /\ Faults \subseteq FaultKind

VARIABLES
  at, of,     \* the host each gather was requested at, and its corpus
  call,       \* where each call of start is
  spec,       \* where each gather's spec is: queued, or how far a worker has got
  seen,       \* the registered job whose token and LeaseWatch its worker read
  end,        \* how each gather ends: its terminal state, whether it publishes it
  jobs,       \* _jobs of each host, with the gather whose token, event and watch
              \*   stand beside the entry
  pool,       \* live worker threads of each host
  beating,    \* is the host's heartbeat thread running?
  event,      \* the cancel event of each gather
  lost,       \* the LeaseWatch of each gather: its lease is lost
  lease,      \* corpora/<name>/lease
  slots,      \* fleet/slots: the (host, corpus) pairs that hold a slot
  record,     \* corpora/<name>/status
  stop,       \* where each call of request_stop is
  asked,      \* history: the gathers a holder of their token asked to stop
  overrun,    \* history: the gathers whose lease or slot lapsed while they went on
  alive       \* hosts that have not died

caller == <<at, of, call>>
worker == <<spec, seen, end>>
local  == <<jobs, pool, beating, event, lost>>
bucket == <<lease, slots, record>>
client == <<stop, asked, overrun>>
vars   == <<caller, worker, local, bucket, client, alive>>

-----------------------------------------------------------------------------
LiveState     == {"queued", "running"}
TerminalState == {"done", "failed", "cancelled"}
RecordState   == {"none"} \cup LiveState \cup TerminalState
CallStage     == {"idle", "cleared", "admitted", "recorded", "started",
                  "undoing", "undone", "refused", "gone"}
\* The stages of a spec at which a worker thread is running it.
Busy          == {"waiting", "requeueing", "slotted", "beginning", "working",
                  "closing", "terminal", "freeing", "releasing", "popping"}
SpecStage     == {"none", "queued", "ended", "gone"} \cup Busy

Record   == [state : RecordState, gather : Gather \cup {None}, flag : BOOLEAN]
StopCall == [pc : {"idle", "allowed", "rereading", "writing", "done"},
             host : Host \cup {None}, corpus : Corpus \cup {None}, copy : Record]
Lease    == [owner : Host \cup {None}, state : {"live", "lapsed", "released"}]
Job      == [state : {"absent", "finishing"} \cup LiveState, gather : Gather \cup {None}]
Ending   == [state : {"none"} \cup TerminalState, publish : BOOLEAN, slot : BOOLEAN]
Absent   == [state |-> "absent", gather |-> None]
NoEnd    == [state |-> "none", publish |-> FALSE, slot |-> FALSE]
NoRecord == [state |-> "none", gather |-> None, flag |-> FALSE]

\* jobs entries of a gather's own host and corpus.
Entry(g)     == jobs[at[g]][of[g]]
Registered(h) == {c \in Corpus : jobs[h][c] # Absent}
BusyAt(h)    == {g \in Gather : at[g] = h /\ spec[g] \in Busy}

\* A job that was admitted and whose worker has not come to release its lease.
Going(g) == call[g] \in {"admitted", "recorded", "started"} /\ spec[g] \notin {"popping", "ended"}
GoingAt(h, c) == {g \in Gather : Going(g) /\ at[g] = h /\ of[g] = c}

SetEntry(g, e) == jobs' = [jobs EXCEPT ![at[g]][of[g]] = e]
SetRecord(g, state, flag) ==
  record' = [record EXCEPT ![of[g]] = [state |-> state, gather |-> seen[g], flag |-> flag]]

Init ==
  /\ at = [g \in Gather |-> None] /\ of = [g \in Gather |-> None]
  /\ call = [g \in Gather |-> "idle"]
  /\ spec = [g \in Gather |-> "none"]
  /\ seen = [g \in Gather |-> None]
  /\ end = [g \in Gather |-> NoEnd]
  /\ jobs = [h \in Host |-> [c \in Corpus |-> Absent]]
  /\ pool = [h \in Host |-> 0]
  /\ beating = [h \in Host |-> FALSE]
  /\ event = [g \in Gather |-> FALSE]
  /\ lost = [g \in Gather |-> FALSE]
  /\ lease = [c \in Corpus |-> [owner |-> None, state |-> "released"]]
  /\ slots = {}
  /\ record = [c \in Corpus |-> NoRecord]
  /\ stop = [s \in Stopper |-> [pc |-> "idle", host |-> None, corpus |-> None, copy |-> NoRecord]]
  /\ asked = {}
  /\ overrun = {}
  /\ alive = Host

-----------------------------------------------------------------------------
(* The lease, without its clock: it is live, it has lapsed, or it was      *)
(* released.  The owner is the host, whichever of its gathers took it.     *)

\* Mutant of Takeable: the lease is granted whoever holds it.
TakeableAlways(h, c) == lease[c].owner \in Host \cup {None}

Takeable(h, c) == lease[c].owner = h \/ lease[c].state # "live"
Holds(h, c)    == lease[c].owner = h /\ lease[c].state # "released"
SetLease(h, c, state) == lease' = [lease EXCEPT ![c] = [owner |-> h, state |-> state]]

\* Mutant of ReadsLive: the record is taken at its word.
ReadsLiveAsWritten(c) == record[c].state \in LiveState

\* get_gather_status: a live record without a live lease is read as interrupted.
ReadsLive(c) == record[c].state \in LiveState /\ lease[c].state = "live"

\* One renewal of the heartbeat, for a registered job.  Its snapshot of the
\* registry may be old, so the job may be finishing by now.
Beat(h, c) ==
  /\ beating[h] /\ h \in alive
  /\ jobs[h][c].gather # None /\ ~lost[jobs[h][c].gather]
  /\ \/ Holds(h, c) /\ SetLease(h, c, "live") /\ lost' = lost
     \/ /\ ~Holds(h, c) \/ "error" \in Faults
        /\ lost' = [lost EXCEPT ![jobs[h][c].gather] = TRUE]
        /\ lease' = lease
  /\ UNCHANGED <<caller, worker, jobs, pool, beating, event, slots, record, client, alive>>

\* Nobody renews the lease in time.
Lapse(c) ==
  /\ lease[c].state = "live"
  /\ \/ "lapse" \in Faults
     \/ lease[c].owner \notin alive
     \/ jobs[lease[c].owner][c] = Absent
  /\ SetLease(lease[c].owner, c, "lapsed")
  /\ overrun' = overrun \cup GoingAt(lease[c].owner, c)
  /\ UNCHANGED <<caller, worker, local, slots, record, stop, asked, alive>>

-----------------------------------------------------------------------------
(* start.                                                                  *)

\* _pre_start_refusal: a gather is visibly in flight somewhere.
Request(g, h, c) ==
  /\ call[g] = "idle" /\ h \in alive
  /\ at' = [at EXCEPT ![g] = h]
  /\ of' = [of EXCEPT ![g] = c]
  /\ call' = [call EXCEPT ![g] = IF ReadsLive(c) THEN "refused" ELSE "cleared"]
  /\ UNCHANGED <<worker, local, bucket, client, alive>>

\* Mutant of Admit: it does not wait for a finishing job to be gone.
AdmitWhileFinishing(g) ==
  /\ call[g] = "cleared"
  /\ Entry(g).state \in {"absent", "finishing"}
  /\ Cardinality(Registered(at[g])) < QueueMax
  /\ Takeable(at[g], of[g])
  /\ SetLease(at[g], of[g], "live")
  /\ SetEntry(g, [state |-> "queued", gather |-> g])
  /\ call' = [call EXCEPT ![g] = "admitted"]
  /\ UNCHANGED <<at, of, worker, pool, beating, event, lost, slots, record, client, alive>>

\* Under the lock: no job of the corpus (a finishing one is waited for), room,
\* and the lease; then the entry, its token, its event and its watch.
Admit(g) ==
  /\ call[g] = "cleared"
  /\ Entry(g) = Absent
  /\ Cardinality(Registered(at[g])) < QueueMax
  /\ Takeable(at[g], of[g])
  /\ SetLease(at[g], of[g], "live")
  /\ SetEntry(g, [state |-> "queued", gather |-> g])
  /\ call' = [call EXCEPT ![g] = "admitted"]
  /\ UNCHANGED <<at, of, worker, pool, beating, event, lost, slots, record, client, alive>>

\* "already running" (which is also the answer when a finishing job does not go
\* away within _FINISH_WAIT_S), or "queue full".
Refuse(g) ==
  /\ call[g] = "cleared"
  /\ \/ Entry(g) # Absent
     \/ Cardinality(Registered(at[g])) >= QueueMax
     \/ ~Takeable(at[g], of[g])
  /\ call' = [call EXCEPT ![g] = "refused"]
  /\ UNCHANGED <<at, of, worker, local, bucket, client, alive>>

\* Mutant of WriteQueued: it is written before the lease is taken.
WriteQueuedEarly(g) ==
  /\ call[g] \in {"cleared", "admitted"}
  /\ record' = [record EXCEPT ![of[g]] = [state |-> "queued", gather |-> g, flag |-> FALSE]]
  /\ call' = [call EXCEPT ![g] = IF @ = "admitted" THEN "recorded" ELSE @]
  /\ UNCHANGED <<at, of, worker, local, lease, slots, client, alive>>

\* The queued record, before the job can reach a worker; a failed put is logged.
WriteQueued(g) ==
  /\ call[g] = "admitted"
  /\ \/ record' = [record EXCEPT ![of[g]] = [state |-> "queued", gather |-> g, flag |-> FALSE]]
     \/ ("error" \in Faults /\ record' = record)
  /\ call' = [call EXCEPT ![g] = "recorded"]
  /\ UNCHANGED <<at, of, worker, local, lease, slots, client, alive>>

\* put and _ensure_worker, which starts the missing workers and, only when some
\* were missing, the heartbeat.
Enqueue(g) ==
  /\ call[g] = "recorded"
  /\ spec' = [spec EXCEPT ![g] = "queued"]
  /\ pool' = [pool EXCEPT ![at[g]] = Workers]
  /\ beating' = [beating EXCEPT ![at[g]] = @ \/ pool[at[g]] < Workers]
  /\ call' = [call EXCEPT ![g] = "started"]
  /\ UNCHANGED <<at, of, seen, end, jobs, event, lost, bucket, client, alive>>

\* A thread cannot be started, after some of the workers or all of them were:
\* the spec is in the queue by then.
SpawnFails(g) ==
  /\ "spawn" \in Faults
  /\ call[g] = "recorded"
  /\ pool[at[g]] < Workers
  /\ spec' = [spec EXCEPT ![g] = "queued"]
  /\ \E n \in pool[at[g]]..Workers :
       /\ n = Workers => ~beating[at[g]]
       /\ pool' = [pool EXCEPT ![at[g]] = n]
  /\ call' = [call EXCEPT ![g] = "undoing"]
  /\ UNCHANGED <<at, of, seen, end, jobs, beating, event, lost, bucket, client, alive>>

\* The rollback: the entry goes, and then the lease.
Undo(g) ==
  /\ call[g] = "undoing"
  /\ SetEntry(g, Absent)
  /\ call' = [call EXCEPT ![g] = "undone"]
  /\ UNCHANGED <<at, of, worker, pool, beating, event, lost, bucket, client, alive>>

UndoLease(g) ==
  /\ call[g] = "undone"
  /\ IF Holds(at[g], of[g]) THEN SetLease(at[g], of[g], "released") ELSE lease' = lease
  /\ call' = [call EXCEPT ![g] = "refused"]
  /\ UNCHANGED <<at, of, worker, local, slots, record, client, alive>>

-----------------------------------------------------------------------------
(* A worker and one spec (_worker_loop, _run_one).                         *)

Goto(g, stage) == spec' = [spec EXCEPT ![g] = stage]
MySlot(g) == <<at[g], of[g]>>
Lost(g) == seen[g] # None /\ lost[seen[g]]

\* _cancel_requested: the event beside the registry entry, or the record's flag.
CancelRequested(g) ==
  \/ Entry(g).gather # None /\ event[Entry(g).gather]
  \/ record[of[g]].flag

\* A worker takes the spec and reads the corpus's token and watch.
Take(g) ==
  /\ spec[g] = "queued"
  /\ Cardinality(BusyAt(at[g])) < pool[at[g]]
  /\ seen' = [seen EXCEPT ![g] = Entry(g).gather]
  /\ Goto(g, "waiting")
  /\ UNCHANGED <<caller, end, local, bucket, client, alive>>

\* Mutant of SlotFree: one more than there may be.
SlotFreeLoosely(g) == MySlot(g) \in slots \/ Cardinality(slots) <= Workers

SlotFree(g) == MySlot(g) \in slots \/ Cardinality(slots) < Workers

\* acquire_gather_slot answers True.
GetSlot(g) ==
  /\ spec[g] = "waiting"
  /\ SlotFree(g)
  /\ slots' = slots \cup {MySlot(g)}
  /\ Goto(g, "slotted")
  /\ UNCHANGED <<caller, seen, end, local, lease, record, client, alive>>

\* The terminal state is settled; it is published unless the gather is fenced.
End(g, state, publish) ==
  /\ end' = [end EXCEPT ![g] = [state |-> state, publish |-> publish,
                                slot |-> spec[g] \in {"slotted", "working"}]]
  /\ Goto(g, "closing")

\* No slot: stop if the lease is lost, or if a stop was requested ...
GiveUpWaiting(g) ==
  /\ spec[g] = "waiting" /\ ~SlotFree(g)
  /\ \/ Lost(g) /\ End(g, "failed", FALSE)
     \/ ~Lost(g) /\ CancelRequested(g) /\ End(g, "cancelled", TRUE)
  /\ UNCHANGED <<caller, seen, local, bucket, client, alive>>

\* ... or else publish the queued record again, and ask again.
KeepWaiting(g) ==
  /\ spec[g] = "waiting" /\ ~SlotFree(g)
  /\ ~Lost(g) /\ ~CancelRequested(g)
  /\ Goto(g, "requeueing")
  /\ UNCHANGED <<caller, seen, end, local, bucket, client, alive>>

Requeue(g) ==
  /\ spec[g] = "requeueing"
  /\ \/ SetRecord(g, "queued", FALSE)
     \/ ("error" \in Faults /\ record' = record)
  /\ Goto(g, "waiting")
  /\ UNCHANGED <<caller, seen, end, local, lease, slots, client, alive>>

\* The slot request raises, and so does _run_one: no terminal record.
WaitFails(g) ==
  /\ "error" \in Faults
  /\ spec[g] = "waiting"
  /\ Goto(g, "releasing")
  /\ UNCHANGED <<caller, seen, end, local, bucket, client, alive>>

\* The lease went while the job sat in the queue.
LostInQueue(g) ==
  /\ spec[g] = "slotted" /\ Lost(g)
  /\ End(g, "failed", FALSE)
  /\ UNCHANGED <<caller, seen, local, bucket, client, alive>>

\* _jobs[corpus] = "running", whether or not an entry is there.
SetRunning(g) ==
  /\ spec[g] = "slotted" /\ ~Lost(g)
  /\ SetEntry(g, [state |-> "running", gather |-> Entry(g).gather])
  /\ Goto(g, "beginning")
  /\ UNCHANGED <<caller, seen, end, pool, beating, event, lost, bucket, client, alive>>

WriteRunning(g) ==
  /\ spec[g] = "beginning"
  /\ \/ SetRecord(g, "running", FALSE)
     \/ ("error" \in Faults /\ record' = record)
  /\ Goto(g, "working")
  /\ UNCHANGED <<caller, seen, end, local, lease, slots, client, alive>>

\* _progress and note: the record is written again.  Between two polls of the
\* stop flag a chatty stage reports without looking at it; _progress looks at the
\* watch first, but the notes of preparing, running and publishing do not.
Report(g) ==
  /\ spec[g] = "working"
  /\ SetRecord(g, "running", FALSE)
  /\ UNCHANGED <<caller, worker, local, lease, slots, client, alive>>

\* A checkpoint finds the lease lost or a stop requested: GatherCancelled.
Interrupted(g) ==
  /\ spec[g] = "working"
  /\ \/ Lost(g) /\ End(g, "failed", FALSE)
     \/ ~Lost(g) /\ CancelRequested(g) /\ End(g, "cancelled", TRUE)
  /\ UNCHANGED <<caller, seen, local, bucket, client, alive>>

\* The pipeline fails, or has nothing to do, or its tree is published; the store
\* refuses to publish it (LeaseLost) when the lease is no longer held.
Finish(g) ==
  /\ spec[g] = "working"
  /\ \/ \E state \in {"done", "failed"} : End(g, state, TRUE)
     \/ (Lost(g) \/ ~Holds(at[g], of[g])) /\ End(g, "failed", FALSE)
  /\ UNCHANGED <<caller, seen, local, bucket, client, alive>>

MarkFinishing(g) ==
  /\ spec[g] = "closing"
  /\ SetEntry(g, IF Entry(g) = Absent THEN Absent
                 ELSE [state |-> "finishing", gather |-> Entry(g).gather])
  /\ Goto(g, "terminal")
  /\ UNCHANGED <<caller, seen, end, pool, beating, event, lost, bucket, client, alive>>

WriteTerminal(g) ==
  /\ spec[g] = "terminal"
  /\ \/ end[g].publish /\ SetRecord(g, end[g].state, end[g].state = "cancelled")
     \/ (~end[g].publish \/ "error" \in Faults) /\ record' = record
  /\ Goto(g, "freeing")
  /\ UNCHANGED <<caller, seen, end, local, lease, slots, client, alive>>

\* A slot that could not be given back expires.
FreeSlot(g) ==
  /\ spec[g] = "freeing"
  /\ \/ slots' = IF end[g].slot THEN slots \ {MySlot(g)} ELSE slots
     \/ "error" \in Faults /\ slots' = slots
  /\ Goto(g, "releasing")
  /\ UNCHANGED <<caller, seen, end, local, lease, record, client, alive>>

\* The worker loop's finally: the lease, and then the registry entry.
ReleaseLease(g) ==
  /\ spec[g] = "releasing"
  /\ \/ Holds(at[g], of[g]) /\ SetLease(at[g], of[g], "released")
     \/ (~Holds(at[g], of[g]) \/ "error" \in Faults) /\ lease' = lease
  /\ Goto(g, "popping")
  /\ UNCHANGED <<caller, seen, end, local, slots, record, client, alive>>

\* Mutant of Pop: the entry stays.
PopNothing(g) ==
  /\ spec[g] = "popping"
  /\ Goto(g, "ended")
  /\ UNCHANGED <<caller, seen, end, local, bucket, client, alive>>

Pop(g) ==
  /\ spec[g] = "popping"
  /\ SetEntry(g, Absent)
  /\ Goto(g, "ended")
  /\ UNCHANGED <<caller, seen, end, pool, beating, event, lost, bucket, client, alive>>

-----------------------------------------------------------------------------
(* request_stop.                                                           *)

\* The token is checked against the record of the corpus.
StopRead(s, h, g) ==
  /\ stop[s].pc = "idle" /\ h \in alive
  /\ of[g] # None /\ ReadsLive(of[g]) /\ record[of[g]].gather = g
  /\ stop' = [stop EXCEPT ![s] = [pc |-> "allowed", host |-> h, corpus |-> of[g], copy |-> record[of[g]]]]
  /\ asked' = asked \cup {g}
  /\ UNCHANGED <<caller, worker, local, bucket, overrun, alive>>

StopGoto(s, pc) == stop' = [stop EXCEPT ![s].pc = pc, ![s].copy = NoRecord]
StopDone(s) == StopGoto(s, "done")

\* Mutant of StopHere: the flag is also put into the record that was read.
StopHereWritesBack(s) ==
  /\ stop[s].pc = "allowed"
  /\ LET g == jobs[stop[s].host][stop[s].corpus].gather
     IN  g # None /\ event' = [event EXCEPT ![g] = TRUE]
  /\ record' = [record EXCEPT ![stop[s].corpus] = [stop[s].copy EXCEPT !.flag = TRUE]]
  /\ StopDone(s)
  /\ UNCHANGED <<caller, worker, jobs, pool, beating, lost, lease, slots, asked, overrun, alive>>

\* The corpus's event is on this host: it is set, and that is all.
StopHere(s) ==
  /\ stop[s].pc = "allowed"
  /\ LET g == jobs[stop[s].host][stop[s].corpus].gather
     IN  g # None /\ event' = [event EXCEPT ![g] = TRUE]
  /\ StopDone(s)
  /\ UNCHANGED <<caller, worker, jobs, pool, beating, lost, bucket, asked, overrun, alive>>

\* It is not (another host's job, or none) ...
StopElsewhere(s) ==
  /\ stop[s].pc = "allowed"
  /\ jobs[stop[s].host][stop[s].corpus].gather = None
  /\ StopGoto(s, "rereading")
  /\ UNCHANGED <<caller, worker, local, bucket, asked, overrun, alive>>

\* ... so the record is read again, and left alone if it is terminal ...
StopReread(s) ==
  /\ stop[s].pc = "rereading"
  /\ IF ReadsLive(stop[s].corpus)
     THEN stop' = [stop EXCEPT ![s].pc = "writing", ![s].copy = record[stop[s].corpus]]
     ELSE StopDone(s)
  /\ UNCHANGED <<caller, worker, local, bucket, asked, overrun, alive>>

\* ... or put back with the flag.
StopWrite(s) ==
  /\ stop[s].pc = "writing"
  /\ record' = [record EXCEPT ![stop[s].corpus] = [stop[s].copy EXCEPT !.flag = TRUE]]
  /\ StopDone(s)
  /\ UNCHANGED <<caller, worker, local, lease, slots, asked, overrun, alive>>

-----------------------------------------------------------------------------
\* The host's process dies with everything it had in memory.
Crash(h) ==
  /\ "crash" \in Faults
  /\ h \in alive
  /\ alive' = alive \ {h}
  /\ call' = [g \in Gather |-> IF at[g] = h THEN "gone" ELSE call[g]]
  /\ spec' = [g \in Gather |-> IF at[g] = h THEN "gone" ELSE spec[g]]
  /\ jobs' = [jobs EXCEPT ![h] = [c \in Corpus |-> Absent]]
  /\ pool' = [pool EXCEPT ![h] = 0]
  /\ beating' = [beating EXCEPT ![h] = FALSE]
  /\ stop' = [s \in Stopper |-> IF stop[s].host = h THEN [stop[s] EXCEPT !.pc = "done"] ELSE stop[s]]
  /\ UNCHANGED <<at, of, seen, end, event, lost, bucket, asked, overrun>>

\* A slot that nobody renews expires.
SlotLapse(h, c) ==
  /\ <<h, c>> \in slots
  /\ "lapse" \in Faults \/ h \notin alive \/ jobs[h][c] = Absent
  /\ slots' = slots \ {<<h, c>>}
  /\ overrun' = overrun \cup GoingAt(h, c)
  /\ UNCHANGED <<caller, worker, local, lease, record, stop, asked, alive>>

CallStep(g) ==
  Admit(g) \/ Refuse(g) \/ WriteQueued(g) \/ Enqueue(g) \/ SpawnFails(g) \/ Undo(g) \/ UndoLease(g)

WorkStep(g) ==
  \/ GetSlot(g) \/ GiveUpWaiting(g) \/ KeepWaiting(g) \/ Requeue(g) \/ WaitFails(g)
  \/ LostInQueue(g) \/ SetRunning(g) \/ WriteRunning(g) \/ Interrupted(g) \/ Finish(g)
  \/ MarkFinishing(g) \/ WriteTerminal(g) \/ FreeSlot(g) \/ ReleaseLease(g) \/ Pop(g)

StopStep(s) == StopHere(s) \/ StopElsewhere(s) \/ StopReread(s) \/ StopWrite(s)

Next ==
  \/ \E g \in Gather :
       \/ \E h \in Host, c \in Corpus : Request(g, h, c)
       \/ CallStep(g) \/ Take(g) \/ WorkStep(g) \/ Report(g)
  \/ \E h \in Host, c \in Corpus : Beat(h, c) \/ SlotLapse(h, c)
  \/ \E c \in Corpus : Lapse(c)
  \/ \E s \in Stopper : StopStep(s) \/ \E h \in Host, g \in Gather : StopRead(s, h, g)
  \/ \E h \in Host : Crash(h)

Spec == Init /\ [][Next]_vars

\* Threads run, a worker that is free takes a job, a gather's pipeline ends, and
\* what nobody renews lapses.
FairSpec ==
  /\ Spec
  /\ \A g \in Gather : WF_vars(CallStep(g)) /\ WF_vars(Take(g)) /\ WF_vars(WorkStep(g))
  /\ \A c \in Corpus : WF_vars(Lapse(c)) /\ \A h \in Host : WF_vars(SlotLapse(h, c))

-----------------------------------------------------------------------------
(* Properties.                                                             *)

\* Every variable stays within the values its comment gives.
TypeOK ==
  /\ at \in [Gather -> Host \cup {None}]
  /\ of \in [Gather -> Corpus \cup {None}]
  /\ call \in [Gather -> CallStage]
  /\ spec \in [Gather -> SpecStage]
  /\ seen \in [Gather -> Gather \cup {None}]
  /\ end \in [Gather -> Ending]
  /\ jobs \in [Host -> [Corpus -> Job]]
  /\ pool \in [Host -> 0..Workers]
  /\ beating \in [Host -> BOOLEAN]
  /\ event \in [Gather -> BOOLEAN]
  /\ lost \in [Gather -> BOOLEAN]
  /\ lease \in [Corpus -> Lease]
  /\ slots \subseteq Host \X Corpus
  /\ record \in [Corpus -> Record]
  /\ stop \in [Stopper -> StopCall]
  /\ asked \subseteq Gather
  /\ overrun \subseteq Gather
  /\ alive \subseteq Host

\* One gather per corpus at a time within a server process (docs/architecture.md),
\* for as long as a worker has anything left to do for it: the registry, the
\* finishing state and the wait in start keep a client that restarts on seeing
\* the terminal record away from the old job's cleanup.
OneGatherPerCorpus ==
  \A g, k \in Gather :
    (spec[g] \in Busy /\ spec[k] \in Busy /\ at[g] = at[k] /\ of[g] = of[k]) => g = k

\* No job loses its lease or its slot to its own host: while a job is queued or
\* running, nobody there releases the lease it was admitted with (start:
\* "admitting the new one earlier would let the old worker's cleanup release the
\* new job's lease and slot, which share the old one's owner").
LeaseNotPulled ==
  \A g \in Gather :
    (call[g] \in {"admitted", "recorded", "started"} /\ spec[g] \notin {"popping", "ended"})
      => ~(lease[of[g]] = [owner |-> at[g], state |-> "released"])

\* A client may restart a corpus as soon as it sees that its gather is over: what the
\* old job still has to clean up and the new job keep out of each other's way.
CleanupApart == OneGatherPerCorpus /\ LeaseNotPulled

\* The whole fleet works on a corpus once at a time, but for gathers whose lease
\* lapsed under them (docs/storage.md, "One gatherer per corpus").
AtWork == {"waiting", "requeueing", "slotted", "beginning", "working"}
OneGatherInFleet ==
  \A g, k \in Gather \ overrun :
    (spec[g] \in AtWork /\ spec[k] \in AtWork /\ of[g] = of[k]) => g = k

\* The slots of the fleet, as FleetRecords implements them.
Slots == INSTANCE GatherSlots
  WITH Holder <- Host \X Corpus, Cap <- Workers, taken <- slots, live <- slots

\* "At most IETF_LLM_GATHER_MAX_INFLIGHT gathers run across the fleet" (docs/storage.md),
\* but for those whose slot lapsed under them: a job that works has a slot of its own,
\* which nobody gives back for it, neither its corpus's last job on the host nor a host
\* that died nor one that was late to renew.
InSlot == {"slotted", "beginning", "working"}
WorkWithinCap == Cardinality({g \in Gather \ overrun : spec[g] \in InSlot}) <= Workers

\* Hosts that gather at the same time keep out of each other's corpora, and within the cap.
FleetBounds == OneGatherInFleet /\ WorkWithinCap

\* A stop that is written into the record, because the gather is not this host's.
Flagged == \E s \in Stopper : StopWrite(s)

\* A gather's fleet record goes from queued to running to one terminal state and never
\* back, whichever thread or host writes it, and also after its lease was lost (start's
\* "Ordering matters") or a stop put an older copy of it back: a stop on the gather's
\* own host replaces nothing (request_stop: a worker "would have its terminal record
\* replaced by our stale copy").  The flag of another host's stop may, as
\* request_stop says.
Rank(state) == CASE state = "none" -> 0 [] state = "queued" -> 1 [] state = "running" -> 2 [] OTHER -> 3
RecordForward ==
  [][\A c \in Corpus : LET old == record[c]  new == record'[c] IN
       (old.gather # None /\ new.gather = old.gather /\ new # old /\ ~Flagged) =>
          Rank(old.state) <= Rank(new.state) /\ old.state \notin TerminalState]_vars

\* Whoever writes the fleet record of a corpus holds its lease, but for a stop's flag
\* and for a gather whose lease lapsed under it: such a gather may write over the
\* record of the holder (LostStaysLocal).
RecordIsHolders ==
  [][\A c \in Corpus : LET g == record'[c].gather IN
       (record'[c] # record[c] /\ g # None /\ g \notin overrun /\ ~Flagged)
         => lease[c].owner = at[g]]_vars

\* The fleet's record of a corpus tells one gather's progress, in order, and only
\* while that gather holds the corpus or has outrun its lease.
RecordTrue == RecordForward /\ RecordIsHolders

\* A pipeline whose lease is known to be lost reports nothing to the fleet any more ("Set
\* once the gather has lost its lease: records stay local from then on",
\* StatusRecorder.fenced).  The code violates it: the recorder of an in-session gather is
\* never fenced, and its notes do not look at the watch.
LostStaysLocal ==
  [][\A g \in Gather :
       (spec[g] = "working" /\ Lost(g) /\ record'[of[g]] # record[of[g]])
         => record'[of[g]].gather # g]_vars

\* A gather is cancelled only when the holder of its own token asked for it
\* (request_stop: "only its holder can stop the gather").
StopsItsOwn ==
  \A g \in Gather : end[g].state = "cancelled" => g \in asked

\* A gather whose start was rolled back is not run ("no worker will ever run this spec
\* -- so roll back here", start).  The code violates it when a thread cannot be
\* started: the spec is in the queue, and the workers that did start take it.
RolledBackIsOver ==
  \A g \in Gather : call[g] \in {"undoing", "undone", "refused"} => spec[g] \notin Busy

\* A host that runs gathers has a heartbeat (_ensure_worker: "and a lease/slot
\* heartbeat is running").
HeartbeatRuns ==
  \A g \in Gather : call[g] = "started" /\ spec[g] \in Busy => beating[at[g]]

\* Every admitted job leaves the registry of a host that stays up, whatever
\* fails on the way: no corpus is stranded as "already running".
JobsEnd ==
  \A g \in Gather : call[g] = "admitted" ~> (call[g] \in {"idle", "gone"} \/ Entry(g).gather # g)

\* No corpus is reported in flight for ever: the record becomes terminal or reads
\* as interrupted, also after a crash and after a put that failed.
RecordSettles ==
  \A g \in Gather, c \in Corpus :
    (record[c].gather = g /\ ReadsLive(c)) ~> ~(record[c].gather = g /\ ReadsLive(c))
=============================================================================
