-------------------------- MODULE GatherRunnerProofs --------------------------
(***************************************************************************)
(* Proofs about GatherRunner, for any number of hosts, corpora, gathers,   *)
(* workers and stop calls: its types, and, when threads can be started,    *)
(* that a host works on a corpus once at a time and never releases the     *)
(* lease of a job of its own that is still going on; that the gathers      *)
(* whose lease and slot did not lapse under them are one for a corpus in   *)
(* the fleet and no more than the slots; and that a corpus's record goes   *)
(* forward and is written by its holder, but for the gathers whose lease   *)
(* lapsed.                                                                 *)
(*                                                                         *)
(* All rest on Ownership: from its admission to its worker's last step a  *)
(* gather's registry entry is its own.                                     *)
(***************************************************************************)
EXTENDS GatherRunner, FiniteSetTheorems, TLAPS

\* A call of start that began, and a stop that was allowed, are about a host and
\* a corpus.
Placed ==
  /\ \A g \in Gather : at[g] = None <=> of[g] = None
  /\ \A g \in Gather : call[g] # "idle" \/ spec[g] # "none" => at[g] # None
  /\ \A s \in Stopper : stop[s].pc \in {"allowed", "rereading", "writing"} => stop[s].corpus # None

(***************************************************************************)
(* Types.                                                                  *)
(***************************************************************************)

LEMMA TypeInit == Init => TypeOK
  BY ConstantsAssumption, SMTT(30) DEF Init, TypeOK, Absent, NoEnd, NoRecord, CallStage, SpecStage,
     RecordState, LiveState, TerminalState, Record, Busy,
     StopCall, Lease, Job, Ending

LEMMA TypeStart ==
  ASSUME TypeOK, NEW g \in Gather, NEW h \in Host, NEW c \in Corpus, Request(g, h, c)
  PROVE  TypeOK'
  BY DEF TypeOK, Request, CallStage, worker, local, bucket, client

LEMMA LeaseTyped ==
  ASSUME TypeOK, NEW h \in Host \cup {None}, NEW c \in Corpus,
         NEW state \in {"live", "lapsed", "released"}, SetLease(h, c, state)
  PROVE  lease' \in [Corpus -> Lease]
<1>1. [owner |-> h, state |-> state] \in Lease
  BY DEF Lease
<1> QED BY <1>1 DEF TypeOK, SetLease

LEMMA TypeCall ==
  ASSUME TypeOK, NEW g \in Gather, at[g] \in Host, of[g] \in Corpus, CallStep(g)
  PROVE  TypeOK'
<1> USE DEF caller, worker, local, bucket, client
<1>1. CASE Admit(g)
  <2>1. lease' \in [Corpus -> Lease]
    BY <1>1, LeaseTyped DEF Admit
  <2>2. [state |-> "queued", gather |-> g] \in Job
    BY DEF Job, LiveState
  <2>3. jobs' \in [Host -> [Corpus -> Job]]
    BY <1>1, <2>2 DEF Admit, SetEntry, TypeOK
  <2> QED BY <1>1, <2>1, <2>3 DEF TypeOK, Admit, CallStage
<1>2. CASE Refuse(g)
  BY <1>2 DEF TypeOK, Refuse, CallStage
<1>3. CASE WriteQueued(g)
  <2>1. [state |-> "queued", gather |-> g, flag |-> FALSE] \in Record
    BY DEF Record, RecordState, LiveState
  <2>2. record' \in [Corpus -> Record]
    BY <1>3, <2>1 DEF WriteQueued, TypeOK
  <2> QED BY <1>3, <2>2 DEF TypeOK, WriteQueued, CallStage
<1>4. CASE Enqueue(g)
  BY <1>4, ConstantsAssumption DEF TypeOK, Enqueue, CallStage, SpecStage
<1>5. CASE SpawnFails(g)
  BY <1>5, ConstantsAssumption DEF TypeOK, SpawnFails, CallStage, SpecStage
<1>6. CASE Undo(g)
  <2>1. Absent \in Job
    BY DEF Absent, Job
  <2>2. jobs' \in [Host -> [Corpus -> Job]]
    BY <1>6, <2>1 DEF Undo, SetEntry, TypeOK
  <2> QED BY <1>6, <2>2 DEF TypeOK, Undo, CallStage
<1>7. CASE UndoLease(g)
  <2>1. lease' \in [Corpus -> Lease]
    BY <1>7, LeaseTyped DEF UndoLease, TypeOK
  <2> QED BY <1>7, <2>1 DEF TypeOK, UndoLease, CallStage
<1> QED BY <1>1, <1>2, <1>3, <1>4, <1>5, <1>6, <1>7 DEF CallStep

\* The record a worker writes is a record.
LEMMA RecordTyped ==
  ASSUME TypeOK, NEW g \in Gather, NEW state \in RecordState, NEW flag \in BOOLEAN,
         SetRecord(g, state, flag)
  PROVE  record' \in [Corpus -> Record]
<1>1. [state |-> state, gather |-> seen[g], flag |-> flag] \in Record
  BY DEF TypeOK, Record
<1> QED BY <1>1 DEF TypeOK, SetRecord

\* How a gather ends is typed, and where its spec goes then.
LEMMA EndTyped ==
  ASSUME TypeOK, NEW g \in Gather, NEW state \in TerminalState, NEW publish \in BOOLEAN,
         End(g, state, publish)
  PROVE  /\ end' \in [Gather -> Ending]
         /\ spec' \in [Gather -> SpecStage]
<1>1. (spec[g] \in {"slotted", "working"}) \in BOOLEAN
  OBVIOUS
<1>2. spec' = [spec EXCEPT ![g] = "closing"]
  BY DEF End, Goto
<1>3. spec' \in [Gather -> SpecStage]
  BY <1>2 DEF TypeOK, SpecStage, Busy
<1> DEFINE e == [state |-> state, publish |-> publish, slot |-> spec[g] \in {"slotted", "working"}]
<1>4. e \in Ending
  BY <1>1 DEF Ending
<1>5. end' = [end EXCEPT ![g] = e]
  BY DEF End
<1> HIDE DEF e
<1> QED BY <1>3, <1>4, <1>5 DEF TypeOK

LEMMA TypeWork ==
  ASSUME TypeOK, NEW g \in Gather, at[g] \in Host, of[g] \in Corpus,
         Take(g) \/ WorkStep(g) \/ Report(g)
  PROVE  TypeOK'
<1> USE DEF caller, worker, local, bucket, client
<1>1. CASE Take(g)
  <2>1. seen' \in [Gather -> Gather \cup {None}]
    BY <1>1 DEF Take, Entry, TypeOK, Job
  <2>2. spec' \in [Gather -> SpecStage]
    BY <1>1 DEF Take, Goto, TypeOK, SpecStage, Busy
  <2> QED BY <1>1, <2>1, <2>2 DEF TypeOK, Take
<1>2. CASE Report(g)
  <2>1. record' \in [Corpus -> Record]
    BY <1>2, RecordTyped DEF Report, RecordState, LiveState
  <2> QED BY <1>2, <2>1 DEF TypeOK, Report
<1>3. CASE GetSlot(g)
  BY <1>3 DEF TypeOK, GetSlot, Goto, MySlot, SpecStage, Busy
<1>4. CASE GiveUpWaiting(g) \/ LostInQueue(g) \/ Interrupted(g) \/ Finish(g)
  <2>1. \E state \in TerminalState, publish \in BOOLEAN : End(g, state, publish)
    BY <1>4 DEF GiveUpWaiting, LostInQueue, Interrupted, Finish, TerminalState
  <2>2. /\ end' \in [Gather -> Ending]
        /\ spec' \in [Gather -> SpecStage]
    BY <2>1, EndTyped
  <2>3. UNCHANGED <<caller, seen, local, bucket, client, alive>>
    BY <1>4 DEF GiveUpWaiting, LostInQueue, Interrupted, Finish
  <2> QED BY <2>2, <2>3 DEF TypeOK
<1>5. CASE KeepWaiting(g) \/ WaitFails(g)
  BY <1>5 DEF TypeOK, KeepWaiting, WaitFails, Goto, SpecStage, Busy
<1>6. CASE Requeue(g) \/ WriteRunning(g) \/ WriteTerminal(g)
  <2>1. record' \in [Corpus -> Record]
    <3>1. CASE record' = record
      BY <3>1 DEF TypeOK
    <3>2. CASE SetRecord(g, "queued", FALSE) \/ SetRecord(g, "running", FALSE)
      BY <3>2, RecordTyped DEF RecordState, LiveState
    <3>3. CASE SetRecord(g, end[g].state, end[g].state = "cancelled")
      <4>1. end[g].state \in RecordState /\ (end[g].state = "cancelled") \in BOOLEAN
        BY DEF TypeOK, RecordState, Ending
      <4> QED BY <3>3, <4>1, RecordTyped
    <3> QED BY <1>6, <3>1, <3>2, <3>3 DEF Requeue, WriteRunning, WriteTerminal
  <2>2. spec' \in [Gather -> SpecStage]
    BY <1>6 DEF Requeue, WriteRunning, WriteTerminal, Goto, TypeOK, SpecStage, Busy
  <2>3. UNCHANGED <<caller, seen, end, local, lease, slots, client, alive>>
    BY <1>6 DEF Requeue, WriteRunning, WriteTerminal
  <2> QED BY <2>1, <2>2, <2>3 DEF TypeOK
<1>7. CASE SetRunning(g) \/ MarkFinishing(g) \/ Pop(g)
  <2>1. jobs' \in [Host -> [Corpus -> Job]]
    <3>1. \E e \in Job :
             SetEntry(g, e)
      BY <1>7 DEF SetRunning, MarkFinishing, Pop, Entry, Absent, TypeOK, LiveState, Job
    <3> QED BY <3>1 DEF SetEntry, TypeOK
  <2>2. spec' \in [Gather -> SpecStage]
    BY <1>7 DEF SetRunning, MarkFinishing, Pop, Goto, TypeOK, SpecStage, Busy
  <2>3. UNCHANGED <<caller, seen, end, pool, beating, event, lost, bucket, client, alive>>
    BY <1>7 DEF SetRunning, MarkFinishing, Pop
  <2> QED BY <2>1, <2>2, <2>3 DEF TypeOK
<1>8. CASE FreeSlot(g)
  BY <1>8 DEF TypeOK, FreeSlot, Goto, MySlot, SpecStage, Busy
<1>9. CASE ReleaseLease(g)
  <2>1. lease' \in [Corpus -> Lease]
    BY <1>9, LeaseTyped DEF ReleaseLease, TypeOK
  <2>2. spec' \in [Gather -> SpecStage]
    BY <1>9 DEF ReleaseLease, Goto, TypeOK, SpecStage, Busy
  <2> QED BY <1>9, <2>1, <2>2 DEF TypeOK, ReleaseLease
<1> QED BY <1>1, <1>2, <1>3, <1>4, <1>5, <1>6, <1>7, <1>8, <1>9 DEF WorkStep

\* A stop call that only moves on is typed.
LEMMA StopMoves ==
  ASSUME TypeOK, NEW s \in Stopper, NEW x \in {"rereading", "done"},
         StopGoto(s, x)
  PROVE  stop' \in [Stopper -> StopCall]
<1> DEFINE new == [stop[s] EXCEPT !.pc = x, !.copy = NoRecord]
<1>1. NoRecord \in Record
  BY DEF NoRecord, Record, RecordState
<1>2. new \in StopCall
  <2>1. stop[s] \in StopCall
    BY DEF TypeOK
  <2> HIDE DEF NoRecord
  <2> QED BY <1>1, <2>1 DEF StopCall
<1>3. stop' = [stop EXCEPT ![s] = new]
  BY DEF StopGoto, TypeOK
<1> HIDE DEF new
<1> QED BY <1>2, <1>3 DEF TypeOK

LEMMA TypeWorld ==
  ASSUME TypeOK, Placed,
         \/ \E h \in Host, c \in Corpus : Beat(h, c) \/ SlotLapse(h, c)
         \/ \E c \in Corpus : Lapse(c)
         \/ \E s \in Stopper : StopStep(s) \/ \E h \in Host, g \in Gather : StopRead(s, h, g)
         \/ \E h \in Host : Crash(h)
         \/ UNCHANGED vars
  PROVE  TypeOK'
<1> USE DEF caller, worker, local, bucket, client
<1>1. ASSUME NEW h \in Host, NEW c \in Corpus, Beat(h, c)
      PROVE  TypeOK'
  <2>1. lease' \in [Corpus -> Lease]
    BY <1>1, LeaseTyped DEF Beat, TypeOK
  <2>2. lost' \in [Gather -> BOOLEAN]
    BY <1>1 DEF Beat, TypeOK
  <2> QED BY <1>1, <2>1, <2>2 DEF TypeOK, Beat
<1>2. ASSUME NEW h \in Host, NEW c \in Corpus, SlotLapse(h, c)
      PROVE  TypeOK'
  BY <1>2 DEF TypeOK, SlotLapse, GoingAt
<1>3. ASSUME NEW c \in Corpus, Lapse(c)
      PROVE  TypeOK'
  <2>1. lease[c].owner \in Host \cup {None}
    BY DEF TypeOK, Lease
  <2>2. lease' \in [Corpus -> Lease]
    BY <1>3, <2>1, LeaseTyped DEF Lapse
  <2> QED BY <1>3, <2>2 DEF TypeOK, Lapse, GoingAt
<1>4. ASSUME NEW s \in Stopper, StopHere(s)
      PROVE  TypeOK'
  <2>1. stop' \in [Stopper -> StopCall]
    BY <1>4, StopMoves DEF StopHere, StopDone
  <2>2. event' \in [Gather -> BOOLEAN]
    BY <1>4 DEF StopHere, TypeOK
  <2> QED BY <1>4, <2>1, <2>2 DEF TypeOK, StopHere
<1>5. ASSUME NEW s \in Stopper, StopElsewhere(s)
      PROVE  TypeOK'
  <2>1. stop' \in [Stopper -> StopCall]
    BY <1>5, StopMoves DEF StopElsewhere
  <2> QED BY <1>5, <2>1 DEF TypeOK, StopElsewhere
<1>6. ASSUME NEW s \in Stopper, StopReread(s)
      PROVE  TypeOK'
  <2>0. stop[s].pc = "rereading" /\ stop[s].corpus # None
    BY <1>6 DEF Placed, StopReread
  <2>1. stop[s] \in StopCall /\ stop[s].corpus \in Corpus
    <3>1. stop[s] \in StopCall
      BY DEF TypeOK
    <3> QED BY <2>0, <3>1 DEF StopCall
  <2>2. CASE ReadsLive(stop[s].corpus)
    <3> DEFINE copy == record[stop[s].corpus]
               new == [stop[s] EXCEPT !.pc = "writing", !.copy = copy]
    <3>1. copy \in Record
      BY <2>1 DEF TypeOK
    <3>2. stop' = [stop EXCEPT ![s] = new]
      BY <1>6, <2>2 DEF StopReread, TypeOK
    <3> HIDE DEF copy
    <3>3. new \in StopCall
      BY <2>1, <3>1 DEF StopCall
    <3> HIDE DEF new
    <3>4. stop' \in [Stopper -> StopCall]
      BY <3>2, <3>3 DEF TypeOK
    <3> QED BY <1>6, <3>4 DEF TypeOK, StopReread
  <2>3. CASE ~ReadsLive(stop[s].corpus)
    <3>1. stop' \in [Stopper -> StopCall]
      BY <1>6, <2>3, StopMoves DEF StopReread, StopDone
    <3> QED BY <1>6, <3>1 DEF TypeOK, StopReread
  <2> QED BY <2>2, <2>3
<1>7. ASSUME NEW s \in Stopper, StopWrite(s)
      PROVE  TypeOK'
  <2>1. stop[s].copy \in Record
    BY DEF TypeOK, StopCall
  <2>2. [stop[s].copy EXCEPT !.flag = TRUE] \in Record
    BY <2>1 DEF Record
  <2>3. record' \in [Corpus -> Record]
    BY <1>7, <2>2 DEF StopWrite, TypeOK
  <2>4. stop' \in [Stopper -> StopCall]
    BY <1>7, StopMoves DEF StopWrite, StopDone
  <2> QED BY <1>7, <2>3, <2>4 DEF TypeOK, StopWrite
<1>8. ASSUME NEW s \in Stopper, NEW h \in Host, NEW g \in Gather, StopRead(s, h, g)
      PROVE  TypeOK'
  <2> DEFINE copy == record[of[g]]
             new == [pc |-> "allowed", host |-> h, corpus |-> of[g], copy |-> copy]
  <2>0. copy \in Record
    BY <1>8 DEF StopRead, TypeOK
  <2>2. stop' = [stop EXCEPT ![s] = new]
    BY <1>8 DEF StopRead
  <2> HIDE DEF copy
  <2>1. new \in StopCall
    BY <2>0, <1>8 DEF StopCall, StopRead, TypeOK
  <2> HIDE DEF new
  <2>3. stop' \in [Stopper -> StopCall]
    BY <2>1, <2>2 DEF TypeOK
  <2> QED BY <1>8, <2>3 DEF TypeOK, StopRead
<1>9. ASSUME NEW h \in Host, Crash(h)
      PROVE  TypeOK'
  <2>1. jobs' \in [Host -> [Corpus -> Job]]
    <3>1. [c \in Corpus |-> Absent] \in [Corpus -> Job]
      BY DEF Absent, Job
    <3> QED BY <1>9, <3>1 DEF Crash, TypeOK
  <2>2. call' \in [Gather -> CallStage] /\ spec' \in [Gather -> SpecStage]
    BY <1>9 DEF Crash, TypeOK, CallStage, SpecStage
  <2>3. pool' \in [Host -> 0..Workers] /\ beating' \in [Host -> BOOLEAN]
    BY <1>9, ConstantsAssumption DEF Crash, TypeOK
  <2>4. stop' \in [Stopper -> StopCall]
    <3>1. ASSUME NEW s \in Stopper
          PROVE  [stop[s] EXCEPT !.pc = "done"] \in StopCall
      <4>1. stop[s] \in StopCall
        BY DEF TypeOK
      <4> QED BY <4>1 DEF StopCall
    <3>2. stop' = [s \in Stopper |-> IF stop[s].host = h THEN [stop[s] EXCEPT !.pc = "done"] ELSE stop[s]]
      BY <1>9 DEF Crash
    <3> QED BY <3>1, <3>2 DEF TypeOK
  <2>5. alive' \subseteq Host /\ UNCHANGED <<at, of, seen, end, event, lost, lease, slots, record, asked, overrun>>
    BY <1>9 DEF Crash, TypeOK
  <2> QED BY <2>1, <2>2, <2>3, <2>4, <2>5 DEF TypeOK
<1>10. CASE UNCHANGED vars
  BY <1>10 DEF TypeOK, vars
<1> QED BY <1>1, <1>2, <1>3, <1>4, <1>5, <1>6, <1>7, <1>8, <1>9, <1>10 DEF StopStep

(***************************************************************************)
(* Placed.                                                                 *)
(***************************************************************************)

\* The calls a crashing host does not take with it are the other hosts'.
LEMMA PlacedStep ==
  ASSUME TypeOK, Placed, [Next]_vars
  PROVE  Placed'
<1> USE DEF caller, worker, local, bucket, client
<1>1. ASSUME NEW g \in Gather, NEW h \in Host, NEW c \in Corpus, Request(g, h, c)
      PROVE  Placed'
  BY <1>1, ConstantsAssumption DEF Placed, Request, TypeOK
<1>2. ASSUME NEW g \in Gather, CallStep(g)
      PROVE  Placed'
  <2>1. UNCHANGED <<at, of, client>> /\ call[g] # "idle"
    BY <1>2 DEF CallStep, Admit, Refuse, WriteQueued, Enqueue, SpawnFails, Undo, UndoLease
  <2>2. \A k \in Gather : k # g => call'[k] = call[k] /\ spec'[k] = spec[k]
    BY <1>2 DEF CallStep, Admit, Refuse, WriteQueued, Enqueue, SpawnFails, Undo, UndoLease, TypeOK
  <2> QED BY <2>1, <2>2 DEF Placed
<1>3. ASSUME NEW g \in Gather, Take(g) \/ WorkStep(g) \/ Report(g)
      PROVE  Placed'
  <2>1. UNCHANGED <<at, of, call, client>> /\ spec[g] # "none"
    BY <1>3 DEF Take, Report, WorkStep, GetSlot, GiveUpWaiting, KeepWaiting, Requeue, WaitFails,
       LostInQueue, SetRunning, WriteRunning, Interrupted, Finish, MarkFinishing, WriteTerminal,
       FreeSlot, ReleaseLease, Pop
  <2>2. \A k \in Gather : k # g => spec'[k] = spec[k]
    BY <1>3 DEF Take, Report, WorkStep, GetSlot, GiveUpWaiting, KeepWaiting, Requeue, WaitFails,
       LostInQueue, SetRunning, WriteRunning, Interrupted, Finish, MarkFinishing, WriteTerminal,
       FreeSlot, ReleaseLease, Pop, Goto, End, TypeOK
  <2> QED BY <2>1, <2>2 DEF Placed
<1>4. ASSUME NEW h \in Host, NEW c \in Corpus, Beat(h, c) \/ SlotLapse(h, c)
      PROVE  Placed'
  BY <1>4 DEF Placed, Beat, SlotLapse
<1>5. ASSUME NEW c \in Corpus, Lapse(c)
      PROVE  Placed'
  BY <1>5 DEF Placed, Lapse
<1>6. ASSUME NEW s \in Stopper, StopStep(s)
      PROVE  Placed'
  <2>1. UNCHANGED <<at, of, call, spec>>
    BY <1>6 DEF StopStep, StopHere, StopElsewhere, StopReread, StopWrite
  <2>2. \A t \in Stopper : t # s => stop'[t] = stop[t]
    BY <1>6 DEF StopStep, StopHere, StopElsewhere, StopReread, StopWrite, StopDone, StopGoto, TypeOK
  <2>3. stop'[s].pc \in {"allowed", "rereading", "writing"} => stop'[s].corpus # None
    BY <1>6 DEF StopStep, StopHere, StopElsewhere, StopReread, StopWrite, StopDone, StopGoto, TypeOK, StopCall, Placed
  <2> QED BY <2>1, <2>2, <2>3 DEF Placed
<1>7. ASSUME NEW s \in Stopper, NEW h \in Host, NEW g \in Gather, StopRead(s, h, g)
      PROVE  Placed'
  <2>1. \A t \in Stopper : stop'[t].corpus # None \/ stop'[t] = stop[t]
    BY <1>7 DEF StopRead, TypeOK
  <2> QED BY <1>7, <2>1 DEF Placed, StopRead
<1>8. ASSUME NEW h \in Host, Crash(h)
      PROVE  Placed'
  <2>1. UNCHANGED <<at, of>>
    BY <1>8 DEF Crash
  <2>2. \A g \in Gather : (call'[g] # "idle" \/ spec'[g] # "none") => at[g] # None
    BY <1>8, ConstantsAssumption DEF Crash, Placed, TypeOK
  <2>3. \A s \in Stopper : stop'[s] = stop[s] \/ stop'[s].pc = "done"
    <3>1. \A s \in Stopper : stop[s] \in StopCall
      BY DEF TypeOK
    <3> QED BY <1>8, <3>1 DEF Crash, StopCall
  <2> QED BY <2>1, <2>2, <2>3 DEF Placed
<1>9. CASE UNCHANGED vars
  BY <1>9 DEF Placed, vars
<1> QED BY <1>1, <1>2, <1>3, <1>4, <1>5, <1>6, <1>7, <1>8, <1>9 DEF Next

LEMMA TypeStep ==
  ASSUME TypeOK, Placed, [Next]_vars
  PROVE  TypeOK'
<1>1. ASSUME NEW g \in Gather, CallStep(g) \/ Take(g) \/ WorkStep(g) \/ Report(g)
      PROVE  at[g] \in Host /\ of[g] \in Corpus
  <2>1. call[g] # "idle" \/ spec[g] # "none"
    BY <1>1 DEF CallStep, Admit, Refuse, WriteQueued, Enqueue, SpawnFails, Undo, UndoLease,
       Take, Report, WorkStep, GetSlot, GiveUpWaiting, KeepWaiting, Requeue, WaitFails,
       LostInQueue, SetRunning, WriteRunning, Interrupted, Finish, MarkFinishing, WriteTerminal,
       FreeSlot, ReleaseLease, Pop
  <2> QED BY <2>1 DEF Placed, TypeOK
<1> QED BY <1>1, TypeStart, TypeCall, TypeWork, TypeWorld DEF Next

\* Types and places hold in every reachable state, whatever fails.
THEOREM TypeCorrect == Spec => []TypeOK
<1>1. Init => TypeOK /\ Placed
  BY TypeInit DEF Init, Placed
<1>2. TypeOK /\ Placed /\ [Next]_vars => TypeOK' /\ Placed'
  BY TypeStep, PlacedStep
<1> QED BY <1>1, <1>2, PTL DEF Spec

(***************************************************************************)
(* Ownership, when threads can be started.                                 *)
(***************************************************************************)

\* Between its admission and the pop of its entry a gather owns that entry.
Owns(g) == call[g] \in {"admitted", "recorded", "started"} /\ spec[g] # "ended"

Ownership ==
  \A g \in Gather :
    /\ call[g] \notin {"undoing", "undone"}
    /\ call[g] \in {"idle", "cleared", "admitted", "recorded", "refused"} => spec[g] = "none"
    /\ call[g] = "gone" => spec[g] = "gone"
    /\ Owns(g) => Entry(g).gather = g

IInv == TypeOK /\ Placed /\ Ownership /\ LeaseNotPulled

\* A worker's step other than the pop leaves every entry's gather alone.
LEMMA WorkKeepsJobs ==
  ASSUME TypeOK, NEW g \in Gather, at[g] \in Host, of[g] \in Corpus,
         Take(g) \/ WorkStep(g) \/ Report(g), ~Pop(g)
  PROVE  \A h \in Host, c \in Corpus : jobs'[h][c].gather = jobs[h][c].gather
<1>1. CASE SetRunning(g)
  BY <1>1 DEF SetRunning, SetEntry, Entry, TypeOK
<1>2. CASE MarkFinishing(g)
  BY <1>2 DEF MarkFinishing, SetEntry, Entry, TypeOK, Absent
<1>3. CASE ~SetRunning(g) /\ ~MarkFinishing(g)
  <2>1. jobs' = jobs
    BY <1>3 DEF Take, Report, WorkStep, GetSlot, GiveUpWaiting, KeepWaiting, Requeue, WaitFails,
       LostInQueue, WriteRunning, Interrupted, Finish, WriteTerminal, FreeSlot, ReleaseLease, local
  <2> QED BY <2>1
<1> QED BY <1>1, <1>2, <1>3

\* Where a worker's step leads.
LEMMA WorkMoves ==
  ASSUME TypeOK, NEW g \in Gather, Take(g) \/ WorkStep(g) \/ Report(g)
  PROVE  /\ UNCHANGED <<at, of, call>>
         /\ \A k \in Gather : k # g => spec'[k] = spec[k]
         /\ spec[g] \in {"queued"} \cup Busy /\ spec'[g] \in Busy \cup {"ended"}
         /\ spec'[g] = "popping" <=> ReleaseLease(g)
         /\ spec'[g] = "ended" <=> Pop(g)
<1> USE DEF caller
<1>1. CASE Take(g) \/ Report(g) \/ GetSlot(g) \/ KeepWaiting(g) \/ Requeue(g) \/ WaitFails(g)
  BY <1>1 DEF Take, Report, GetSlot, KeepWaiting, Requeue, WaitFails, ReleaseLease, Pop, Goto,
     TypeOK, Busy, worker
<1>2. CASE GiveUpWaiting(g) \/ LostInQueue(g) \/ Interrupted(g) \/ Finish(g)
  BY <1>2 DEF GiveUpWaiting, LostInQueue, Interrupted, Finish, ReleaseLease, Pop, End, Goto, TypeOK, Busy
<1>3. CASE SetRunning(g) \/ WriteRunning(g) \/ MarkFinishing(g) \/ WriteTerminal(g) \/ FreeSlot(g)
  BY <1>3 DEF SetRunning, WriteRunning, MarkFinishing, WriteTerminal, FreeSlot, ReleaseLease, Pop,
     Goto, TypeOK, Busy
<1>4. CASE ReleaseLease(g)
  BY <1>4 DEF ReleaseLease, Pop, Goto, TypeOK, Busy
<1>5. CASE Pop(g)
  BY <1>5 DEF ReleaseLease, Pop, Goto, TypeOK, Busy
<1> QED BY <1>1, <1>2, <1>3, <1>4, <1>5 DEF WorkStep

LEMMA OwnershipStep ==
  ASSUME TypeOK, Placed, Ownership, "spawn" \notin Faults, [Next]_vars
  PROVE  Ownership'
<1> USE DEF caller, worker, local, bucket, client
<1>1. ASSUME NEW g \in Gather, NEW h \in Host, NEW c \in Corpus, Request(g, h, c)
      PROVE  Ownership'
  <2>1. /\ UNCHANGED <<spec, jobs>>
        /\ call[g] = "idle" /\ call'[g] \in {"cleared", "refused"}
        /\ \A k \in Gather : k # g => call'[k] = call[k] /\ at'[k] = at[k] /\ of'[k] = of[k]
    BY <1>1 DEF Request, TypeOK
  <2> QED BY <2>1 DEF Ownership, Owns, Entry
<1>2. ASSUME NEW g \in Gather, Admit(g)
      PROVE  Ownership'
  <2>1. at[g] \in Host /\ of[g] \in Corpus
    BY <1>2 DEF Placed, TypeOK, Admit
  <2>2. /\ UNCHANGED <<at, of, spec>>
        /\ call[g] = "cleared" /\ call'[g] = "admitted"
        /\ \A k \in Gather : k # g => call'[k] = call[k]
    BY <1>2 DEF Admit, TypeOK
  <2>3. Entry(g)'.gather = g
    BY <1>2, <2>1, <2>2 DEF Admit, SetEntry, Entry, TypeOK
  <2>4. Entry(g).gather = None
    BY <1>2 DEF Admit, Absent
  <2>5. ASSUME NEW k \in Gather, k # g, Owns(k)
        PROVE  Entry(k)' = Entry(k)
    <3>1. at[k] # at[g] \/ of[k] # of[g]
      BY <2>4, <2>5, ConstantsAssumption DEF Ownership, Entry
    <3>2. at[k] \in Host /\ of[k] \in Corpus
      BY <2>5 DEF Placed, TypeOK, Owns
    <3> QED BY <1>2, <2>1, <2>2, <3>1, <3>2 DEF Admit, SetEntry, Entry, TypeOK
  <2> QED BY <2>2, <2>3, <2>5 DEF Ownership, Owns
<1>3. ASSUME NEW g \in Gather, Refuse(g) \/ WriteQueued(g) \/ Enqueue(g)
      PROVE  Ownership'
  <2>1. /\ UNCHANGED <<at, of, jobs>>
        /\ \A k \in Gather : k # g => call'[k] = call[k] /\ spec'[k] = spec[k]
    BY <1>3 DEF Refuse, WriteQueued, Enqueue, TypeOK
  <2>2. \/ call[g] = "cleared" /\ call'[g] = "refused" /\ spec' = spec
        \/ call[g] = "admitted" /\ call'[g] = "recorded" /\ spec' = spec
        \/ call[g] = "recorded" /\ call'[g] = "started" /\ spec'[g] = "queued"
    BY <1>3 DEF Refuse, WriteQueued, Enqueue, TypeOK
  <2>3. Entry(g)' = Entry(g) /\ \A k \in Gather : Entry(k)' = Entry(k)
    BY <2>1 DEF Entry
  <2> QED BY <2>1, <2>2, <2>3 DEF Ownership, Owns
<1>4. ASSUME NEW g \in Gather, SpawnFails(g) \/ Undo(g) \/ UndoLease(g)
      PROVE  Ownership'
  BY <1>4 DEF SpawnFails, Undo, UndoLease, Ownership
<1>5. ASSUME NEW g \in Gather, Take(g) \/ WorkStep(g) \/ Report(g), ~Pop(g)
      PROVE  Ownership'
  <2>1. /\ UNCHANGED <<at, of, call>>
        /\ \A k \in Gather : k # g => spec'[k] = spec[k]
        /\ spec[g] \in {"queued"} \cup Busy /\ spec'[g] \in Busy
    BY <1>5, WorkMoves
  <2>2. call[g] = "started"
    BY <2>1 DEF Ownership, Busy, TypeOK, CallStage
  <2>3. at[g] \in Host /\ of[g] \in Corpus
    BY <2>2 DEF Placed, TypeOK
  <2>4. \A h \in Host, c \in Corpus : jobs'[h][c].gather = jobs[h][c].gather
    BY <1>5, <2>3, WorkKeepsJobs
  <2>5. ASSUME NEW k \in Gather, Owns(k)
        PROVE  Entry(k)'.gather = k
    <3>1. at[k] \in Host /\ of[k] \in Corpus
      BY <2>5 DEF Placed, TypeOK, Owns
    <3>2. Entry(k).gather = k
      BY <2>5 DEF Ownership
    <3>3. Entry(k)' = jobs'[at[k]][of[k]]
      BY <2>1 DEF Entry
    <3> QED BY <2>4, <3>1, <3>2, <3>3 DEF Entry
  <2>6. spec[g] # "none" /\ spec[g] # "ended" /\ spec'[g] # "ended"
    BY <2>1 DEF Busy
  <2> QED BY <2>1, <2>2, <2>5, <2>6 DEF Ownership, Owns
<1>6. ASSUME NEW g \in Gather, Pop(g)
      PROVE  Ownership'
  <2>1. /\ UNCHANGED <<at, of, call>>
        /\ \A k \in Gather : k # g => spec'[k] = spec[k]
        /\ spec[g] = "popping" /\ spec'[g] = "ended"
    BY <1>6 DEF Pop, Goto, TypeOK
  <2>2. call[g] = "started" /\ Entry(g).gather = g
    BY <2>1 DEF Ownership, Owns, TypeOK, CallStage
  <2>3. at[g] \in Host /\ of[g] \in Corpus
    BY <2>2 DEF Placed, TypeOK
  <2>4. ASSUME NEW k \in Gather, k # g, Owns(k)
        PROVE  Entry(k)' = Entry(k)
    <3>1. at[k] # at[g] \/ of[k] # of[g]
      BY <2>2, <2>4 DEF Ownership, Entry
    <3>2. at[k] \in Host /\ of[k] \in Corpus
      BY <2>4 DEF Placed, TypeOK, Owns
    <3> QED BY <1>6, <2>1, <2>3, <3>1, <3>2 DEF Pop, SetEntry, Entry, TypeOK
  <2> QED BY <2>1, <2>2, <2>4 DEF Ownership, Owns
<1>7. ASSUME NEW h \in Host, Crash(h)
      PROVE  Ownership'
  <2>1. /\ UNCHANGED <<at, of>>
        /\ \A g \in Gather : at[g] = h => call'[g] = "gone" /\ spec'[g] = "gone"
        /\ \A g \in Gather : at[g] # h => call'[g] = call[g] /\ spec'[g] = spec[g]
        /\ \A k \in Host : k # h => jobs'[k] = jobs[k]
    BY <1>7 DEF Crash, TypeOK
  <2>2. \A g \in Gather : Owns(g) => at[g] \in Host
    BY DEF Placed, TypeOK, Owns
  <2> QED BY <2>1, <2>2 DEF Ownership, Owns, Entry
<1>8. ASSUME UNCHANGED <<at, of, call, spec, jobs>>
      PROVE  Ownership'
  BY <1>8 DEF Ownership, Owns, Entry
<1>9. ASSUME NEW h \in Host, NEW c \in Corpus, Beat(h, c) \/ SlotLapse(h, c) \/ Lapse(c)
      PROVE  UNCHANGED <<at, of, call, spec, jobs>>
  BY <1>9 DEF Beat, SlotLapse, Lapse
<1>10. ASSUME NEW c \in Corpus, Lapse(c)
      PROVE  UNCHANGED <<at, of, call, spec, jobs>>
  BY <1>10 DEF Lapse
<1>11. ASSUME NEW s \in Stopper, StopStep(s)
      PROVE  UNCHANGED <<at, of, call, spec, jobs>>
  BY <1>11 DEF StopStep, StopHere, StopElsewhere, StopReread, StopWrite
<1>12. ASSUME NEW s \in Stopper, NEW h \in Host, NEW g \in Gather, StopRead(s, h, g)
      PROVE  UNCHANGED <<at, of, call, spec, jobs>>
  BY <1>12 DEF StopRead
<1>13. CASE UNCHANGED vars
  BY <1>8, <1>13 DEF vars
<1> QED BY <1>1, <1>2, <1>3, <1>4, <1>5, <1>6, <1>7, <1>8, <1>9, <1>10, <1>11, <1>12, <1>13 DEF Next, CallStep

(***************************************************************************)
(* The lease of a job.                                                     *)
(***************************************************************************)

LEMMA LeaseStep ==
  ASSUME TypeOK, Placed, Ownership, LeaseNotPulled, "spawn" \notin Faults, [Next]_vars
  PROVE  LeaseNotPulled'
<1> USE DEF caller, worker, local, bucket, client
<1> USE DEF Going
<1> DEFINE Pulled(g) == lease[of[g]] = [owner |-> at[g], state |-> "released"]
<1>0. \A g \in Gather : Going(g) => Owns(g) /\ at[g] \in Host /\ of[g] \in Corpus
  BY DEF Owns, Placed, TypeOK
<1>1. ASSUME NEW g \in Gather, NEW h \in Host, NEW c \in Corpus, Request(g, h, c)
      PROVE  LeaseNotPulled'
  <2>1. /\ UNCHANGED <<spec, lease>>
        /\ call'[g] \in {"cleared", "refused"}
        /\ \A k \in Gather : k # g => call'[k] = call[k] /\ at'[k] = at[k] /\ of'[k] = of[k]
    BY <1>1 DEF Request, TypeOK
  <2> QED BY <2>1 DEF LeaseNotPulled
<1>2. ASSUME NEW g \in Gather, Admit(g)
      PROVE  LeaseNotPulled'
  <2>1. at[g] \in Host /\ of[g] \in Corpus
    BY <1>2 DEF Placed, TypeOK, Admit
  <2>2. /\ UNCHANGED <<at, of, spec>>
        /\ \A k \in Gather : k # g => call'[k] = call[k]
        /\ lease'[of[g]].state = "live"
        /\ \A c \in Corpus : c # of[g] => lease'[c] = lease[c]
    BY <1>2, <2>1 DEF Admit, SetLease, TypeOK
  <2>3. ASSUME NEW k \in Gather, Going(k)'
        PROVE  ~Pulled(k)'
    <3>1. CASE of[k] = of[g]
      BY <2>2, <3>1
    <3>2. CASE of[k] # of[g]
      BY <2>2, <2>3, <3>2, <1>0 DEF LeaseNotPulled
    <3> QED BY <3>1, <3>2
  <2> QED BY <2>3 DEF LeaseNotPulled
<1>3. ASSUME NEW g \in Gather, Refuse(g) \/ WriteQueued(g) \/ Enqueue(g)
      PROVE  LeaseNotPulled'
  <2>1. /\ UNCHANGED <<at, of, lease>>
        /\ \A k \in Gather : k # g => call'[k] = call[k] /\ spec'[k] = spec[k]
    BY <1>3 DEF Refuse, WriteQueued, Enqueue, TypeOK
  <2>2. \/ call[g] = "cleared" /\ call'[g] = "refused"
        \/ call[g] \in {"admitted", "recorded"} /\ spec[g] = "none"
    BY <1>3 DEF Refuse, WriteQueued, Enqueue, TypeOK, Ownership
  <2> QED BY <2>1, <2>2 DEF LeaseNotPulled
<1>4. ASSUME NEW g \in Gather, SpawnFails(g) \/ Undo(g) \/ UndoLease(g)
      PROVE  LeaseNotPulled'
  BY <1>4 DEF SpawnFails, Undo, UndoLease, Ownership
<1>5. ASSUME NEW g \in Gather, Take(g) \/ WorkStep(g) \/ Report(g), ~ReleaseLease(g)
      PROVE  LeaseNotPulled'
  <2>1. /\ UNCHANGED <<at, of, call>>
        /\ \A k \in Gather : k # g => spec'[k] = spec[k]
        /\ spec[g] \in {"queued"} \cup Busy
        /\ spec'[g] = "ended" <=> Pop(g)
    BY <1>5, WorkMoves
  <2>2. lease' = lease
    BY <1>5 DEF Take, Report, WorkStep, GetSlot, GiveUpWaiting, KeepWaiting, Requeue, WaitFails,
       LostInQueue, SetRunning, WriteRunning, Interrupted, Finish, MarkFinishing, WriteTerminal,
       FreeSlot, Pop
  <2>3. Pop(g) \/ spec[g] \notin {"popping", "ended"}
    BY <1>5 DEF Take, Report, WorkStep, GetSlot, GiveUpWaiting, KeepWaiting, Requeue, WaitFails,
       LostInQueue, SetRunning, WriteRunning, Interrupted, Finish, MarkFinishing, WriteTerminal,
       FreeSlot
  <2> QED BY <2>1, <2>2, <2>3 DEF LeaseNotPulled
<1>6. ASSUME NEW g \in Gather, ReleaseLease(g)
      PROVE  LeaseNotPulled'
  <2>1. /\ UNCHANGED <<at, of, call>>
        /\ \A k \in Gather : k # g => spec'[k] = spec[k]
        /\ spec[g] = "releasing" /\ spec'[g] = "popping"
    BY <1>6 DEF ReleaseLease, Goto, TypeOK
  <2>2. call[g] = "started" /\ Entry(g).gather = g
    BY <2>1 DEF Ownership, Owns, TypeOK, CallStage
  <2>3. at[g] \in Host /\ of[g] \in Corpus
    BY <2>2 DEF Placed, TypeOK
  <2>4. ASSUME NEW k \in Gather, Going(k)'
        PROVE  ~Pulled(k)'
    <3>1. k # g /\ Going(k)
      BY <2>1, <2>4
    <3>2. at[k] # at[g] \/ of[k] # of[g]
      BY <2>2, <3>1, <1>0 DEF Ownership, Entry
    <3>3. ~Pulled(k) /\ of[k] \in Corpus
      BY <3>1, <1>0 DEF LeaseNotPulled
    <3>4. CASE lease' = lease
      BY <2>1, <3>3, <3>4
    <3>5. CASE SetLease(at[g], of[g], "released")
      <4>1. CASE of[k] = of[g]
        <5>1. lease'[of[k]].owner = at[g]
          BY <2>3, <3>5, <4>1 DEF SetLease, TypeOK
        <5> QED BY <2>1, <3>2, <4>1, <5>1
      <4>2. CASE of[k] # of[g]
        <5>1. lease'[of[k]] = lease[of[k]]
          BY <3>3, <3>5, <4>2 DEF SetLease, TypeOK
        <5> QED BY <2>1, <3>3, <5>1
      <4> QED BY <4>1, <4>2
    <3> QED BY <1>6, <3>4, <3>5 DEF ReleaseLease
  <2> QED BY <2>4 DEF LeaseNotPulled
<1>7. ASSUME NEW h \in Host, Crash(h)
      PROVE  LeaseNotPulled'
  <2>1. /\ UNCHANGED <<at, of, lease>>
        /\ \A g \in Gather : call'[g] = "gone" \/ (call'[g] = call[g] /\ spec'[g] = spec[g])
    BY <1>7 DEF Crash, TypeOK
  <2> QED BY <2>1 DEF LeaseNotPulled
<1>8. ASSUME UNCHANGED <<at, of, call, spec>>,
             NEW c \in Corpus, lease'[c].state \in {"live", "lapsed"} \/ lease'[c] = lease[c],
             \A d \in Corpus : d # c => lease'[d] = lease[d]
      PROVE  LeaseNotPulled'
  <2>1. ASSUME NEW k \in Gather, Going(k)'
        PROVE  ~Pulled(k)'
    <3>1. Going(k) /\ ~Pulled(k) /\ of[k] \in Corpus
      BY <1>0, <1>8, <2>1 DEF LeaseNotPulled
    <3> QED BY <1>8, <3>1
  <2> QED BY <2>1 DEF LeaseNotPulled
<1>9. ASSUME NEW h \in Host, NEW c \in Corpus, Beat(h, c)
      PROVE  LeaseNotPulled'
  <2>1. /\ UNCHANGED <<at, of, call, spec>>
        /\ lease'[c].state = "live" \/ lease'[c] = lease[c]
        /\ \A d \in Corpus : d # c => lease'[d] = lease[d]
    BY <1>9 DEF Beat, SetLease, TypeOK
  <2> QED BY <1>8, <2>1
<1>10. ASSUME NEW c \in Corpus, Lapse(c)
      PROVE  LeaseNotPulled'
  <2>1. /\ UNCHANGED <<at, of, call, spec>>
        /\ lease'[c].state = "lapsed"
        /\ \A d \in Corpus : d # c => lease'[d] = lease[d]
    BY <1>10 DEF Lapse, SetLease, TypeOK
  <2> QED BY <1>8, <2>1
<1>11. ASSUME UNCHANGED <<at, of, call, spec, lease>>
      PROVE  LeaseNotPulled'
  BY <1>11 DEF LeaseNotPulled
<1>12. ASSUME NEW s \in Stopper, StopStep(s) \/ \E h \in Host, g \in Gather : StopRead(s, h, g)
      PROVE  UNCHANGED <<at, of, call, spec, lease>>
  BY <1>12 DEF StopStep, StopHere, StopElsewhere, StopReread, StopWrite, StopRead
<1>13. ASSUME NEW h \in Host, NEW c \in Corpus, SlotLapse(h, c)
      PROVE  UNCHANGED <<at, of, call, spec, lease>>
  BY <1>13 DEF SlotLapse
<1>14. CASE UNCHANGED vars
  BY <1>11, <1>14 DEF vars
<1> QED BY <1>1, <1>2, <1>3, <1>4, <1>5, <1>6, <1>7, <1>9, <1>10, <1>11, <1>12, <1>13, <1>14
        DEF Next, CallStep

(***************************************************************************)
(* The leases of the fleet.                                                *)
(***************************************************************************)

\* A host that a call is under way at has not died, and the lease of every job that
\* goes on, and under which it did not lapse, is live, and its host's.
HeldInv ==
  /\ \A g \in Gather : call[g] \notin {"idle", "gone"} => at[g] \in alive
  /\ \A g \in Gather \ overrun : Going(g) => lease[of[g]] = [owner |-> at[g], state |-> "live"]

\* A worker writes the records of its own gather, and knows how it ended when it closes
\* it; a record that a gather has written is of its corpus, and is no further than the
\* gather itself; nor is the copy that another host's stop is about to put back.
BeforeWork == {"none", "queued", "waiting", "requeueing", "slotted", "beginning"}
AtItsEnd   == {"working", "closing", "terminal"}
Behind(c, r) ==
  \A g \in Gather : r.gather = g =>
    /\ of[g] = c /\ call[g] \in {"recorded", "started", "gone"}
    /\ spec[g] \in BeforeWork => r.state = "queued"
    /\ spec[g] \in AtItsEnd => r.state \in LiveState
RecordInv ==
  /\ \A g \in Gather : spec[g] \in Busy => seen[g] = g
  /\ \A g \in Gather : spec[g] \in {"closing", "terminal"} => end[g].state \in TerminalState
  /\ \A c \in Corpus : Behind(c, record[c])
  /\ \A s \in Stopper : stop[s].pc = "writing" => Behind(stop[s].corpus, stop[s].copy)

\* What the invariant says of a job that goes on.
LEMMA GoingOn ==
  ASSUME TypeOK, Placed, Ownership
  PROVE  /\ \A g \in Gather : Going(g) => Owns(g) /\ at[g] \in Host /\ of[g] \in Corpus
         /\ \A g \in Gather : spec[g] \in Busy \cup {"queued"} => call[g] = "started"
         /\ \A g \in Gather : spec[g] \in (Busy \cup {"queued"}) \ {"popping"} => Going(g)
<1>1. \A g \in Gather : spec[g] \in Busy \cup {"queued"} => call[g] = "started"
  BY DEF Ownership, Busy, TypeOK, CallStage
<1>2. \A g \in Gather : Going(g) => Owns(g) /\ at[g] \in Host /\ of[g] \in Corpus
  BY DEF Going, Owns, Placed, TypeOK
<1> QED BY <1>1, <1>2 DEF Going, Busy

\* The lease of a job that goes on is taken by nobody else until it lapses, and is given
\* back by the job itself.
LEMMA HeldStep ==
  ASSUME IInv, HeldInv, "spawn" \notin Faults, [Next]_vars
  PROVE  HeldInv'
<1> USE DEF caller, worker, local, bucket, client
<1> DEFINE Live(g) == lease[of[g]] = [owner |-> at[g], state |-> "live"]
           Under(g) == call[g] \notin {"idle", "gone"}
<1>0. TypeOK /\ Placed /\ Ownership
  BY DEF IInv
<1>1. ASSUME NEW g \in Gather, NEW h \in Host, NEW c \in Corpus, Request(g, h, c)
      PROVE  HeldInv'
  <2>1. /\ UNCHANGED <<spec, lease, overrun, alive>> /\ h \in alive /\ at'[g] = h
        /\ call'[g] \in {"cleared", "refused"}
        /\ \A k \in Gather : k # g => call'[k] = call[k] /\ at'[k] = at[k] /\ of'[k] = of[k]
    BY <1>0, <1>1 DEF Request, TypeOK
  <2> QED BY <2>1 DEF HeldInv, Going
<1>2. ASSUME NEW g \in Gather, Admit(g)
      PROVE  HeldInv'
  <2>1. at[g] \in Host /\ of[g] \in Corpus /\ at[g] \in alive /\ Entry(g).gather = None
    BY <1>0, <1>2 DEF Placed, TypeOK, Admit, HeldInv, Absent
  <2>2. /\ UNCHANGED <<at, of, spec, overrun, alive>>
        /\ \A k \in Gather : k # g => call'[k] = call[k]
        /\ lease' = [lease EXCEPT ![of[g]] = [owner |-> at[g], state |-> "live"]]
        /\ Takeable(at[g], of[g])
    BY <1>0, <1>2 DEF Admit, SetLease, TypeOK
  <2>3. lease'[of[g]] = [owner |-> at[g], state |-> "live"]
        /\ \A c \in Corpus : c # of[g] => lease'[c] = lease[c]
    BY <1>0, <2>1, <2>2 DEF TypeOK
  <2>4. ASSUME NEW k \in Gather \ overrun, k # g, Going(k)'
        PROVE  Live(k)'
    <3>1. Going(k) /\ Live(k) /\ Owns(k) /\ at[k] \in Host /\ of[k] \in Corpus
      BY <1>0, <2>2, <2>4, GoingOn DEF Going, HeldInv
    <3>2. of[k] # of[g]
      <4>1. SUFFICES ASSUME of[k] = of[g] PROVE FALSE
        OBVIOUS
      <4>2. at[k] = at[g]
        BY <2>2, <3>1, <4>1 DEF Takeable
      <4>3. Entry(k).gather = k
        BY <1>0, <3>1 DEF Ownership
      <4> QED BY <2>1, <4>1, <4>2, <4>3, ConstantsAssumption DEF Entry
    <3> QED BY <2>2, <2>3, <3>1, <3>2
  <2> QED BY <2>1, <2>2, <2>3, <2>4 DEF HeldInv
<1>3. ASSUME NEW g \in Gather, Refuse(g) \/ WriteQueued(g) \/ Enqueue(g)
      PROVE  HeldInv'
  <2>1. /\ UNCHANGED <<at, of, lease, overrun, alive>>
        /\ \A k \in Gather : k # g => call'[k] = call[k] /\ spec'[k] = spec[k]
    BY <1>0, <1>3 DEF Refuse, WriteQueued, Enqueue, TypeOK
  <2>2. \/ call[g] = "cleared" /\ call'[g] = "refused"
        \/ call[g] \in {"admitted", "recorded"} /\ spec[g] = "none"
    BY <1>0, <1>3 DEF Refuse, WriteQueued, Enqueue, TypeOK, Ownership
  <2> QED BY <2>1, <2>2 DEF HeldInv, Going
<1>4. ASSUME NEW g \in Gather, SpawnFails(g) \/ Undo(g) \/ UndoLease(g)
      PROVE  HeldInv'
  BY <1>0, <1>4 DEF SpawnFails, Undo, UndoLease, Ownership
<1>5. ASSUME NEW g \in Gather, Take(g) \/ WorkStep(g) \/ Report(g), ~ReleaseLease(g)
      PROVE  HeldInv'
  <2>1. /\ UNCHANGED <<at, of, call>>
        /\ \A k \in Gather : k # g => spec'[k] = spec[k]
        /\ spec[g] \in {"queued"} \cup Busy
        /\ spec'[g] = "ended" <=> Pop(g)
    BY <1>0, <1>5, WorkMoves
  <2>2. UNCHANGED <<lease, overrun, alive>>
    BY <1>5 DEF Take, Report, WorkStep, GetSlot, GiveUpWaiting, KeepWaiting, Requeue, WaitFails,
       LostInQueue, SetRunning, WriteRunning, Interrupted, Finish, MarkFinishing, WriteTerminal,
       FreeSlot, Pop
  <2>3. Pop(g) \/ spec[g] \notin {"popping", "ended"}
    BY <1>5 DEF Take, Report, WorkStep, GetSlot, GiveUpWaiting, KeepWaiting, Requeue, WaitFails,
       LostInQueue, SetRunning, WriteRunning, Interrupted, Finish, MarkFinishing, WriteTerminal,
       FreeSlot
  <2> QED BY <2>1, <2>2, <2>3 DEF HeldInv, Going
<1>6. ASSUME NEW g \in Gather, ReleaseLease(g)
      PROVE  HeldInv'
  <2>1. /\ UNCHANGED <<at, of, call, overrun, alive>>
        /\ \A k \in Gather : k # g => spec'[k] = spec[k]
        /\ spec[g] = "releasing" /\ spec'[g] = "popping"
    BY <1>0, <1>6 DEF ReleaseLease, Goto, TypeOK
  <2>2. Going(g) /\ at[g] \in Host /\ of[g] \in Corpus /\ Entry(g).gather = g
    BY <1>0, <2>1, GoingOn DEF Busy, Ownership
  <2>3. \A c \in Corpus : c # of[g] => lease'[c] = lease[c]
    BY <1>0, <1>6, <2>2 DEF ReleaseLease, SetLease, TypeOK
  <2>4. ASSUME NEW k \in Gather \ overrun, Going(k)'
        PROVE  Live(k)'
    <3>1. k # g /\ Going(k) /\ Live(k) /\ of[k] \in Corpus /\ Entry(k).gather = k
      BY <1>0, <2>1, <2>4, GoingOn DEF Going, HeldInv, Ownership
    <3>2. of[k] # of[g] \/ at[k] # at[g]
      BY <2>2, <3>1 DEF Entry
    <3>3. lease' = lease \/ lease[of[g]].owner = at[g]
      BY <1>6 DEF ReleaseLease, Holds
    <3>4. of[k] = of[g] => lease[of[g]].owner = at[k]
      BY <3>1
    <3> QED BY <2>1, <2>3, <3>1, <3>2, <3>3, <3>4
  <2>5. \A k \in Gather : Under(k)' => at'[k] \in alive'
    BY <2>1 DEF HeldInv
  <2> QED BY <2>1, <2>4, <2>5 DEF HeldInv
<1>7. ASSUME NEW h \in Host, Crash(h)
      PROVE  HeldInv'
  <2>1. /\ UNCHANGED <<at, of, lease, overrun>> /\ alive' = alive \ {h}
        /\ \A g \in Gather : IF at[g] = h THEN call'[g] = "gone"
                             ELSE call'[g] = call[g] /\ spec'[g] = spec[g]
    BY <1>0, <1>7 DEF Crash, TypeOK
  <2> QED BY <2>1 DEF HeldInv, Going
<1>8. ASSUME NEW h \in Host, NEW c \in Corpus, Beat(h, c)
      PROVE  HeldInv'
  <2>1. UNCHANGED <<at, of, call, spec, overrun, alive>>
    BY <1>8 DEF Beat
  <2>2. \/ lease' = lease
        \/ lease[c].owner = h /\ lease' = [lease EXCEPT ![c] = [owner |-> h, state |-> "live"]]
    BY <1>8 DEF Beat, Holds, SetLease
  <2>3. ASSUME NEW k \in Gather \ overrun, Going(k)
        PROVE  Live(k)'
    <3>1. Live(k) /\ of[k] \in Corpus
      BY <1>0, <2>3, GoingOn DEF HeldInv
    <3> QED BY <1>0, <2>1, <2>2, <3>1 DEF TypeOK
  <2> QED BY <2>1, <2>3 DEF HeldInv, Going
<1>9. ASSUME NEW c \in Corpus, Lapse(c)
      PROVE  HeldInv'
  <2>1. UNCHANGED <<at, of, call, spec, alive>> /\ overrun' = overrun \cup GoingAt(lease[c].owner, c)
    BY <1>9 DEF Lapse
  <2>2. \A d \in Corpus : d # c => lease'[d] = lease[d]
    BY <1>0, <1>9 DEF Lapse, SetLease, TypeOK
  <2>3. ASSUME NEW k \in Gather \ overrun', Going(k)
        PROVE  Live(k)'
    <3>1. Live(k) /\ of[k] \in Corpus
      BY <1>0, <2>1, <2>3, GoingOn DEF HeldInv
    <3>2. of[k] # c
      <4>1. SUFFICES ASSUME of[k] = c PROVE FALSE
        OBVIOUS
      <4>2. lease[c].owner = at[k]
        BY <3>1, <4>1
      <4> QED BY <2>1, <2>3, <4>1, <4>2 DEF GoingAt
    <3> QED BY <2>1, <2>2, <3>1, <3>2
  <2> QED BY <2>1, <2>3 DEF HeldInv, Going
<1>10. ASSUME UNCHANGED <<at, of, call, spec, lease, alive>>, overrun \subseteq overrun'
      PROVE  HeldInv'
  BY <1>10 DEF HeldInv, Going
<1>11. ASSUME NEW s \in Stopper, StopStep(s) \/ \E h \in Host, g \in Gather : StopRead(s, h, g)
      PROVE  UNCHANGED <<at, of, call, spec, lease, alive>> /\ overrun \subseteq overrun'
  BY <1>11 DEF StopStep, StopHere, StopElsewhere, StopReread, StopWrite, StopRead
<1>12. ASSUME NEW h \in Host, NEW c \in Corpus, SlotLapse(h, c)
      PROVE  UNCHANGED <<at, of, call, spec, lease, alive>> /\ overrun \subseteq overrun'
  BY <1>12 DEF SlotLapse
<1>13. CASE UNCHANGED vars
  BY <1>10, <1>13 DEF vars
<1> QED BY <1>1, <1>2, <1>3, <1>4, <1>5, <1>6, <1>7, <1>8, <1>9, <1>10, <1>11, <1>12, <1>13
        DEF Next, CallStep

(***************************************************************************)
(* The record of a corpus.                                                 *)
(***************************************************************************)

\* No gather goes back, and none leaves its corpus.
LEMMA Advances ==
  ASSUME IInv, "spawn" \notin Faults, [Next]_vars, NEW k \in Gather
  PROVE  /\ spec'[k] \in BeforeWork => spec[k] \in BeforeWork
         /\ spec'[k] \in AtItsEnd => spec[k] \in BeforeWork \cup AtItsEnd
         /\ call[k] \in {"recorded", "started", "gone"} =>
              call'[k] \in {"recorded", "started", "gone"} /\ of'[k] = of[k]
<1> USE DEF caller, worker, local, bucket, client
<1> DEFINE Goal == /\ spec'[k] \in BeforeWork => spec[k] \in BeforeWork
                   /\ spec'[k] \in AtItsEnd => spec[k] \in BeforeWork \cup AtItsEnd
                   /\ call[k] \in {"recorded", "started", "gone"} =>
                        call'[k] \in {"recorded", "started", "gone"} /\ of'[k] = of[k]
<1>0. TypeOK /\ Placed /\ Ownership
  BY DEF IInv
<1>1. ASSUME NEW g \in Gather, NEW h \in Host, NEW c \in Corpus, Request(g, h, c)
      PROVE  Goal
  BY <1>0, <1>1 DEF Request, TypeOK
<1>2. ASSUME NEW g \in Gather, CallStep(g)
      PROVE  Goal
  <2>1. ~(SpawnFails(g) \/ Undo(g) \/ UndoLease(g))
    BY <1>0 DEF SpawnFails, Undo, UndoLease, Ownership
  <2>2. /\ UNCHANGED of
        /\ k # g => call'[k] = call[k] /\ spec'[k] = spec[k]
        /\ \/ call[g] \in {"cleared", "admitted"} /\ spec' = spec
           \/ call[g] = "recorded" /\ call'[g] = "started" /\ spec'[g] = "queued" /\ spec[g] = "none"
    BY <1>0, <1>2, <2>1 DEF CallStep, Admit, Refuse, WriteQueued, Enqueue, TypeOK, Ownership
  <2> QED BY <2>2 DEF BeforeWork, AtItsEnd
<1>3. ASSUME NEW g \in Gather, Take(g) \/ WorkStep(g) \/ Report(g)
      PROVE  Goal
  <2>1. UNCHANGED <<of, call>> /\ (k # g => spec'[k] = spec[k])
    BY <1>0, <1>3, WorkMoves
  <2>2. /\ spec'[g] \in BeforeWork => spec[g] \in BeforeWork
        /\ spec'[g] \in AtItsEnd => spec[g] \in BeforeWork \cup AtItsEnd
    <3> USE DEF BeforeWork, AtItsEnd, Goto, End, TypeOK
    <3>1. CASE Take(g) \/ Report(g) \/ GetSlot(g) \/ KeepWaiting(g) \/ Requeue(g) \/ WaitFails(g)
      BY <1>0, <3>1 DEF Take, Report, GetSlot, KeepWaiting, Requeue, WaitFails
    <3>2. CASE GiveUpWaiting(g) \/ LostInQueue(g) \/ Interrupted(g) \/ Finish(g)
      BY <1>0, <3>2 DEF GiveUpWaiting, LostInQueue, Interrupted, Finish
    <3>3. CASE SetRunning(g) \/ WriteRunning(g) \/ MarkFinishing(g) \/ WriteTerminal(g) \/ FreeSlot(g)
               \/ ReleaseLease(g) \/ Pop(g)
      BY <1>0, <3>3 DEF SetRunning, WriteRunning, MarkFinishing, WriteTerminal, FreeSlot,
         ReleaseLease, Pop
    <3> QED BY <1>3, <3>1, <3>2, <3>3 DEF WorkStep
  <2> QED BY <2>1, <2>2
<1>4. ASSUME NEW h \in Host, Crash(h)
      PROVE  Goal
  <2>1. UNCHANGED of
        /\ IF at[k] = h THEN call'[k] = "gone" /\ spec'[k] = "gone"
           ELSE call'[k] = call[k] /\ spec'[k] = spec[k]
    BY <1>0, <1>4 DEF Crash, TypeOK
  <2> QED BY <2>1 DEF BeforeWork, AtItsEnd
<1>5. ASSUME UNCHANGED <<of, call, spec>>
      PROVE  Goal
  BY <1>5
<1>6. ASSUME \/ \E h \in Host, c \in Corpus : Beat(h, c) \/ SlotLapse(h, c)
             \/ \E c \in Corpus : Lapse(c)
             \/ \E s \in Stopper : StopStep(s) \/ \E h \in Host, g \in Gather : StopRead(s, h, g)
             \/ UNCHANGED vars
      PROVE  UNCHANGED <<of, call, spec>>
  BY <1>6 DEF Beat, SlotLapse, Lapse, StopStep, StopHere, StopElsewhere, StopReread, StopWrite,
     StopRead, vars
<1> QED BY <1>1, <1>2, <1>3, <1>4, <1>5, <1>6 DEF Next

\* What gather g may write, and where it is then.
Written(g) ==
  \/ /\ call[g] = "admitted" /\ call'[g] = "recorded" /\ spec'[g] = "none"
     /\ record'[of[g]].state = "queued"
  \/ /\ spec[g] = "requeueing" /\ spec'[g] = "waiting" /\ record'[of[g]].state = "queued"
  \/ /\ spec[g] \in {"beginning", "working"} /\ spec'[g] = "working"
     /\ record'[of[g]].state = "running"
  \/ /\ spec[g] = "terminal" /\ spec'[g] = "freeing" /\ record'[of[g]].state \in TerminalState

\* Who writes a record has admitted the gather and has not released its lease.
LEMMA Writers ==
  ASSUME IInv, RecordInv, "spawn" \notin Faults, [Next]_vars, ~Flagged, record' # record
  PROVE  \E g \in Gather :
           /\ Going(g) /\ of[g] \in Corpus /\ UNCHANGED <<at, of>>
           /\ record'[of[g]].gather = g
           /\ \A c \in Corpus : c # of[g] => record'[c] = record[c]
           /\ Written(g)
<1> USE DEF caller, worker, local, bucket, client
<1>0. TypeOK /\ Placed /\ Ownership
  BY DEF IInv
<1>1. PICK g \in Gather : WriteQueued(g) \/ Requeue(g) \/ WriteRunning(g) \/ Report(g) \/ WriteTerminal(g)
  <2>1. ASSUME NEW g \in Gather, CallStep(g), ~WriteQueued(g)
        PROVE  FALSE
    BY <2>1 DEF CallStep, Admit, Refuse, Enqueue, SpawnFails, Undo, UndoLease
  <2>2. ASSUME NEW g \in Gather, Take(g) \/ WorkStep(g), ~Requeue(g), ~WriteRunning(g), ~WriteTerminal(g)
        PROVE  FALSE
    BY <2>2 DEF Take, WorkStep, GetSlot, GiveUpWaiting, KeepWaiting, WaitFails, LostInQueue,
       SetRunning, Interrupted, Finish, MarkFinishing, FreeSlot, ReleaseLease, Pop
  <2>3. ASSUME NEW s \in Stopper, StopStep(s) \/ \E h \in Host, g \in Gather : StopRead(s, h, g)
        PROVE  FALSE
    BY <2>3 DEF StopStep, StopHere, StopElsewhere, StopReread, StopRead, Flagged
  <2>4. ASSUME \/ \E g \in Gather, h \in Host, c \in Corpus : Request(g, h, c)
               \/ \E h \in Host, c \in Corpus : Beat(h, c) \/ SlotLapse(h, c)
               \/ \E c \in Corpus : Lapse(c)
               \/ \E h \in Host : Crash(h)
               \/ UNCHANGED vars
        PROVE  FALSE
    BY <2>4 DEF Request, Beat, SlotLapse, Lapse, Crash, vars
  <2> QED BY <2>1, <2>2, <2>3, <2>4 DEF Next
<1>2. UNCHANGED <<at, of>>
  BY <1>1 DEF WriteQueued, Requeue, WriteRunning, Report, WriteTerminal
<1>3. CASE WriteQueued(g)
  <2>1. call[g] = "admitted" /\ call'[g] = "recorded" /\ spec'[g] = "none"
    BY <1>0, <1>3 DEF WriteQueued, TypeOK, Ownership
  <2>2. spec[g] = "none" /\ Going(g)
    BY <1>0, <2>1 DEF Ownership, Going
  <2>3. of[g] \in Corpus
    BY <1>0, <2>2, GoingOn
  <2>4. record' = [record EXCEPT ![of[g]] = [state |-> "queued", gather |-> g, flag |-> FALSE]]
    BY <1>3 DEF WriteQueued
  <2>5. record'[of[g]] = [state |-> "queued", gather |-> g, flag |-> FALSE]
        /\ \A c \in Corpus : c # of[g] => record'[c] = record[c]
    BY <1>0, <2>3, <2>4 DEF TypeOK
  <2> QED BY <1>2, <2>1, <2>2, <2>3, <2>5 DEF Written
<1>4. CASE Requeue(g) \/ WriteRunning(g) \/ Report(g) \/ WriteTerminal(g)
  <2>1. spec[g] \in {"requeueing", "beginning", "working", "terminal"}
    BY <1>4 DEF Requeue, WriteRunning, Report, WriteTerminal
  <2>2. Going(g) /\ of[g] \in Corpus /\ seen[g] = g
    BY <1>0, <2>1, GoingOn DEF Busy, RecordInv
  <2>3. PICK state \in RecordState, flag \in BOOLEAN :
          /\ record' = [record EXCEPT ![of[g]] = [state |-> state, gather |-> g, flag |-> flag]]
          /\ \/ spec[g] = "requeueing" /\ spec'[g] = "waiting" /\ state = "queued"
             \/ spec[g] \in {"beginning", "working"} /\ spec'[g] = "working" /\ state = "running"
             \/ spec[g] = "terminal" /\ spec'[g] = "freeing" /\ state \in TerminalState
    <3>1. CASE Requeue(g)
      BY <1>0, <2>2, <3>1 DEF Requeue, SetRecord, Goto, TypeOK, RecordState, LiveState
    <3>2. CASE WriteRunning(g) \/ Report(g)
      BY <1>0, <2>2, <3>2 DEF WriteRunning, Report, SetRecord, Goto, TypeOK, RecordState, LiveState
    <3>3. CASE WriteTerminal(g)
      <4>1. end[g].state \in TerminalState
        BY <2>1, <3>3 DEF WriteTerminal, RecordInv
      <4>2. (end[g].state = "cancelled") \in BOOLEAN
        OBVIOUS
      <4>3. record' = [record EXCEPT ![of[g]] = [state |-> end[g].state, gather |-> g,
                                                 flag |-> end[g].state = "cancelled"]]
        BY <2>2, <3>3 DEF WriteTerminal, SetRecord
      <4>4. spec[g] = "terminal" /\ spec'[g] = "freeing"
        BY <1>0, <3>3 DEF WriteTerminal, Goto, TypeOK
      <4> QED BY <4>1, <4>2, <4>3, <4>4 DEF RecordState
    <3> QED BY <1>4, <3>1, <3>2, <3>3
  <2>4. record'[of[g]] = [state |-> state, gather |-> g, flag |-> flag]
        /\ \A c \in Corpus : c # of[g] => record'[c] = record[c]
    BY <1>0, <2>2, <2>3 DEF TypeOK
  <2> QED BY <1>2, <2>2, <2>3, <2>4 DEF Written
<1> QED BY <1>1, <1>3, <1>4

\* A worker reads the watch and the token of its own gather.
LEMMA SeenStep ==
  ASSUME IInv, \A g \in Gather : spec[g] \in Busy => seen[g] = g, "spawn" \notin Faults, [Next]_vars,
         NEW k \in Gather, spec'[k] \in Busy
  PROVE  seen'[k] = k
<1> USE DEF caller, worker, local, bucket, client
<1>0. TypeOK /\ Placed /\ Ownership
  BY DEF IInv
<1>1. ASSUME NEW g \in Gather, Take(g)
      PROVE  seen'[k] = k
  <2>1. seen' = [seen EXCEPT ![g] = Entry(g).gather] /\ spec[g] = "queued"
    BY <1>1 DEF Take
  <2>2. Entry(g).gather = g
    BY <1>0, <2>1, GoingOn DEF Ownership, Busy
  <2>3. k # g => spec'[k] = spec[k]
    BY <1>0, <1>1, WorkMoves
  <2> QED BY <1>0, <2>1, <2>2, <2>3 DEF TypeOK
<1>2. ASSUME NEW g \in Gather, WorkStep(g) \/ Report(g)
      PROVE  seen'[k] = k
  <2>1. seen' = seen /\ spec[g] \in Busy
    BY <1>2 DEF Report, WorkStep, GetSlot, GiveUpWaiting, KeepWaiting, Requeue, WaitFails, LostInQueue,
       SetRunning, WriteRunning, Interrupted, Finish, MarkFinishing, WriteTerminal, FreeSlot,
       ReleaseLease, Pop, Busy
  <2>2. k # g => spec'[k] = spec[k]
    BY <1>0, <1>2, WorkMoves
  <2> QED BY <2>1, <2>2
<1>3. ASSUME seen' = seen, spec'[k] \notin Busy \/ spec'[k] = spec[k]
      PROVE  seen'[k] = k
  BY <1>3
<1>4. ASSUME NEW g \in Gather, CallStep(g) \/ \E h \in Host, c \in Corpus : Request(g, h, c)
      PROVE  seen' = seen /\ (spec'[k] \notin Busy \/ spec'[k] = spec[k])
  BY <1>0, <1>4 DEF Request, CallStep, Admit, Refuse, WriteQueued, Enqueue, SpawnFails, Undo, UndoLease,
     Busy, TypeOK
<1>5. ASSUME \/ \E h \in Host, c \in Corpus : Beat(h, c) \/ SlotLapse(h, c)
             \/ \E c \in Corpus : Lapse(c)
             \/ \E s \in Stopper : StopStep(s) \/ \E h \in Host, g \in Gather : StopRead(s, h, g)
             \/ UNCHANGED vars
      PROVE  seen' = seen /\ spec' = spec
  BY <1>5 DEF Beat, SlotLapse, Lapse, StopStep, StopHere, StopElsewhere, StopReread, StopWrite,
     StopRead, vars
<1>6. ASSUME NEW h \in Host, Crash(h)
      PROVE  seen' = seen /\ (spec'[k] \notin Busy \/ spec'[k] = spec[k])
  BY <1>0, <1>6 DEF Crash, Busy, TypeOK
<1> QED BY <1>1, <1>2, <1>3, <1>4, <1>5, <1>6 DEF Next

\* A gather is closed with its end.
LEMMA EndStep ==
  ASSUME IInv, \A g \in Gather : spec[g] \in {"closing", "terminal"} => end[g].state \in TerminalState,
         "spawn" \notin Faults, [Next]_vars,
         NEW k \in Gather, spec'[k] \in {"closing", "terminal"}
  PROVE  end'[k].state \in TerminalState
<1> USE DEF caller, worker, local, bucket, client
<1>0. TypeOK /\ Placed /\ Ownership
  BY DEF IInv
<1>1. ASSUME NEW g \in Gather, GiveUpWaiting(g) \/ LostInQueue(g) \/ Interrupted(g) \/ Finish(g)
      PROVE  end'[k].state \in TerminalState
  <2>1. PICK state \in TerminalState, publish \in BOOLEAN : End(g, state, publish)
    BY <1>1 DEF GiveUpWaiting, LostInQueue, Interrupted, Finish, TerminalState
  <2> DEFINE e == [state |-> state, publish |-> publish, slot |-> spec[g] \in {"slotted", "working"}]
  <2>2. e.state = state /\ end' = [end EXCEPT ![g] = e]
    BY <2>1 DEF End
  <2> HIDE DEF e
  <2>3. k # g => spec'[k] = spec[k]
    BY <1>0, <2>1 DEF End, Goto, TypeOK
  <2> QED BY <1>0, <2>2, <2>3 DEF TypeOK
<1>2. ASSUME NEW g \in Gather, Take(g) \/ WorkStep(g) \/ Report(g),
             ~(GiveUpWaiting(g) \/ LostInQueue(g) \/ Interrupted(g) \/ Finish(g))
      PROVE  end'[k].state \in TerminalState
  <2>1. end' = end
    BY <1>2 DEF Take, Report, WorkStep, GetSlot, KeepWaiting, Requeue, WaitFails, SetRunning,
       WriteRunning, MarkFinishing, WriteTerminal, FreeSlot, ReleaseLease, Pop
  <2>2. k # g => spec'[k] = spec[k]
    BY <1>0, <1>2, WorkMoves
  <2>3. spec'[g] \in {"closing", "terminal"} => spec[g] \in {"closing", "terminal"}
    BY <1>0, <1>2 DEF Take, Report, WorkStep, GetSlot, KeepWaiting, Requeue, WaitFails, SetRunning,
       WriteRunning, MarkFinishing, WriteTerminal, FreeSlot, ReleaseLease, Pop, Goto, TypeOK
  <2> QED BY <2>1, <2>2, <2>3
<1>3. ASSUME NEW g \in Gather, CallStep(g) \/ \E h \in Host, c \in Corpus : Request(g, h, c)
      PROVE  end' = end /\ spec'[k] \in {"queued", spec[k]}
  BY <1>0, <1>3 DEF Request, CallStep, Admit, Refuse, WriteQueued, Enqueue, SpawnFails, Undo, UndoLease,
     TypeOK
<1>4. ASSUME NEW h \in Host, Crash(h)
      PROVE  end' = end /\ spec'[k] \in {"gone", spec[k]}
  BY <1>0, <1>4 DEF Crash, TypeOK
<1>5. ASSUME \/ \E h \in Host, c \in Corpus : Beat(h, c) \/ SlotLapse(h, c)
             \/ \E c \in Corpus : Lapse(c)
             \/ \E s \in Stopper : StopStep(s) \/ \E h \in Host, g \in Gather : StopRead(s, h, g)
             \/ UNCHANGED vars
      PROVE  end' = end /\ spec' = spec
  BY <1>5 DEF Beat, SlotLapse, Lapse, StopStep, StopHere, StopElsewhere, StopReread, StopWrite,
     StopRead, vars
<1> QED BY <1>1, <1>2, <1>3, <1>4, <1>5 DEF Next

\* What is behind its gather stays so.
LEMMA StaysBehind ==
  ASSUME IInv, "spawn" \notin Faults, [Next]_vars, NEW c, NEW r, Behind(c, r)
  PROVE  Behind(c, r)'
<1> SUFFICES ASSUME NEW k \in Gather, r.gather = k
             PROVE  /\ of'[k] = c /\ call'[k] \in {"recorded", "started", "gone"}
                    /\ spec'[k] \in BeforeWork => r.state = "queued"
                    /\ spec'[k] \in AtItsEnd => r.state \in LiveState
  BY DEF Behind
<1>1. /\ of[k] = c /\ call[k] \in {"recorded", "started", "gone"}
      /\ spec[k] \in BeforeWork => r.state = "queued"
      /\ spec[k] \in AtItsEnd => r.state \in LiveState
  BY DEF Behind
<1> QED BY <1>1, Advances DEF LiveState

\* The copies that stops are about to put back: none is new but the record's own.
LEMMA Copies ==
  ASSUME TypeOK, [Next]_vars, NEW s \in Stopper, stop'[s].pc = "writing"
  PROVE  \/ stop'[s] = stop[s]
         \/ stop'[s].corpus = stop[s].corpus /\ stop'[s].copy = record[stop[s].corpus]
            /\ stop[s].pc = "rereading"
<1> USE DEF caller, worker, local, bucket, client
<1>0. stop[s] \in StopCall
  BY DEF TypeOK
<1>1. ASSUME NEW t \in Stopper, StopStep(t)
      PROVE  \/ stop'[s] = stop[s]
             \/ stop'[s].corpus = stop[s].corpus /\ stop'[s].copy = record[stop[s].corpus]
                /\ stop[s].pc = "rereading"
  <2>1. CASE t # s
    BY <1>1, <2>1 DEF StopStep, StopHere, StopElsewhere, StopReread, StopWrite, StopDone, StopGoto, TypeOK
  <2>2. CASE t = s
    <3>1. ASSUME NEW x \in {"rereading", "done"}, StopGoto(s, x)
          PROVE  stop'[s].pc = x
      BY <1>0, <3>1 DEF StopGoto, TypeOK, StopCall
    <3>2. StopReread(s) /\ ReadsLive(stop[s].corpus)
      BY <1>1, <2>2, <3>1 DEF StopStep, StopHere, StopElsewhere, StopReread, StopWrite, StopDone
    <3> DEFINE copy == record[stop[s].corpus]
    <3>3. stop' = [stop EXCEPT ![s].pc = "writing", ![s].copy = copy] /\ stop[s].pc = "rereading"
      BY <3>2 DEF StopReread
    <3> HIDE DEF copy
    <3>4. stop'[s].corpus = stop[s].corpus /\ stop'[s].copy = copy
      BY <1>0, <3>3 DEF TypeOK, StopCall
    <3> QED BY <3>3, <3>4 DEF copy
  <2> QED BY <2>1, <2>2
<1>2. ASSUME NEW t \in Stopper, NEW h \in Host, NEW g \in Gather, StopRead(t, h, g)
      PROVE  stop'[s] = stop[s]
  <2>1. t # s
    BY <1>2 DEF StopRead, TypeOK
  <2> QED BY <1>2, <2>1 DEF StopRead, TypeOK
<1>3. ASSUME NEW h \in Host, Crash(h)
      PROVE  stop'[s] = stop[s]
  BY <1>0, <1>3 DEF Crash, StopCall
<1>4. ASSUME \/ \E g \in Gather : \/ \E h \in Host, c \in Corpus : Request(g, h, c)
                                 \/ CallStep(g) \/ Take(g) \/ WorkStep(g) \/ Report(g)
             \/ \E h \in Host, c \in Corpus : Beat(h, c) \/ SlotLapse(h, c)
             \/ \E c \in Corpus : Lapse(c)
             \/ UNCHANGED vars
      PROVE  stop' = stop
  BY <1>4 DEF Request, CallStep, Admit, Refuse, WriteQueued, Enqueue, SpawnFails, Undo, UndoLease, Take,
     Report, WorkStep, GetSlot, GiveUpWaiting, KeepWaiting, Requeue, WaitFails, LostInQueue, SetRunning,
     WriteRunning, Interrupted, Finish, MarkFinishing, WriteTerminal, FreeSlot, ReleaseLease, Pop,
     Beat, SlotLapse, Lapse, vars
<1> QED BY <1>1, <1>2, <1>3, <1>4 DEF Next

LEMMA RecordStep ==
  ASSUME IInv, RecordInv, "spawn" \notin Faults, [Next]_vars
  PROVE  RecordInv'
<1>0. TypeOK /\ Placed
  BY DEF IInv
<1>1. \A g \in Gather : spec'[g] \in Busy => seen'[g] = g
  BY SeenStep DEF RecordInv
<1>2. \A g \in Gather : spec'[g] \in {"closing", "terminal"} => end'[g].state \in TerminalState
  BY EndStep DEF RecordInv
<1>3. ASSUME NEW s \in Stopper, stop'[s].pc = "writing"
      PROVE  Behind(stop[s].corpus, stop[s].copy)' 
  <2>1. CASE stop'[s] = stop[s]
    <3> DEFINE c == stop[s].corpus
               r == stop[s].copy
    <3>1. Behind(c, r)
      BY <1>3, <2>1 DEF RecordInv
    <3>2. stop'[s].corpus = c /\ stop'[s].copy = r
      BY <2>1
    <3> QED BY <3>1, <3>2, StaysBehind DEF Behind
  <2>2. CASE /\ stop'[s].corpus = stop[s].corpus /\ stop'[s].copy = record[stop[s].corpus]
             /\ stop[s].pc = "rereading"
    <3> DEFINE c == stop[s].corpus
               r == record[c]
    <3>1. c \in Corpus
      BY <1>0, <2>2 DEF Placed, TypeOK, StopCall
    <3>2. Behind(c, r)
      BY <3>1 DEF RecordInv
    <3> QED BY <2>2, <3>2, StaysBehind DEF Behind
  <2> QED BY <1>0, <1>3, <2>1, <2>2, Copies
<1>4. ASSUME NEW c \in Corpus
      PROVE  Behind(c, record[c])'
  <2>1. CASE record'[c] = record[c]
    <3> DEFINE r == record[c]
    <3>1. Behind(c, r)
      BY DEF RecordInv
    <3> QED BY <2>1, <3>1, StaysBehind DEF Behind
  <2>2. CASE record'[c] # record[c] /\ ~Flagged
    <3>1. PICK g \in Gather :
             /\ Going(g) /\ of[g] \in Corpus /\ UNCHANGED <<at, of>>
             /\ record'[of[g]].gather = g
             /\ \A d \in Corpus : d # of[g] => record'[d] = record[d]
             /\ Written(g)
      BY <2>2, Writers
    <3>2. c = of[g]
      BY <2>2, <3>1
    <3>3. call'[g] \in {"recorded", "started", "gone"}
      <4>1. spec[g] \in {"requeueing", "beginning", "working", "terminal"} => call[g] = "started"
        BY GoingOn DEF IInv, Busy
      <4> QED BY <3>1, <4>1, Advances DEF Written
    <3>4. /\ spec'[g] \in BeforeWork => record'[c].state = "queued"
          /\ spec'[g] \in AtItsEnd => record'[c].state \in LiveState
      BY <3>1, <3>2 DEF Written, BeforeWork, AtItsEnd, LiveState
    <3> QED BY <3>1, <3>2, <3>3, <3>4 DEF Behind
  <2>3. CASE record'[c] # record[c] /\ Flagged
    <3>1. PICK s \in Stopper : StopWrite(s)
      BY <2>3 DEF Flagged
    <3>2. PICK r \in Record : r = stop[s].copy
      BY <1>0 DEF TypeOK, StopCall
    <3>3. record' = [record EXCEPT ![stop[s].corpus] = [r EXCEPT !.flag = TRUE]]
      BY <3>1, <3>2 DEF StopWrite
    <3>4. c = stop[s].corpus /\ record'[c] = [r EXCEPT !.flag = TRUE]
      BY <1>0, <2>3, <3>3 DEF TypeOK
    <3>5. record'[c].gather = r.gather /\ record'[c].state = r.state
      BY <3>4 DEF Record
    <3>6. Behind(c, r)
      BY <3>1, <3>2, <3>4 DEF StopWrite, RecordInv
    <3>7. Behind(c, r)'
      BY <3>6, StaysBehind
    <3> QED BY <3>5, <3>7 DEF Behind
  <2> QED BY <2>1, <2>2, <2>3
<1> QED BY <1>1, <1>2, <1>3, <1>4 DEF RecordInv

\* What a step does to the records.
LEMMA RecordTrueStep ==
  ASSUME IInv, HeldInv, RecordInv, "spawn" \notin Faults, [Next]_vars, ~Flagged, NEW c \in Corpus
  PROVE  /\ LET old == record[c]  new == record'[c] IN
              (old.gather # None /\ new.gather = old.gather /\ new # old) =>
                 Rank(old.state) <= Rank(new.state) /\ old.state \notin TerminalState
         /\ record'[c] # record[c] /\ record'[c].gather \notin overrun
              => lease[c].owner = at[record'[c].gather]
<1> SUFFICES ASSUME record'[c] # record[c]
             PROVE  /\ record'[c].gather = record[c].gather =>
                         /\ Rank(record[c].state) <= Rank(record'[c].state)
                         /\ record[c].state \notin TerminalState
                    /\ record'[c].gather \notin overrun => lease[c].owner = at[record'[c].gather]
  OBVIOUS
<1>1. PICK g \in Gather :
         /\ Going(g) /\ of[g] \in Corpus /\ UNCHANGED <<at, of>>
         /\ record'[of[g]].gather = g
         /\ \A d \in Corpus : d # of[g] => record'[d] = record[d]
         /\ Written(g)
  BY Writers
<1>2. c = of[g] /\ record'[c].gather = g
  BY <1>1
<1>3. ASSUME g \notin overrun
      PROVE  lease[c].owner = at[g]
  <2>1. lease[of[g]] = [owner |-> at[g], state |-> "live"]
    BY <1>1, <1>3 DEF HeldInv
  <2> QED BY <1>2, <2>1
<1>4. ASSUME record[c].gather = g
      PROVE  /\ Rank(record[c].state) <= Rank(record'[c].state)
             /\ record[c].state \notin TerminalState
  <2>1. /\ call[g] # "admitted"
        /\ spec[g] \in BeforeWork => record[c].state = "queued"
        /\ spec[g] \in AtItsEnd => record[c].state \in LiveState
    <3>1. Behind(c, record[c])
      BY DEF RecordInv
    <3> QED BY <1>4, <3>1 DEF Behind
  <2>2. CASE spec[g] = "requeueing" /\ record'[c].state = "queued"
    BY <2>1, <2>2 DEF BeforeWork, TerminalState, Rank
  <2>3. CASE spec[g] \in {"beginning", "working"} /\ record'[c].state = "running"
    BY <2>1, <2>3 DEF BeforeWork, AtItsEnd, LiveState, TerminalState, Rank
  <2>4. CASE spec[g] = "terminal" /\ record'[c].state \in TerminalState
    BY <2>1, <2>4 DEF AtItsEnd, LiveState, TerminalState, Rank
  <2> QED BY <1>1, <1>2, <2>1, <2>2, <2>3, <2>4 DEF Written
<1> QED BY <1>2, <1>3, <1>4

(***************************************************************************)
(* The theorems.                                                           *)
(***************************************************************************)

LEMMA Inductive ==
  ASSUME "spawn" \notin Faults
  PROVE  Spec => []IInv
<1>1. Init => IInv
  BY TypeInit, ConstantsAssumption DEF Init, IInv, Placed, Ownership, Owns, LeaseNotPulled
<1>2. IInv /\ [Next]_vars => IInv'
  BY TypeStep, PlacedStep, OwnershipStep, LeaseStep DEF IInv
<1> QED BY <1>1, <1>2, PTL DEF Spec

\* When threads can be started, a host's workers are never on one corpus twice.
THEOREM OneGatherPerCorpusHolds ==
  ASSUME "spawn" \notin Faults
  PROVE  Spec => []OneGatherPerCorpus
<1>1. IInv => OneGatherPerCorpus
  <2> SUFFICES ASSUME IInv, NEW g \in Gather, NEW k \in Gather,
                      spec[g] \in Busy, spec[k] \in Busy, at[g] = at[k], of[g] = of[k]
               PROVE  g = k
    BY DEF OneGatherPerCorpus
  <2>1. Owns(g) /\ Owns(k)
    BY DEF IInv, TypeOK, Ownership, Owns, CallStage, Busy
  <2> QED BY <2>1 DEF IInv, Ownership, Entry
<1> QED BY <1>1, Inductive, PTL

\* When threads can be started, a host releases no lease under its own live job.
THEOREM LeaseNotPulledHolds ==
  ASSUME "spawn" \notin Faults
  PROVE  Spec => []LeaseNotPulled
<1>1. IInv => LeaseNotPulled
  BY DEF IInv
<1> QED BY <1>1, Inductive, PTL

\* When threads can be started, an old job's cleanup and the next job of its corpus
\* keep out of each other's way.
THEOREM CleanupStaysApart ==
  ASSUME "spawn" \notin Faults
  PROVE  Spec => []CleanupApart
<1>1. OneGatherPerCorpus /\ LeaseNotPulled => CleanupApart
  BY DEF CleanupApart
<1> QED BY <1>1, OneGatherPerCorpusHolds, LeaseNotPulledHolds, PTL

\* When threads can be started, no two gathers of the fleet are at work on a corpus, but
\* for those whose lease or slot lapsed under them: what a host holds no other can take
\* before it lapses, and a host gives up its lease only when its gather's work is over.
THEOREM OneGatherInFleetHolds ==
  ASSUME "spawn" \notin Faults
  PROVE  Spec => []OneGatherInFleet
<1>1. Init => HeldInv
  BY DEF Init, HeldInv, Going
<1>2. IInv /\ HeldInv /\ [Next]_vars => HeldInv'
  BY HeldStep
<1>3. IInv /\ HeldInv => OneGatherInFleet
  <2> SUFFICES ASSUME IInv, HeldInv, NEW g \in Gather \ overrun, NEW k \in Gather \ overrun,
                      spec[g] \in AtWork, spec[k] \in AtWork, of[g] = of[k]
               PROVE  g = k
    BY DEF OneGatherInFleet
  <2>1. Going(g) /\ Going(k)
    BY GoingOn DEF IInv, AtWork, Busy
  <2>2. at[g] = at[k]
    <3>1. /\ lease[of[g]] = [owner |-> at[g], state |-> "live"]
          /\ lease[of[k]] = [owner |-> at[k], state |-> "live"]
      BY <2>1 DEF HeldInv
    <3> QED BY <3>1
  <2> QED BY <2>1, <2>2, GoingOn DEF IInv, Ownership, Entry
<1> QED BY <1>1, <1>2, <1>3, Inductive, PTL DEF Spec

\* When threads can be started, the fleet's record of a corpus tells one gather's progress
\* in order, whatever leases lapse and whatever stops are asked for, except where another
\* host's stop puts its flag into it; and whoever writes it otherwise holds the corpus, or
\* has let its lease or slot lapse.
THEOREM RecordTrueHolds ==
  ASSUME "spawn" \notin Faults
  PROVE  Spec => RecordTrue
<1> DEFINE All == IInv /\ HeldInv /\ RecordInv
           Forward == \A c \in Corpus : LET old == record[c]  new == record'[c] IN
             (old.gather # None /\ new.gather = old.gather /\ new # old /\ ~Flagged) =>
                Rank(old.state) <= Rank(new.state) /\ old.state \notin TerminalState
           IsHolders == \A c \in Corpus : LET g == record'[c].gather IN
             (record'[c] # record[c] /\ g # None /\ g \notin overrun /\ ~Flagged)
               => lease[c].owner = at[g]
<1>1. Init => HeldInv /\ RecordInv
  BY ConstantsAssumption DEF Init, HeldInv, Going, RecordInv, Behind, NoRecord, Busy
<1>2. IInv /\ HeldInv /\ [Next]_vars => HeldInv'
  BY HeldStep
<1>3. IInv /\ RecordInv /\ [Next]_vars => RecordInv'
  BY RecordStep
<1>4. All /\ [Next]_vars => [Forward]_vars /\ [IsHolders]_vars
  <2> SUFFICES ASSUME All, Next
               PROVE  Forward /\ IsHolders
    OBVIOUS
  <2>1. CASE Flagged
    BY <2>1
  <2>2. CASE ~Flagged
    BY <2>2, RecordTrueStep
  <2> QED BY <2>1, <2>2
<1> QED BY <1>1, <1>2, <1>3, <1>4, Inductive, PTL DEF Spec, RecordTrue, RecordForward, RecordIsHolders

(***************************************************************************)
(* The slots of the fleet.                                                 *)
(***************************************************************************)

\* What a step does to the slots.
LEMMA SlotMoves ==
  ASSUME [Next]_vars
  PROVE  \/ UNCHANGED slots
         \/ \E g \in Gather : GetSlot(g)
         \/ \E g \in Gather : FreeSlot(g) /\ slots' = slots \ {MySlot(g)}
         \/ \E h \in Host, c \in Corpus : SlotLapse(h, c)
<1> USE DEF caller, worker, local, bucket, client
<1>1. ASSUME NEW g \in Gather, \E h \in Host, c \in Corpus : Request(g, h, c)
      PROVE  UNCHANGED slots
  BY <1>1 DEF Request
<1>2. ASSUME NEW g \in Gather, CallStep(g) \/ Take(g) \/ Report(g)
      PROVE  UNCHANGED slots
  BY <1>2 DEF CallStep, Admit, Refuse, WriteQueued, Enqueue, SpawnFails, Undo, UndoLease, Take, Report
<1>3. ASSUME NEW g \in Gather, WorkStep(g), ~GetSlot(g), ~FreeSlot(g)
      PROVE  UNCHANGED slots
  BY <1>3 DEF WorkStep, GiveUpWaiting, KeepWaiting, Requeue, WaitFails, LostInQueue, SetRunning,
     WriteRunning, Interrupted, Finish, MarkFinishing, WriteTerminal, ReleaseLease, Pop
<1>4. ASSUME NEW g \in Gather, FreeSlot(g)
      PROVE  UNCHANGED slots \/ slots' = slots \ {MySlot(g)}
  BY <1>4 DEF FreeSlot
<1>5. ASSUME (\E h \in Host, c \in Corpus : Beat(h, c)) \/ (\E c \in Corpus : Lapse(c))
      PROVE  UNCHANGED slots
  BY <1>5 DEF Beat, Lapse
<1>6. ASSUME NEW s \in Stopper, StopStep(s) \/ \E h \in Host, g \in Gather : StopRead(s, h, g)
      PROVE  UNCHANGED slots
  BY <1>6 DEF StopStep, StopHere, StopElsewhere, StopReread, StopWrite, StopRead
<1>7. ASSUME NEW h \in Host, Crash(h)
      PROVE  UNCHANGED slots
  BY <1>7 DEF Crash
<1>8. CASE UNCHANGED vars
  BY <1>8 DEF vars
<1> QED BY <1>1, <1>2, <1>3, <1>4, <1>5, <1>6, <1>7, <1>8 DEF Next

\* The slots are no more than there may be, and of hosts and corpora.
SlotsBounded == IsFiniteSet(slots) /\ Cardinality(slots) <= Workers

LEMMA MySlotTyped ==
  ASSUME TypeOK, Placed, NEW g \in Gather, spec[g] # "none"
  PROVE  at[g] \in Host /\ of[g] \in Corpus /\ MySlot(g) \in Host \X Corpus
<1>1. at[g] \in Host /\ of[g] \in Corpus
  BY DEF Placed, TypeOK
<1> QED BY <1>1 DEF MySlot

LEMMA SlotGiven ==
  ASSUME SlotsBounded, NEW g \in Gather, GetSlot(g)
  PROVE  /\ slots' = slots \cup {MySlot(g)}
         /\ IsFiniteSet(slots \cup {MySlot(g)}) /\ Cardinality(slots \cup {MySlot(g)}) <= Workers
<1>1. slots' = slots \cup {MySlot(g)} /\ SlotFree(g)
  BY DEF GetSlot
<1>2. Cardinality(slots) \in Nat /\ Workers \in Nat
  BY FS_CardinalityType, ConstantsAssumption DEF SlotsBounded
<1>3. /\ IsFiniteSet(slots \cup {MySlot(g)})
      /\ Cardinality(slots \cup {MySlot(g)}) =
           IF MySlot(g) \in slots THEN Cardinality(slots) ELSE Cardinality(slots) + 1
  BY FS_AddElement DEF SlotsBounded
<1> QED BY <1>1, <1>2, <1>3 DEF SlotFree, SlotsBounded

LEMMA SlotTaken ==
  ASSUME SlotsBounded, NEW x
  PROVE  IsFiniteSet(slots \ {x}) /\ Cardinality(slots \ {x}) <= Workers
<1>1. IsFiniteSet(slots \ {x}) /\ Cardinality(slots \ {x}) <= Cardinality(slots)
  <2>1. slots \ {x} \subseteq slots
    OBVIOUS
  <2> QED BY <2>1, FS_Subset DEF SlotsBounded
<1>2. Cardinality(slots \ {x}) \in Nat /\ Cardinality(slots) \in Nat /\ Workers \in Nat
  BY <1>1, FS_CardinalityType, ConstantsAssumption DEF SlotsBounded
<1> QED BY <1>1, <1>2 DEF SlotsBounded

LEMMA SlotsStep ==
  ASSUME TypeOK, Placed, SlotsBounded, [Next]_vars
  PROVE  SlotsBounded' /\ [Slots!Next]_<<slots, slots>>
<1>1. CASE UNCHANGED slots
  BY <1>1 DEF SlotsBounded
<1>2. ASSUME NEW g \in Gather, GetSlot(g)
      PROVE  SlotsBounded' /\ Slots!Next
  <2>1. MySlot(g) \in Host \X Corpus
    BY <1>2, MySlotTyped DEF GetSlot
  <2>2. /\ slots' = slots \cup {MySlot(g)}
        /\ IsFiniteSet(slots \cup {MySlot(g)}) /\ Cardinality(slots \cup {MySlot(g)}) <= Workers
    BY <1>2, SlotGiven
  <2>3. SlotsBounded'
    BY <2>2 DEF SlotsBounded
  <2>4. Slots!Cardinality(slots \cup {MySlot(g)}) <= Workers
    BY <2>2 DEF Slots!Cardinality, Cardinality
  <2>5. Slots!Acquire(MySlot(g))
    BY <2>2, <2>4, Zenon DEF Slots!Acquire
  <2> QED BY <2>1, <2>3, <2>5 DEF Slots!Next
<1>3. ASSUME NEW x \in Host \X Corpus, slots' = slots \ {x}
      PROVE  SlotsBounded' /\ Slots!Next
  <2>1. SlotsBounded' /\ Slots!Release(x)
    BY <1>3, SlotTaken DEF SlotsBounded, Slots!Release
  <2> QED BY <2>1 DEF Slots!Next
<1>4. ASSUME NEW g \in Gather, FreeSlot(g), slots' = slots \ {MySlot(g)}
      PROVE  SlotsBounded' /\ Slots!Next
  <2>1. MySlot(g) \in Host \X Corpus
    BY <1>4, MySlotTyped DEF FreeSlot
  <2> QED BY <1>3, <1>4, <2>1
<1>5. ASSUME NEW h \in Host, NEW c \in Corpus, SlotLapse(h, c)
      PROVE  SlotsBounded' /\ Slots!Next
  <2>1. <<h, c>> \in Host \X Corpus /\ slots' = slots \ {<<h, c>>}
    BY <1>5 DEF SlotLapse
  <2> QED BY <1>3, <2>1
<1> QED BY <1>1, <1>2, <1>4, <1>5, SlotMoves

LEMMA SlotsBoundedHolds == Spec => [](TypeOK /\ Placed /\ SlotsBounded)
<1>1. Init => Placed /\ SlotsBounded
  <2> SUFFICES ASSUME Init
               PROVE  Placed /\ SlotsBounded
    OBVIOUS
  <2>1. IsFiniteSet(slots) /\ Cardinality(slots) = 0
    BY FS_EmptySet DEF Init
  <2> QED BY <2>1, ConstantsAssumption DEF Init, Placed, SlotsBounded
<1>2. TypeOK /\ Placed /\ SlotsBounded /\ [Next]_vars => Placed' /\ SlotsBounded'
  BY PlacedStep, SlotsStep
<1> QED BY <1>1, <1>2, TypeCorrect, PTL DEF Spec

\* The runner's slots are what GatherSlots promises, and FleetRecords implements, under
\* every fault.
THEOREM SlotsWithinContract == Spec => Slots!Spec
<1>1. Init => Slots!Init
  BY DEF Init, Slots!Init
<1>2. TypeOK /\ Placed /\ SlotsBounded /\ [Next]_vars => [Slots!Next]_<<slots, slots>>
  BY SlotsStep
<1> QED BY <1>1, <1>2, SlotsBoundedHolds, PTL DEF Spec, Slots!Spec

\* A job that works has its slot, unless that lapsed under it.
Slotted == \A g \in Gather \ overrun : spec[g] \in InSlot => MySlot(g) \in slots

\* How a gather gets to work.
LEMMA ComesIn ==
  ASSUME IInv, [Next]_vars, NEW g \in Gather, spec'[g] \in InSlot
  PROVE  /\ at'[g] = at[g] /\ of'[g] = of[g]
         /\ spec[g] \in InSlot \/ GetSlot(g)
<1> USE DEF caller, worker, local, bucket, client
<1>0. TypeOK /\ Placed /\ Ownership
  BY DEF IInv
<1>1. ASSUME NEW k \in Gather, \E h \in Host, c \in Corpus : Request(k, h, c)
      PROVE  at'[g] = at[g] /\ of'[g] = of[g] /\ spec[g] \in InSlot
  <2>1. /\ call[k] = "idle" /\ UNCHANGED spec
        /\ \A o \in Gather : o # k => at'[o] = at[o] /\ of'[o] = of[o]
    BY <1>0, <1>1 DEF Request, TypeOK
  <2>2. k # g
    BY <1>0, <2>1 DEF Ownership, InSlot
  <2> QED BY <2>1, <2>2
<1>2. ASSUME NEW k \in Gather, CallStep(k)
      PROVE  at'[g] = at[g] /\ of'[g] = of[g] /\ spec[g] \in InSlot
  <2>1. UNCHANGED <<at, of>> /\ (UNCHANGED spec \/ spec' = [spec EXCEPT ![k] = "queued"])
    BY <1>2 DEF CallStep, Admit, Refuse, WriteQueued, Enqueue, SpawnFails, Undo, UndoLease
  <2> QED BY <1>0, <2>1 DEF TypeOK, InSlot
<1>3. ASSUME NEW k \in Gather, Take(k) \/ WorkStep(k) \/ Report(k)
      PROVE  /\ at'[g] = at[g] /\ of'[g] = of[g]
             /\ spec[g] \in InSlot \/ GetSlot(g)
  <2>1. UNCHANGED <<at, of, call>> /\ \A o \in Gather : o # k => spec'[o] = spec[o]
    BY <1>0, <1>3, WorkMoves
  <2>2. CASE k = g
    <3>1. CASE Take(g) \/ KeepWaiting(g) \/ Requeue(g) \/ WaitFails(g) \/ MarkFinishing(g)
               \/ WriteTerminal(g) \/ FreeSlot(g) \/ ReleaseLease(g) \/ Pop(g)
      BY <1>0, <3>1 DEF Take, KeepWaiting, Requeue, WaitFails, MarkFinishing, WriteTerminal, FreeSlot,
         ReleaseLease, Pop, Goto, TypeOK, InSlot
    <3>2. CASE GiveUpWaiting(g) \/ LostInQueue(g) \/ Interrupted(g) \/ Finish(g)
      BY <1>0, <3>2 DEF GiveUpWaiting, LostInQueue, Interrupted, Finish, End, Goto, TypeOK, InSlot
    <3>3. CASE SetRunning(g) \/ WriteRunning(g) \/ Report(g)
      BY <1>0, <3>3 DEF SetRunning, WriteRunning, Report, InSlot
    <3> QED BY <1>3, <2>1, <2>2, <3>1, <3>2, <3>3 DEF WorkStep
  <2> QED BY <2>1, <2>2
<1>4. ASSUME NEW h \in Host, Crash(h)
      PROVE  at'[g] = at[g] /\ of'[g] = of[g] /\ spec[g] \in InSlot
  BY <1>0, <1>4 DEF Crash, TypeOK, InSlot
<1>5. ASSUME \/ \E h \in Host, c \in Corpus : Beat(h, c) \/ SlotLapse(h, c)
             \/ \E c \in Corpus : Lapse(c)
             \/ \E s \in Stopper : StopStep(s) \/ \E h \in Host, k \in Gather : StopRead(s, h, k)
             \/ UNCHANGED vars
      PROVE  UNCHANGED <<at, of, spec>>
  BY <1>5 DEF Beat, SlotLapse, Lapse, StopStep, StopHere, StopElsewhere, StopReread, StopWrite, StopRead, vars
<1>6. CASE UNCHANGED <<at, of, spec>>
  BY <1>6
<1> QED BY <1>1, <1>2, <1>3, <1>4, <1>5, <1>6 DEF Next

\* What a gather at work has in the registry.
LEMMA InSlotOwns ==
  ASSUME IInv, HeldInv, NEW g \in Gather, spec[g] \in InSlot
  PROVE  /\ Going(g)
         /\ at[g] \in alive /\ at[g] \in Host /\ of[g] \in Corpus /\ Entry(g).gather = g
<1>1. Going(g) /\ call[g] = "started"
  BY GoingOn DEF IInv, InSlot, Busy
<1> QED BY <1>1, GoingOn DEF IInv, HeldInv, Ownership

\* A gather whose lease or slot has lapsed under it is known for ever.
LEMMA OverrunGrows ==
  ASSUME [Next]_vars
  PROVE  overrun \subseteq overrun'
<1> USE DEF caller, worker, local, bucket, client
<1>1. ASSUME NEW g \in Gather, \/ \E h \in Host, c \in Corpus : Request(g, h, c)
                               \/ CallStep(g) \/ Take(g) \/ WorkStep(g) \/ Report(g)
      PROVE  overrun \subseteq overrun'
  BY <1>1 DEF Request, CallStep, Admit, Refuse, WriteQueued, Enqueue, SpawnFails, Undo, UndoLease, Take,
     Report, WorkStep, GetSlot, GiveUpWaiting, KeepWaiting, Requeue, WaitFails, LostInQueue, SetRunning,
     WriteRunning, Interrupted, Finish, MarkFinishing, WriteTerminal, FreeSlot, ReleaseLease, Pop
<1>2. ASSUME \/ \E h \in Host, c \in Corpus : Beat(h, c) \/ SlotLapse(h, c)
             \/ \E c \in Corpus : Lapse(c)
             \/ \E s \in Stopper : StopStep(s) \/ \E h \in Host, g \in Gather : StopRead(s, h, g)
             \/ \E h \in Host : Crash(h)
             \/ UNCHANGED vars
      PROVE  overrun \subseteq overrun'
  BY <1>2 DEF Beat, SlotLapse, Lapse, StopStep, StopHere, StopElsewhere, StopReread, StopWrite, StopRead,
     Crash, vars
<1> QED BY <1>1, <1>2 DEF Next

LEMMA SlottedStep ==
  ASSUME IInv, HeldInv, Slotted, [Next]_vars
  PROVE  Slotted'
<1> SUFFICES ASSUME NEW g \in Gather \ overrun', spec'[g] \in InSlot
             PROVE  <<at'[g], of'[g]>> \in slots'
  BY DEF Slotted, MySlot
<1>0. g \notin overrun
  BY OverrunGrows
<1>1. /\ <<at'[g], of'[g]>> = MySlot(g)
      /\ spec[g] \in InSlot \/ GetSlot(g)
  BY ComesIn DEF MySlot
<1>2. CASE GetSlot(g)
  BY <1>1, <1>2 DEF GetSlot
<1>3. CASE spec[g] \in InSlot
  <2>1. /\ MySlot(g) \in slots /\ Going(g)
        /\ at[g] \in Host /\ of[g] \in Corpus /\ Entry(g).gather = g
    BY <1>0, <1>3, InSlotOwns DEF Slotted
  <2>2. ASSUME NEW k \in Gather, FreeSlot(k), slots' = slots \ {MySlot(k)}
        PROVE  MySlot(k) # MySlot(g)
    <3>1. spec[k] = "freeing"
      BY <2>2 DEF FreeSlot
    <3>2. Going(k) /\ Entry(k).gather = k
      BY <3>1, GoingOn DEF IInv, Busy, Ownership
    <3>3. k # g
      BY <1>3, <3>1 DEF InSlot
    <3> QED BY <2>1, <3>2, <3>3 DEF MySlot, Entry
  <2>3. ASSUME NEW h \in Host, NEW c \in Corpus, SlotLapse(h, c)
        PROVE  <<h, c>> # MySlot(g) /\ slots' = slots \ {<<h, c>>}
    <3>1. slots' = slots \ {<<h, c>>} /\ overrun' = overrun \cup GoingAt(h, c)
      BY <2>3 DEF SlotLapse
    <3>2. g \notin GoingAt(h, c)
      BY <3>1
    <3> QED BY <2>1, <3>1, <3>2 DEF MySlot, GoingAt
  <2>4. CASE \E k \in Gather : GetSlot(k)
    BY <1>1, <2>1, <2>4 DEF GetSlot
  <2> QED BY <1>1, <2>1, <2>2, <2>3, <2>4, SlotMoves
<1> QED BY <1>1, <1>2, <1>3

\* Jobs at work have slots of their own, so they are no more than the slots.
LEMMA SlottedCaps ==
  ASSUME IInv, HeldInv, Slotted, SlotsBounded
  PROVE  WorkWithinCap
<1> DEFINE S == {g \in Gather \ overrun : spec[g] \in InSlot}
           f == [g \in S |-> MySlot(g)]
<1>1. f \in [S -> slots]
  BY DEF Slotted
<1>2. ASSUME NEW g \in S, NEW k \in S, f[g] = f[k]
      PROVE  g = k
  <2>1. Entry(g).gather = g /\ Entry(k).gather = k
    BY InSlotOwns
  <2>2. at[g] = at[k] /\ of[g] = of[k]
    BY <1>2 DEF MySlot
  <2> QED BY <2>1, <2>2 DEF Entry
<1>3. f \in Injection(S, slots)
  BY <1>1, <1>2 DEF Injection, IsInjective
<1> HIDE DEF S, f
<1>4. IsFiniteSet(S) /\ Cardinality(S) <= Cardinality(slots)
  BY <1>3, FS_Injection DEF SlotsBounded
<1>5. Cardinality(S) \in Nat /\ Cardinality(slots) \in Nat /\ Workers \in Nat
  BY <1>4, FS_CardinalityType, ConstantsAssumption DEF SlotsBounded
<1>6. Cardinality(S) <= Workers
  BY <1>4, <1>5 DEF SlotsBounded
<1> QED BY <1>6 DEF S, WorkWithinCap

\* When threads can be started, no more gathers are at work in the fleet than there are
\* slots, but for those whose lease or slot lapsed under them, whoever crashes and
\* whatever fails.
THEOREM WorkWithinCapHolds ==
  ASSUME "spawn" \notin Faults
  PROVE  Spec => []WorkWithinCap
<1>1. Init => HeldInv /\ Slotted
  BY DEF Init, HeldInv, Going, Slotted, InSlot
<1>2. IInv /\ HeldInv /\ [Next]_vars => HeldInv'
  BY HeldStep
<1>3. IInv /\ HeldInv /\ Slotted /\ [Next]_vars => Slotted'
  BY SlottedStep
<1>4. IInv /\ HeldInv /\ Slotted /\ SlotsBounded => WorkWithinCap
  BY SlottedCaps
<1> QED BY <1>1, <1>2, <1>3, <1>4, Inductive, SlotsBoundedHolds, PTL DEF Spec

\* Under the same assumptions the fleet keeps both of its bounds.
THEOREM FleetBoundsHold ==
  ASSUME "spawn" \notin Faults
  PROVE  Spec => []FleetBounds
<1>1. OneGatherInFleet /\ WorkWithinCap => FleetBounds
  BY DEF FleetBounds
<1> QED BY <1>1, OneGatherInFleetHolds, WorkWithinCapHolds, PTL
===============================================================================
