---------------------------- MODULE CloudPublish ----------------------------
(***************************************************************************)
(* Publishing one corpus to the shared bucket: the gather lease, the       *)
(* staging of a version's blobs, the fenced flip of the version pointer    *)
(* and the reaping of old versions.                                        *)
(*                                                                         *)
(* Sources: ietf_llm/store/cloud.py (publish and its helpers),             *)
(* ietf_llm/store/control.py (pointer and lease), ietf_llm/store/blobs*.py *)
(* and ietf_llm/gather/lifecycle.py (held_gather, publish_workspace).      *)
(*                                                                         *)
(* Every gather is a process of its own, anywhere in the fleet; what they  *)
(* share is the bucket.  One action is one request to the bucket (or one   *)
(* read-then-conditional-put whose condition makes it atomic), so gathers  *)
(* interleave between any two requests.  Wall clocks are modelled by what  *)
(* is left of the lease: lease.left is expires_at minus now.               *)
(***************************************************************************)
EXTENDS Integers, FiniteSets

CONSTANTS
  Gather,        \* lease owners: one per gathering process (lifecycle.process_owner)
  NoGather,      \* "no owner": the lease record does not exist
  Version,       \* version ids, ordered as their sort order orders them
  File,          \* the files of a gathered tree
  Manifest,      \* the manifest blob, written after every file
  Retain,        \* retain_versions: versions a publish keeps (at least 1)
  TTL,           \* LEASE_TTL, in ticks
  Delay,         \* longest age of the clock reading a lease write carries
  Stall,         \* longest time from a confirmed lease to the end of the reap
  Skew,          \* how far two hosts' clocks may differ
  OrderedIds,    \* TRUE: a version id allotted later always sorts later
  Faults         \* which faults may happen, a subset of FaultKind

FaultKind == {"crash",     \* a process dies between two of its steps
              "error",     \* a request fails and raises (uploads, flips, deletes)
              "lapse",     \* a live gather fails to renew its lease in time
              "resend"}    \* the S3 client resends a conditional put that was applied

NoVersion == 0
Part == File \cup {Manifest}

\* The constants are of the kinds the comments above give them.
ASSUME ConstantsAssumption ==
  /\ NoGather \notin Gather
  /\ Version \subseteq Nat \ {0}
  /\ Manifest \notin File
  /\ Retain \in Nat \ {0}
  /\ TTL \in Nat \ {0} /\ Delay \in 0..TTL /\ Stall \in Nat /\ Skew \in Nat
  /\ OrderedIds \in BOOLEAN
  /\ Faults \subseteq FaultKind

VARIABLES
  pointer,    \* corpora/<name>/pointer: the current version, or NoVersion
  blobs,      \* corpora/<name>/versions/<v>/: the parts stored under each version
  lease,      \* corpora/<name>/lease: who, how long still, and whether released
  pc,         \* where each gather is
  lost,       \* LeaseWatch.lost of each gather
  ver,        \* the version id each gather stages
  expect,     \* the pointer each gather read before staging (expect_pointer)
  sent,       \* the parts each gather has uploaded
  todo,       \* the versions each gather is still to reap
  elapsed,    \* ticks since each gather's lease was last confirmed
  (* history, read by no action's guard except the choice of a fresh id *)
  used,       \* every version id ever allotted
  past,       \* the versions that were current once and were superseded
  before,     \* the one the last flip superseded
  later,      \* the gathers that took the lease after each gather took it
  beaten      \* has one of them moved the pointer since?

store   == <<pointer, blobs>>
local   == <<ver, expect, sent, todo>>
history == <<used, past, before, later, beaten>>
vars    == <<pointer, blobs, lease, pc, lost, local, elapsed, history>>

-----------------------------------------------------------------------------
(* Where a gather can be.                                                  *)

Staging  == {"uploading", "staged"}            \* past the holder check, not confirmed
Critical == {"confirmed", "flipped", "reaping"} \* the lease was confirmed for the flip
Active   == {"gathering", "tokenRead", "discarding", "unwinding"}
              \cup Staging \cup Critical
Stage    == {"idle", "dead"} \cup Active

Stored   == {v \in Version : blobs[v] # {}}
Complete(v) == blobs[v] = Part

\* The n largest elements of S (every element when S has no more than n).
Newest(S, n) == {v \in S : Cardinality({w \in S : w > v}) < n}

Init ==
  /\ pointer = NoVersion
  /\ blobs = [v \in Version |-> {}]
  /\ lease = [owner |-> NoGather, left |-> 0, released |-> FALSE]
  /\ pc = [g \in Gather |-> "idle"]
  /\ lost = [g \in Gather |-> FALSE]
  /\ ver = [g \in Gather |-> NoVersion]
  /\ expect = [g \in Gather |-> NoVersion]
  /\ sent = [g \in Gather |-> {}]
  /\ todo = [g \in Gather |-> {}]
  /\ elapsed = [g \in Gather |-> 0]
  /\ used = {}
  /\ past = {}
  /\ before = NoVersion
  /\ later = [g \in Gather |-> {}]
  /\ beaten = [g \in Gather |-> FALSE]

Goto(g, stage) == pc' = [pc EXCEPT ![g] = stage]

\* The gather's local variables go with its stack.
Forget(g) ==
  /\ ver' = [ver EXCEPT ![g] = NoVersion]
  /\ expect' = [expect EXCEPT ![g] = NoVersion]
  /\ sent' = [sent EXCEPT ![g] = {}]
  /\ todo' = [todo EXCEPT ![g] = {}]

-----------------------------------------------------------------------------
(* The lease (control.py).  A write carries a clock reading at most Delay  *)
(* old, and a taker's clock may be Skew ahead of the holder's.             *)

\* Mutants of Takeable: the expiry is not looked at; a live lease is taken over.
TakeableNeverLapses(g) == lease.owner \in {NoGather, g} \/ lease.released
TakeableWhileLive(g) == lease.left <= TTL

\* acquire_lease: taken if absent, lapsed, or already ours.
Takeable(g) ==
  \/ lease.owner \in {NoGather, g}
  \/ lease.left <= Skew

TakeLease(g) ==
  /\ pc[g] = "idle"
  /\ Takeable(g)
  /\ \E age \in 0..Delay :
       lease' = [owner |-> g, left |-> TTL - age, released |-> FALSE]
  /\ later' = [h \in Gather |-> IF h = g THEN {} ELSE later[h] \cup {g}]
  /\ beaten' = [beaten EXCEPT ![g] = FALSE]
  /\ UNCHANGED <<store, local, elapsed, used, past, before>>

Acquire(g) ==
  /\ TakeLease(g)
  /\ lost' = [lost EXCEPT ![g] = FALSE]
  /\ Goto(g, "gathering")

\* The put is applied but its answer is lost (it raises, or is sent again and
\* refused): the caller reports a busy corpus and the lease stands until it lapses.
AcquireLost(g) ==
  /\ Faults \cap {"error", "resend"} # {}
  /\ TakeLease(g)
  /\ UNCHANGED <<pc, lost>>

\* _touch_lease's test: the record still names g and g did not release it.
Holds(g) == lease.owner = g /\ ~lease.released

\* renew_lease as the heartbeat calls it.  The deadline is set, not extended:
\* a renewal that read its clock early can shorten what a confirm granted.
Renew(g) ==
  /\ pc[g] \in Active
  /\ ~lost[g]
  /\ Holds(g)
  /\ \E age \in 0..Delay : lease' = [lease EXCEPT !.left = TTL - age]
  /\ UNCHANGED <<store, pc, lost, local, elapsed, history>>

\* LeaseWatch: a refused renewal, or too many failed ones, ends the heartbeat.
LoseLease(g) ==
  /\ pc[g] \in Active
  /\ ~lost[g]
  /\ ~Holds(g) \/ "error" \in Faults
  /\ lost' = [lost EXCEPT ![g] = TRUE]
  /\ UNCHANGED <<store, lease, pc, local, elapsed, history>>

\* Mutant of Release: a lease that somebody has taken over is waited for.
ReleaseHeldOnly(g) ==
  /\ pc[g] = "unwinding"
  /\ Holds(g)
  /\ lease' = [owner |-> g, left |-> 0, released |-> TRUE]
  /\ Goto(g, "idle")
  /\ Forget(g)
  /\ UNCHANGED <<store, lost, elapsed, history>>

\* release_lease, the last thing held_gather does.  It is best-effort: when the
\* request fails the lease stands until it lapses.
Release(g) ==
  /\ pc[g] = "unwinding"
  /\ \/ lease' = IF Holds(g) THEN [owner |-> g, left |-> 0, released |-> TRUE] ELSE lease
     \/ "error" \in Faults /\ lease' = lease
  /\ Goto(g, "idle")
  /\ Forget(g)
  /\ UNCHANGED <<store, lost, elapsed, history>>

-----------------------------------------------------------------------------
(* publish (cloud.py).                                                     *)

\* The gather fails, is stopped, is skipped, or knows that its lease is lost.
GiveUp(g) ==
  /\ pc[g] = "gathering"
  /\ Goto(g, "unwinding")
  /\ UNCHANGED <<store, lease, lost, local, elapsed, history>>

\* publish_workspace and the head of publish: a fresh id, then the pointer token.
ReadPointer(g) ==
  /\ pc[g] = "gathering"
  /\ ~lost[g]
  /\ \E v \in Version \ used :
       /\ OrderedIds => \A w \in used : w < v
       /\ ver' = [ver EXCEPT ![g] = v]
       /\ used' = used \cup {v}
  /\ expect' = [expect EXCEPT ![g] = pointer]
  /\ sent' = [sent EXCEPT ![g] = {}]
  /\ Goto(g, "tokenRead")
  /\ UNCHANGED <<store, lease, lost, todo, elapsed, past, before, later, beaten>>

\* lease_holder(expired_ok=True): whoever the record names, lapsed or released.
CheckHolder(g) ==
  /\ pc[g] = "tokenRead"
  /\ Goto(g, IF lease.owner = g THEN "uploading" ELSE "unwinding")
  /\ UNCHANGED <<store, lease, lost, local, elapsed, history>>

\* Mutant of Upload: the manifest does not wait for the files.
UploadManifestEarly(g, p) ==
  /\ pc[g] = "uploading"
  /\ p \in Part \ sent[g]
  /\ blobs' = [blobs EXCEPT ![ver[g]] = @ \cup {p}]
  /\ sent' = [sent EXCEPT ![g] = @ \cup {p}]
  /\ Goto(g, IF p = Manifest THEN "staged" ELSE "uploading")
  /\ UNCHANGED <<pointer, lease, lost, ver, expect, todo, elapsed, history>>

\* The files go up concurrently, in any order; the manifest after all of them.
Upload(g, p) ==
  /\ pc[g] = "uploading"
  /\ p \in Part \ sent[g]
  /\ p = Manifest => sent[g] = File
  /\ blobs' = [blobs EXCEPT ![ver[g]] = @ \cup {p}]
  /\ sent' = [sent EXCEPT ![g] = @ \cup {p}]
  /\ Goto(g, IF p = Manifest THEN "staged" ELSE "uploading")
  /\ UNCHANGED <<pointer, lease, lost, ver, expect, todo, elapsed, history>>

\* A request before the flip raises: publish unwinds as it is, and what was
\* uploaded stays behind as an orphan.
StagingFails(g) ==
  /\ "error" \in Faults
  /\ pc[g] \in {"tokenRead"} \cup Staging
  /\ Goto(g, "unwinding")
  /\ UNCHANGED <<store, lease, lost, local, elapsed, history>>

\* Mutant of Confirm: it proves the lease but does not extend it.
ConfirmOnlyChecks(g) ==
  /\ pc[g] = "staged"
  /\ Holds(g)
  /\ lease' = lease
  /\ elapsed' = [elapsed EXCEPT ![g] = 0]
  /\ Goto(g, "confirmed")
  /\ UNCHANGED <<store, lost, local, history>>

\* confirm_lease: prove, by a compare-and-swap that extends it, that the lease
\* is still ours.
Confirm(g) ==
  /\ pc[g] = "staged"
  /\ Holds(g)
  /\ \E age \in 0..Delay :
       lease' = [lease EXCEPT !.left = IF @ > TTL - age THEN @ ELSE TTL - age]
  /\ elapsed' = [elapsed EXCEPT ![g] = 0]
  /\ Goto(g, "confirmed")
  /\ UNCHANGED <<store, lost, local, history>>

\* Refused (somebody else's, or released), or LeaseConflict: the retries against
\* our own heartbeat ran out.  Either way the staged prefix is discarded.
ConfirmRefused(g) ==
  /\ pc[g] = "staged"
  /\ ~Holds(g) \/ "error" \in Faults
  /\ Goto(g, "discarding")
  /\ UNCHANGED <<store, lease, lost, local, elapsed, history>>

\* Mutant of MovePointer: an unconditional put (expect=ANY).
MovePointerBlindly(g) ==
  /\ pointer' = ver[g]
  /\ before' = pointer
  /\ past' = past \cup ({pointer} \ {NoVersion})
  /\ beaten' = [h \in Gather |-> beaten[h] \/ g \in later[h]]
  /\ UNCHANGED <<blobs, used, later>>

\* What a flip that is applied does to the pointer, and what it supersedes.
MovePointer(g) ==
  /\ pointer = expect[g]
  /\ pointer' = ver[g]
  /\ before' = pointer
  /\ past' = past \cup ({pointer} \ {NoVersion})
  /\ beaten' = [h \in Gather |-> beaten[h] \/ g \in later[h]]
  /\ UNCHANGED <<blobs, used, later>>

\* set_current(expect=expect_pointer) succeeds.
Flip(g) ==
  /\ pc[g] = "confirmed"
  /\ MovePointer(g)
  /\ Goto(g, "flipped")
  /\ UNCHANGED <<lease, lost, local, elapsed>>

\* The pointer moved since it was read.
FlipRefused(g) ==
  /\ pc[g] = "confirmed"
  /\ pointer # expect[g]
  /\ Goto(g, "discarding")
  /\ UNCHANGED <<store, lease, lost, local, elapsed, history>>

\* set_current raises; the put may or may not have been applied.
FlipFails(g) ==
  /\ "error" \in Faults
  /\ pc[g] = "confirmed"
  /\ MovePointer(g) \/ UNCHANGED <<store, history>>
  /\ Goto(g, "unwinding")
  /\ UNCHANGED <<lease, lost, local, elapsed>>

\* The put is applied, its answer is lost, the client (retries: 5 attempts,
\* "standard") sends it again and that one is answered 412: set_current reports
\* a lost compare-and-swap.
FlipResent(g) ==
  /\ "resend" \in Faults
  /\ pc[g] = "confirmed"
  /\ MovePointer(g)
  /\ Goto(g, "discarding")
  /\ UNCHANGED <<lease, lost, local, elapsed>>

\* _discard_staged: best-effort removal of the refused publish's own prefix.
Discard(g) ==
  /\ pc[g] = "discarding"
  /\ \/ blobs' = [blobs EXCEPT ![ver[g]] = {}]
     \/ "error" \in Faults /\ blobs' = blobs
  /\ Goto(g, "unwinding")
  /\ UNCHANGED <<pointer, lease, lost, local, elapsed, history>>

\* Mutants of ListVersions: the current version is ranked by its id like the
\* others; one version too few is kept.
ListVersionsById(g) ==
  /\ pc[g] = "flipped"
  /\ todo' = [todo EXCEPT ![g] = Stored \ Newest(Stored, Retain)]
  /\ Goto(g, "reaping")
  /\ UNCHANGED <<store, lease, lost, ver, expect, sent, elapsed, history>>
ListVersionsOneShort(g) ==
  /\ pc[g] = "flipped"
  /\ LET others == Stored \ {ver[g]}
     IN  todo' = [todo EXCEPT ![g] = others \ Newest(others, Retain - 2)]
  /\ Goto(g, "reaping")
  /\ UNCHANGED <<store, lease, lost, ver, expect, sent, elapsed, history>>

\* _reap_versions lists the stored versions and keeps the one just flipped plus
\* the newest Retain - 1 of the others.
ListVersions(g) ==
  /\ pc[g] = "flipped"
  /\ LET others == Stored \ {ver[g]}
     IN  todo' = [todo EXCEPT ![g] = others \ Newest(others, Retain - 1)]
  /\ Goto(g, "reaping")
  /\ UNCHANGED <<store, lease, lost, ver, expect, sent, elapsed, history>>

\* ... and deletes the rest, oldest first, one prefix at a time.
ReapOne(g) ==
  /\ pc[g] = "reaping"
  /\ \E v \in todo[g] :
       /\ \A w \in todo[g] : v <= w
       /\ blobs' = [blobs EXCEPT ![v] = {}]
       /\ todo' = [todo EXCEPT ![g] = @ \ {v}]
  /\ UNCHANGED <<pointer, lease, pc, lost, ver, expect, sent, elapsed, history>>

\* The reap is done, or raised (which publish swallows): publish returns.
ReapEnds(g) ==
  /\ \/ pc[g] = "reaping" /\ todo[g] = {}
     \/ pc[g] \in {"flipped", "reaping"} /\ "error" \in Faults
  /\ todo' = [todo EXCEPT ![g] = {}]
  /\ Goto(g, "unwinding")
  /\ UNCHANGED <<store, lease, lost, ver, expect, sent, elapsed, history>>

-----------------------------------------------------------------------------
(* The world.                                                              *)

\* The process dies.  A restarted server has a new nonce, hence another owner.
Crash(g) ==
  /\ "crash" \in Faults
  /\ pc[g] \in Active
  /\ Goto(g, "dead")
  /\ Forget(g)
  /\ UNCHANGED <<store, lease, lost, elapsed, history>>

\* Time passes.  A gather between its confirm and the end of its reap takes at
\* most Stall; without "lapse", whoever holds the lease renews it in time.
Tick ==
  /\ \A g \in Gather : pc[g] \in Critical => elapsed[g] < Stall
  /\ \/ "lapse" \in Faults
     \/ lease.owner \in Gather /\ pc[lease.owner] \in Active => lease.left > Skew + 1
  /\ lease' = [lease EXCEPT !.left = IF @ > 0 THEN @ - 1 ELSE 0]
  /\ elapsed' = [g \in Gather |-> IF pc[g] \in Critical THEN elapsed[g] + 1 ELSE 0]
  /\ UNCHANGED <<store, pc, lost, local, history>>

Step(g) ==
  \/ GiveUp(g) \/ ReadPointer(g) \/ CheckHolder(g)
  \/ \E p \in Part : Upload(g, p)
  \/ StagingFails(g)
  \/ Confirm(g) \/ ConfirmRefused(g)
  \/ Flip(g) \/ FlipRefused(g) \/ FlipFails(g) \/ FlipResent(g)
  \/ Discard(g)
  \/ ListVersions(g) \/ ReapOne(g) \/ ReapEnds(g)
  \/ Release(g)

Next ==
  \/ \E g \in Gather : Acquire(g) \/ AcquireLost(g) \/ Renew(g) \/ LoseLease(g) \/ Step(g) \/ Crash(g)
  \/ Tick

Spec == Init /\ [][Next]_vars

\* A process that is alive keeps running, and time passes.  Nothing makes a
\* gather start, a heartbeat succeed or a fault happen.
FairSpec == Spec /\ WF_vars(Tick) /\ \A g \in Gather : WF_vars(Step(g))

-----------------------------------------------------------------------------
(* Properties.                                                             *)

\* Every variable stays within the values its comment gives.
TypeOK ==
  /\ pointer \in Version \cup {NoVersion}
  /\ blobs \in [Version -> SUBSET Part]
  /\ lease \in [owner : Gather \cup {NoGather}, left : 0..TTL, released : BOOLEAN]
  /\ pc \in [Gather -> Stage]
  /\ lost \in [Gather -> BOOLEAN]
  /\ ver \in [Gather -> Version \cup {NoVersion}]
  /\ expect \in [Gather -> Version \cup {NoVersion}]
  /\ sent \in [Gather -> SUBSET Part]
  /\ todo \in [Gather -> SUBSET Version]
  /\ elapsed \in [Gather -> 0..Stall]
  /\ used \in SUBSET Version
  /\ past \in SUBSET Version
  /\ before \in Version \cup {NoVersion}
  /\ later \in [Gather -> SUBSET Gather]
  /\ beaten \in [Gather -> BOOLEAN]

\* The version the pointer names has all its blobs: no flip to a partial upload,
\* no reap or discard of the version being served (docs/storage.md: "a reader
\* sees the previous version or the new one whole").
CurrentComplete == pointer # NoVersion => Complete(pointer)

\* At most one gather is between its confirmed lease and the end of its reap,
\* which is what "keeps the flip and reap under a live lease" is for (publish).
OnePublisher ==
  \A g, h \in Gather : pc[g] \in Critical /\ pc[h] \in Critical => g = h

\* The pointer is never moved by a gather that a later holder of the lease has
\* beaten to it: "a publisher that stalled past its lease cannot overwrite a
\* newer gather's version" (publish), however long it stalled.
NoZombieOverwrite ==
  [][\A g \in Gather : pointer' # pointer /\ pointer' = ver[g] => ~beaten[g]]_vars

\* The version that the last flip superseded is still stored, for a replica that
\* resolved it just before (_reap_versions, "keeping current + previous").
PreviousKept == Retain >= 2 /\ before # NoVersion => Complete(before)

\* While a gather reaps, no other one is staging a version of the corpus: what
\* _reap_versions' docstring takes for granted.
ReapAlone ==
  \A g, h \in Gather : pc[g] = "reaping" /\ pc[h] \in Staging => g = h

\* What a reader may look at: the parts of the versions that are or were current.
Kept == [v \in Version |-> IF v \in past \cup {pointer} THEN blobs[v] ELSE {}]

Atomic == INSTANCE AtomicPublish WITH current <- pointer, kept <- Kept

\* The pointer protocol implements the atomic publish: a version is whole when it
\* becomes current and as long as it is, and a superseded one never comes back.
ImplementsAtomicPublish == Atomic!Spec

\* A lease whose holder died is there to be taken again: the corpus is never
\* blocked for good by a gatherer that crashed (docs/storage.md, "A gatherer
\* died").
DeadHolderYields ==
  \A g, h \in Gather :
    (pc[g] = "dead" /\ pc[h] = "idle")
      ~> (ENABLED Acquire(h) \/ pc[h] # "idle" \/ lease.owner # g)

\* A gather that starts to publish comes to an end, and is then no longer in
\* anybody's way: neither a refusal nor the reap keeps it going for ever.
PublishEnds ==
  \A g \in Gather : pc[g] \in Active ~> pc[g] \in {"idle", "dead"}
=============================================================================
