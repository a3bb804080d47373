---------------------------- MODULE FleetRecords ----------------------------
(***************************************************************************)
(* The two records that all gathers of the fleet write, each with          *)
(* compare-and-swap: the gather slots, which cap how many gathers run, and *)
(* the identity maps, which every gather copies to its host, adds to and   *)
(* merges back.  A gather waits for a slot, hydrates the host's map file,  *)
(* adds what it looked up, persists, and gives the slot back, while its    *)
(* heartbeat renews the slot.                                              *)
(*                                                                         *)
(* Sources: ietf_llm/store/control.py (the slots), gather/lifecycle.py and *)
(* gather/runner.py (who takes, renews and releases them), and             *)
(* gather/sources/cache_sync.py and identity_cache.py (the maps).          *)
(*                                                                         *)
(* A conditional put wins when the record's bytes are those that were read *)
(* (the token is their hash).  An expiry is kept as the ticks that are     *)
(* left, in the record and in every copy somebody has read.                *)
(***************************************************************************)
EXTENDS Integers, FiniteSets

CONSTANTS
  Gather,    \* gathers, each of a corpus of its own
  Host,      \* the hosts they run on
  Cap,       \* gather_max_inflight
  TTL,       \* LEASE_TTL of a slot, in ticks
  Interval,  \* bound: ticks between two heartbeats (LEASE_HEARTBEAT_S)
  Delay,     \* bound: ticks that an update of the slots takes
  Tries,     \* _CAS_RETRIES
  Key,       \* logins and people
  MaxStamp,  \* bound: fetched_at
  Faults     \* a subset of {"crash", "error", "lapse"}

ASSUME ConstantsAssumption ==
  /\ IsFiniteSet(Gather)
  /\ Cap \in Nat \ {0} /\ TTL \in Nat \ {0}
  /\ Interval \in Nat \ {0} /\ Delay \in Nat
  /\ Tries \in Nat \ {0} /\ MaxStamp \in Nat \ {0}
  /\ Faults \subseteq {"crash", "error", "lapse"}

Absent == -1
Slots  == [Gather -> Absent..TTL]   \* ticks until each entry expires
Map    == [Key -> 0..MaxStamp]      \* fetched_at of each entry, 0: none
NoSlots == [g \in Gather |-> Absent]
NoMap   == [k \in Key |-> 0]

VARIABLES
  slots,   \* the slots record
  store,   \* an identity map in the store
  file,    \* its copy on each host
  home,    \* the host of each gather
  gather,  \* the gathers' own state, below
  beat     \* their heartbeats

records == <<slots, store, file>>
vars    == <<records, home, gather, beat>>

\* A gather counts as running from its admission until it begins to release.
Running == {"hydrating", "gathering", "saving", "persisting", "merging"}
Ended   == {"done", "dead"}
Stage   == {"queued", "admitting", "releasing", "freeing"} \cup Running \cup Ended

\* snap: the slots as read; age: ticks since then; map: a map read from the file
\* or to be written; seen: the stored map as read; added: what it looked up, until
\* that is in the store or given up; failed: it was given up, since the gather, or a
\* request of its merge, failed.
GatherState == [pc : Stage, snap : Slots, age : 0..Delay, map : Map, seen : Map,
                added : Map, failed : BOOLEAN, tries : 1..Tries]
BeatState   == [busy : BOOLEAN, snap : Slots, age : 0..Delay, tries : 1..Tries, due : 0..Interval]

Queued == [pc |-> "queued", snap |-> NoSlots, age |-> 0, map |-> NoMap, seen |-> NoMap,
           added |-> NoMap, failed |-> FALSE, tries |-> Tries]
Finished == [Queued EXCEPT !.pc = "done"]
Idle   == [busy |-> FALSE, snap |-> NoSlots, age |-> 0, tries |-> Tries, due |-> 0]

At(g, stage) == gather[g].pc = stage
Entries(s)   == {g \in Gather : s[g] # Absent}
LiveIn(s)    == {g \in Gather : s[g] > 0}

Init ==
  /\ slots = NoSlots /\ store = NoMap
  /\ home \in [Gather -> Host] /\ \A h \in Host : \E g \in Gather : home[g] = h
  /\ file = [h \in Host |-> NoMap]
  /\ gather = [g \in Gather |-> Queued]
  /\ beat = [g \in Gather |-> Idle]

-----------------------------------------------------------------------------
(* The slots.                                                              *)

\* Mutant of Wins: an update is put whatever has been put meanwhile.
WinsAnyway(current, read) == TRUE

\* The conditional put.
Wins(current, read) == current = read

\* Is there a slot for g?  Expired entries do not count, nor does its own.
Free(s, g) == s[g] > 0 \/ Cardinality(LiveIn(s)) < Cap

\* What is left of a slot whose time runs from when its update was begun.
Left(age) == IF age < TTL THEN TTL - age ELSE 0

\* acquire_gather_slot: the record is read; when it is full the gather polls on.
Ask(g) ==
  /\ At(g, "queued") /\ Free(slots, g)
  /\ gather' = [gather EXCEPT ![g] = [@ EXCEPT !.pc = "admitting", !.snap = slots, !.age = 0]]
  /\ UNCHANGED <<records, home, beat>>

\* The entries that have not expired are put back with the gather's own, whose
\* time runs from when it asked.  A lost race is one more poll.
Admit(g) ==
  LET s == gather[g].snap IN
  /\ At(g, "admitting")
  /\ IF Wins(slots, s)
     THEN /\ slots' = [o \in Gather |-> IF o = g THEN Left(gather[g].age)
                                        ELSE IF s[o] > 0 THEN s[o] ELSE Absent]
          /\ gather' = [gather EXCEPT ![g] = [Queued EXCEPT !.pc = "hydrating"]]
          /\ beat' = [beat EXCEPT ![g].due = 0]
     ELSE /\ gather' = [gather EXCEPT ![g] = Queued]
          /\ UNCHANGED <<slots, beat>>
  /\ UNCHANGED <<store, file, home>>

\* renew_gather_slot: the heartbeat reads the record, and gives up when its entry
\* is not in it (lifecycle.renew_slot ignores that).
Beat(g) ==
  /\ gather[g].pc \in Running /\ ~beat[g].busy /\ beat[g].due = Interval
  /\ beat' = [beat EXCEPT ![g] = IF slots[g] = Absent THEN Idle
                                 ELSE [Idle EXCEPT !.busy = TRUE, !.snap = slots]]
  /\ UNCHANGED <<records, home, gather>>

\* An entry that is still in the record is renewed, expired or not.
Renew(g) ==
  LET s == beat[g].snap IN
  /\ beat[g].busy
  /\ IF Wins(slots, s)
     THEN /\ slots' = [s EXCEPT ![g] = Left(beat[g].age)]
          /\ beat' = [beat EXCEPT ![g] = [Idle EXCEPT !.due = beat[g].due]]
     ELSE /\ beat' = [beat EXCEPT ![g] =
                        IF @.tries = 1 \/ slots[g] = Absent THEN [Idle EXCEPT !.due = beat[g].due]
                        ELSE [@ EXCEPT !.snap = slots, !.tries = beat[g].tries - 1]]
          /\ UNCHANGED slots
  /\ UNCHANGED <<store, file, home, gather>>

\* release_gather_slot, however the gather ended.
Release(g) ==
  /\ At(g, "releasing")
  /\ gather' = [gather EXCEPT ![g] =
       IF slots[g] = Absent THEN Finished
       ELSE [@ EXCEPT !.pc = "freeing", !.snap = slots]]
  /\ UNCHANGED <<records, home, beat>>

\* After the last lost race the entry is left to expire.
Drop(g) ==
  LET s == gather[g].snap IN
  /\ At(g, "freeing")
  /\ IF Wins(slots, s)
     THEN /\ slots' = [s EXCEPT ![g] = Absent]
          /\ gather' = [gather EXCEPT ![g] = Finished]
     ELSE /\ gather' = [gather EXCEPT ![g] =
                          IF @.tries = 1 THEN Finished
                          ELSE [@ EXCEPT !.pc = "releasing", !.snap = NoSlots, !.tries = gather[g].tries - 1]]
          /\ UNCHANGED slots
  /\ UNCHANGED <<store, file, home, beat>>
-----------------------------------------------------------------------------
(* The identity maps.                                                      *)

Max2(m, n) == IF m > n THEN m ELSE n

\* Mutant of Merge: the local entries replace the stored ones.
MergeLocalWins(remote, local) == [k \in Key |-> IF local[k] > 0 THEN local[k] ELSE remote[k]]

\* union_newer_by_stamp: the entry that was fetched last.
Merge(remote, local) == [k \in Key |-> Max2(remote[k], local[k])]

\* hydrate: the stored map, if there is one, replaces the file on this host, under
\* no lock.  "any error leaves the local file untouched".
Hydrate(g) ==
  /\ At(g, "hydrating")
  /\ \/ file' = IF store = NoMap THEN file ELSE [file EXCEPT ![home[g]] = store]
     \/ "error" \in Faults /\ file' = file
  /\ gather' = [gather EXCEPT ![g].pc = "gathering"]
  /\ UNCHANGED <<slots, store, home, beat>>

\* merge_save: the file is read again with what was looked up, after the entry
\* that the file has, if any, was fetched ...
LookUp(g, k) ==
  LET stamp == file[home[g]][k] + 1 IN
  /\ At(g, "gathering")
  /\ gather[g].added[k] = 0 /\ stamp <= MaxStamp
  /\ gather' = [gather EXCEPT ![g] =
       [@ EXCEPT !.pc = "saving", !.added = [gather[g].added EXCEPT ![k] = stamp],
                 !.map = Merge(file[home[g]], [NoMap EXCEPT ![k] = stamp])]]
  /\ UNCHANGED <<records, home, beat>>

\* ... and written.  The lock around the two is one of threads, and gathers of a
\* runner are processes (pipeline.run_pipeline).
Save(g) ==
  /\ At(g, "saving")
  /\ file' = [file EXCEPT ![home[g]] = gather[g].map]
  /\ gather' = [gather EXCEPT ![g] = [@ EXCEPT !.pc = "gathering", !.map = NoMap]]
  /\ UNCHANGED <<slots, store, home, beat>>

\* persist: the file is read once, for every try to merge it.
Persist(g) ==
  /\ At(g, "gathering")
  /\ gather' = [gather EXCEPT ![g] = [@ EXCEPT !.pc = "persisting", !.map = file[home[g]]]]
  /\ UNCHANGED <<records, home, beat>>

\* _cas_merge is over, and the gather goes on to give its slot back.
Merged(g) ==
  gather' = [gather EXCEPT ![g] = [Queued EXCEPT !.pc = "releasing", !.added = gather[g].added]]

\* What the gather looked up does not reach the store; its slot is given back.
GiveUp(g) == gather' = [gather EXCEPT ![g] = [Queued EXCEPT !.pc = "releasing", !.failed = TRUE]]

\* _cas_merge: the stored map is read ...
MergeRead(g) ==
  /\ At(g, "persisting")
  /\ gather' = [gather EXCEPT ![g] = [@ EXCEPT !.pc = "merging", !.seen = store]]
  /\ UNCHANGED <<records, home, beat>>

\* ... and the merged one put.  After the last lost race it is dropped silently.
MergePut(g) ==
  LET seen == gather[g].seen IN
  /\ At(g, "merging")
  /\ \/ Wins(store, seen) /\ store' = Merge(seen, gather[g].map) /\ Merged(g)
     \/ /\ ~Wins(store, seen) /\ store' = store
        /\ IF gather[g].tries = 1 THEN Merged(g)
           ELSE gather' = [gather EXCEPT ![g] =
                  [@ EXCEPT !.pc = "persisting", !.seen = NoMap, !.tries = gather[g].tries - 1]]
  /\ UNCHANGED <<slots, file, home, beat>>

\* The read or the put raises, whether the put was applied or not: "except Exception:
\* pass" ends the merge, and the gather goes on without being told.
MergeFails(g) ==
  /\ "error" \in Faults
  /\ gather[g].pc \in {"persisting", "merging"}
  /\ \/ store' = store
     \/ /\ At(g, "merging") /\ Wins(store, gather[g].seen)
        /\ store' = Merge(gather[g].seen, gather[g].map)
  /\ GiveUp(g)
  /\ UNCHANGED <<slots, file, home, beat>>

-----------------------------------------------------------------------------
(* Failures, and time.                                                     *)

\* A stage fails or the gather is stopped: nothing is persisted.
Fail(g) ==
  /\ "error" \in Faults /\ gather[g].pc \in {"hydrating", "gathering"}
  /\ GiveUp(g)
  /\ UNCHANGED <<records, home, beat>>

\* The process of a running gather dies, its slot not given back.
Crash(g) ==
  /\ "crash" \in Faults /\ gather[g].pc \in Running
  /\ gather' = [gather EXCEPT ![g] = [Queued EXCEPT !.pc = "dead"]]
  /\ beat' = [beat EXCEPT ![g] = Idle]
  /\ UNCHANGED <<records, home>>

Later(s) == [g \in Gather |-> IF s[g] > 0 THEN s[g] - 1 ELSE s[g]]

\* Heartbeats come every Interval, unless they lapse; updates take Delay at most.
Tick ==
  /\ \A g \in Gather :
       /\ gather[g].pc \in {"admitting", "freeing"} => gather[g].age < Delay
       /\ beat[g].busy => beat[g].age < Delay
       /\ gather[g].pc \in Running => beat[g].due < Interval \/ "lapse" \in Faults
  /\ slots' = Later(slots)
  /\ gather' = [g \in Gather |->
       IF gather[g].pc \in {"admitting", "freeing"}
       THEN [gather[g] EXCEPT !.snap = Later(@), !.age = @ + 1] ELSE gather[g]]
  /\ beat' = [g \in Gather |->
       [beat[g] EXCEPT !.snap = Later(@), !.age = IF beat[g].busy THEN @ + 1 ELSE @,
                       !.due = IF gather[g].pc \notin Running THEN 0
                               ELSE IF @ < Interval THEN @ + 1 ELSE @]]
  /\ UNCHANGED <<store, file, home>>

Slot(g) == Ask(g) \/ Admit(g) \/ Release(g) \/ Drop(g)
Maps(g) ==
  \/ Hydrate(g) \/ Save(g) \/ Persist(g) \/ MergeRead(g) \/ MergePut(g) \/ MergeFails(g)
  \/ \E k \in Key : LookUp(g, k)
Heart(g) == Beat(g) \/ Renew(g)

Next ==
  \/ \E g \in Gather : Slot(g) \/ Maps(g) \/ Heart(g) \/ Fail(g) \/ Crash(g)
  \/ Tick

Spec == Init /\ [][Next]_vars

-----------------------------------------------------------------------------
(* Properties.                                                             *)

\* Every variable stays within the values its comment gives.
TypeOK ==
  /\ slots \in Slots /\ store \in Map
  /\ file \in [Host -> Map] /\ home \in [Gather -> Host]
  /\ gather \in [Gather -> GatherState]
  /\ beat \in [Gather -> BeatState]

RunningNow == {g \in Gather : gather[g].pc \in Running}

\* The record never holds more than Cap slots: no admission, and no renewal of a slot
\* that has expired, is put next to an admission that it has not seen.
SlotsWithinCap == Cardinality(Entries(slots)) <= Cap

\* The record is a table of slots as GatherSlots promises it: whatever put follows on
\* whatever read, a gather is admitted within the cap and over expired entries only,
\* and no other step adds an entry or takes more than one away.
Table == INSTANCE GatherSlots
  WITH Holder <- Gather, taken <- Entries(slots), live <- LiveIn(slots)
ImplementsSlots == Table!Spec

\* As long as heartbeats come in time and none loses every race for its renewal, no
\* more than Cap gathers run in the fleet, however their updates of the one record
\* interleave and whoever crashes.
RunningWithinCap == Cardinality(RunningNow) <= Cap

\* The records are of their types, and the slots bound the gathers.
FleetInv == TypeOK /\ SlotsWithinCap /\ RunningWithinCap

\* A gather that is over does not come back into the record: a renewal that was
\* under way when the slot was given back does not revive it.
ReleasedStaysReleased ==
  [][\A g \in Gather : At(g, "done") /\ slots[g] = Absent => slots'[g] = Absent]_vars

\* No entry of a stored map is lost or replaced by an older one (_cas_merge:
\* "Lossless ... rather than clobbering a concurrent gather's delta").
StoreKeepsNewest == [][\A k \in Key : store'[k] >= store[k]]_vars

\* An update of a shared record undoes no other's: neither a release nor an entry.
NoUpdateLost == ReleasedStaysReleased /\ StoreKeepsNewest

Shares(g) == \E o \in Gather \ {g} : home[o] = home[g]
Persisted(g) == \A k \in Key : store[k] >= gather[g].added[k]

\* What a gather looked up is in the store once it has persisted, if no other
\* gather of its host ran and no request of its merge failed (one that fails drops
\* the additions silently, as far as this gather goes: they stay in the host's file).
AdditionsPersisted ==
  \A g \in Gather :
    gather[g].pc \in {"releasing", "freeing"} /\ ~Shares(g) /\ ~gather[g].failed => Persisted(g)

\* The same with others on the host ("keeps the runner's concurrent same-process
\* gathers from clobbering each other's local additions before they reach the
\* store", identity_cache.py).
LocalAdditionsPersisted ==
  \A g \in Gather :
    gather[g].pc \in {"releasing", "freeing"} /\ ~gather[g].failed => Persisted(g)
=============================================================================
