------------------------------ MODULE PartsProofs ------------------------------
(***************************************************************************)
(* Proofs about the parts that MCParts and MCGather run and that           *)
(* share nothing, one after the other: for any number of lookups,          *)
(* children, gathers, probes, messages and mail, and any lifetimes, caps   *)
(* and faults,                                                             *)
(*   LiveCache     what a live lookup answers is as old as it says, the    *)
(*                 host's slots come back, and a filed answer stays;       *)
(*   GatherChild,  a 304 is answered with the body it stands for, and a    *)
(*   HttpStore     child's end is told and filed in order;                 *)
(*   DraftSources  a draft that is named, authored or mentioned is not     *)
(*                 pruned;                                                 *)
(*   MailThreads   a message is in one thread, with what it answers, and   *)
(*                 with what shares its subject only in time;              *)
(*   ProbeSweep    what a probe answers is a sweep's result that is young  *)
(*                 enough, and one sweep runs at a time;                   *)
(*   StdioWriter   the messages reach the client in order, and an orderly  *)
(*                 end loses at most one.                                  *)
(* Each has an inductive invariant, with the part's name before IInv.      *)
(***************************************************************************)
EXTENDS LiveCache, GatherChild, DraftSources, MailThreads, ProbeSweep, StdioWriter,
        FiniteSetTheorems, SequenceTheorems, TLAPS

(***************************************************************************)
(* LiveCache: live lookups.                                                *)
(***************************************************************************)

\* A cached answer carries its age: the mark and the stamp are at most one request
\* younger than the body.
Dated(entry) ==
  Exists(entry) => /\ entry.mark - entry.read <= FetchTime /\ entry.at - entry.read <= FetchTime
                   /\ entry.mark <= now

\* A lookup that has an answer of its own in hand uses it in time.
LookupHolds(l) ==
  /\ lookup[l].broken = {}
  /\ lookup[l].pc # "idle" =>
       /\ lookup[l].proc \in Process /\ lookup[l].url \in LiveUrl
       /\ lookup[l].had => Exists(Held(l))
  /\ LookupAt(l, "promote") => Dated(lookup[l].got) /\ Current(lookup[l].got)
  /\ LookupAt(l, "asked") /\ lookup[l].gone => lookup[l].told
  /\ lookup[l].pc \in {"asked", "remember", "lock", "write"} => now - lookup[l].got.read <= FetchTime
  /\ lookup[l].pc \in {"remember", "lock", "write"} => lookup[l].got.at - lookup[l].got.read <= FetchTime
  /\ LookupAt(l, "write") => lock = l /\ lookup[l].loaded = disk

CachesHold ==
  /\ \A p \in Process, u \in LiveUrl : Dated(memory[p][u])
  /\ \A u \in LiveUrl : Dated(disk[u])

\* The lookups of a process that hold a slot.
Asked(p) == {l \in Lookup : LookupAt(l, "asked") /\ lookup[l].proc = p}
SlotsExact == \A p \in Process : IsFiniteSet(Asked(p)) /\ inflight[p] = Cardinality(Asked(p))

LiveIInv == LiveTypeOK /\ CachesHold /\ SlotsExact /\ \A l \in Lookup : LookupHolds(l)

LEMMA LiveConstants ==
  /\ LiveTTL \in Nat /\ FetchTime \in Nat /\ Slots \in Nat /\ Slots > 0 /\ MaxNow \in Nat /\ MaxLookups \in Nat
  /\ Nobody \notin Lookup /\ Nobody \notin Process /\ Nobody \notin LiveUrl
  BY LiveAssumption

LEMMA NoCopyIs == /\ NoCopy \in Entry /\ ~Exists(NoCopy) /\ NoCopy.at = 0 /\ NoCopy.read = 0
                  /\ Dated(NoCopy) /\ NoCopies \in Copies /\ \A u \in LiveUrl : NoCopies[u] = NoCopy
<1>1. NoCopy \in Entry
  BY LiveConstants DEF NoCopy, Entry, Instant
<1>2. ~Exists(NoCopy) /\ NoCopy.at = 0 /\ NoCopy.read = 0
  BY DEF NoCopy, Exists
<1>3. NoCopies \in Copies /\ \A u \in LiveUrl : NoCopies[u] = NoCopy
  BY <1>1 DEF NoCopies, Copies
<1> QED BY <1>1, <1>2, <1>3 DEF Dated

LEMMA IdleIs ==
  /\ IdleLookup \in LookupFrame /\ IdleLookup.pc = "idle" /\ IdleLookup.broken = {}
<1>1. IdleLookup \in LookupFrame
  BY NoCopyIs DEF IdleLookup, LookupFrame, LookupStage, Promise
<1> QED BY <1>1 DEF IdleLookup

\* An answer that keeps all its promises leaves an idle lookup.
LEMMA ReturnIs ==
  ASSUME NEW l \in Lookup, NEW how \in {"fresh", "stale", "absent", "unavailable"}, NEW entry,
         entry.at - entry.read <= FetchTime,
         how = "fresh" => now - entry.read < LiveTTL + FetchTime \/ now - entry.read <= FetchTime,
         how = "absent" => lookup[l].told,
         how = "unavailable" => ~lookup[l].had,
         Return(l, how, entry), lookup \in [Lookup -> LookupFrame]
  PROVE  /\ lookup' \in [Lookup -> LookupFrame]
         /\ lookup'[l].pc = "idle" /\ lookup'[l].broken = {}
         /\ \A k \in Lookup \ {l} : lookup'[k] = lookup[k]
<1> DEFINE broken == {promise \in Promise : ~Kept(promise, l, how, entry)}
<1>1. broken = {}
  BY DEF Promise, Kept
<1>2. lookup' = [lookup EXCEPT ![l] = [IdleLookup EXCEPT !.broken = broken]]
  BY DEF Return
<1> HIDE DEF broken
<1> PICK q : q = [IdleLookup EXCEPT !.broken = broken]
  OBVIOUS
<1>3. q \in LookupFrame /\ q.pc = "idle" /\ q.broken = {}
  BY <1>1, IdleIs DEF LookupFrame
<1> QED BY <1>2, <1>3

LEMMA CurrentIs ==
  ASSUME NEW entry \in Entry, now \in Nat, Dated(entry), Current(entry)
  PROVE  now - entry.read < LiveTTL + FetchTime /\ entry.at - entry.read <= FetchTime /\ Exists(entry)
BY LiveConstants DEF Dated, Current, Entry, Instant

\* What one lookup's step has to show: of itself; the others keep what they have, as
\* memory and disk keep what exists, and the file is written under the lock.
LEMMA LookupStep ==
  ASSUME LiveIInv, NEW l \in Lookup, now' = now, lookup' \in [Lookup -> LookupFrame],
         \A k \in Lookup \ {l} : lookup'[k] = lookup[k],
         LookupHolds(l)', CachesHold', begun' \in 0..MaxLookups,
         memory' \in [Process -> Copies], disk' \in Copies, lock' \in Lookup \cup {Nobody},
         \A p \in Process, u \in LiveUrl : Exists(memory[p][u]) => Exists(memory'[p][u]),
         lock = lock' \/ lock = Nobody \/ lock = l,
         disk' = disk \/ lock = l,
         inflight' \in [Process -> 0..Slots], SlotsExact'
  PROVE  LiveIInv'
<1>1. LiveTypeOK'
  BY DEF LiveIInv, LiveTypeOK
<1>2. ASSUME NEW k \in Lookup \ {l}
      PROVE  LookupHolds(k)'
  <2>1. lookup'[k] = lookup[k] /\ LookupHolds(k)
    BY DEF LiveIInv
  <2>2. LookupAt(k, "write") => lock' = lock /\ disk' = disk
    BY <2>1, LiveConstants DEF LookupHolds
  <2>3. lookup[k].pc # "idle" /\ lookup[k].had => Exists(Held(k))'
    BY <2>1 DEF LookupHolds, Held
  <2> QED BY <2>1, <2>2, <2>3 DEF LookupHolds, LookupAt, Dated, Current
<1> QED BY <1>1, <1>2 DEF LiveIInv

\* No step but these moves a lookup into or out of a request.
LEMMA SlotsSame ==
  ASSUME SlotsExact, NEW l \in Lookup, \A k \in Lookup \ {l} : lookup'[k] = lookup[k],
         ~LookupAt(l, "asked"), ~LookupAt(l, "asked")', inflight' = inflight
  PROVE  SlotsExact'
<1>1. \A p \in Process : Asked(p)' = Asked(p)
  BY DEF Asked, LookupAt
<1> QED BY <1>1 DEF SlotsExact

LEMMA SlotTaken ==
  ASSUME LiveIInv, NEW l \in Lookup, NEW p \in Process, ~LookupAt(l, "asked"),
         \A k \in Lookup \ {l} : lookup'[k] = lookup[k],
         LookupAt(l, "asked")', lookup'[l].proc = p,
         inflight' = [inflight EXCEPT ![p] = @ + 1]
  PROVE  SlotsExact'
<1>1. \A r \in Process : IsFiniteSet(Asked(r)) /\ inflight[r] = Cardinality(Asked(r)) /\ inflight[r] \in Nat
  BY LiveConstants DEF LiveIInv, SlotsExact, LiveTypeOK
<1>2. Asked(p)' = Asked(p) \cup {l} /\ l \notin Asked(p)
  BY DEF Asked, LookupAt
<1>3. \A r \in Process \ {p} : Asked(r)' = Asked(r)
  BY DEF Asked, LookupAt
<1>4. IsFiniteSet(Asked(p)') /\ Cardinality(Asked(p)') = inflight[p] + 1
  BY <1>1, <1>2, FS_AddElement
<1>5. inflight \in [Process -> 0..Slots]
  BY DEF LiveIInv, LiveTypeOK
<1> QED BY <1>1, <1>3, <1>4, <1>5 DEF SlotsExact

LEMMA SlotFreed ==
  ASSUME LiveIInv, NEW l \in Lookup, LookupAt(l, "asked"), FreeSlot(l),
         \A k \in Lookup \ {l} : lookup'[k] = lookup[k], ~LookupAt(l, "asked")'
  PROVE  SlotsExact' /\ inflight' \in [Process -> 0..Slots]
<1> DEFINE p == lookup[l].proc
<1>0. p \in Process /\ inflight \in [Process -> 0..Slots]
  BY DEF LiveIInv, LiveTypeOK, LookupHolds, LookupAt
<1>1. \A r \in Process : IsFiniteSet(Asked(r)) /\ inflight[r] = Cardinality(Asked(r)) /\ inflight[r] \in Nat
  BY LiveConstants DEF LiveIInv, SlotsExact, LiveTypeOK
<1>2. Asked(p) = {k \in Lookup : LookupAt(k, "asked") /\ lookup[k].proc = p} /\ l \in Asked(p)
  BY DEF Asked
<1> PICK q : q = p
  OBVIOUS
<1>3. Asked(q)' = Asked(q) \ {l} /\ l \in Asked(q)
  BY <1>2 DEF Asked, LookupAt
<1>4. \A r \in Process \ {q} : Asked(r)' = Asked(r)
  BY DEF Asked, LookupAt
<1>5. /\ IsFiniteSet(Asked(q)') /\ Cardinality(Asked(q)') = inflight[q] - 1
      /\ Cardinality(Asked(q)') \in Nat
  BY <1>0, <1>1, <1>3, FS_RemoveElement, FS_CardinalityType
<1>6. inflight' = [inflight EXCEPT ![q] = @ - 1]
  BY DEF FreeSlot
<1> HIDE DEF p
<1>7. inflight[q] - 1 \in 0..Slots
  BY <1>0, <1>5, LiveConstants DEF p
<1> QED BY <1>0, <1>1, <1>4, <1>5, <1>6, <1>7 DEF SlotsExact, p

LEMMA CachesSame ==
  ASSUME CachesHold, memory' = memory, disk' = disk, now' = now
  PROVE  CachesHold'
BY DEF CachesHold, Dated, Exists

\* An answer that touches neither cache ends the lookup.
LEMMA AnswerStep ==
  ASSUME LiveIInv, NEW l \in Lookup, NEW how \in {"fresh", "stale", "absent", "unavailable"}, NEW entry,
         entry.at - entry.read <= FetchTime,
         how = "fresh" => now - entry.read < LiveTTL + FetchTime \/ now - entry.read <= FetchTime,
         how = "absent" => lookup[l].told,
         how = "unavailable" => ~lookup[l].had,
         Return(l, how, entry), begun' \in 0..MaxLookups,
         now' = now, memory' = memory, disk' = disk, lock' = lock,
         \/ inflight' = inflight /\ ~LookupAt(l, "asked")
         \/ FreeSlot(l) /\ LookupAt(l, "asked")
  PROVE  LiveIInv'
<1>0. LiveTypeOK /\ CachesHold /\ SlotsExact
  BY DEF LiveIInv
<1>1. /\ lookup' \in [Lookup -> LookupFrame]
      /\ lookup'[l].pc = "idle" /\ lookup'[l].broken = {}
      /\ \A k \in Lookup \ {l} : lookup'[k] = lookup[k]
  BY <1>0, ReturnIs DEF LiveTypeOK
<1>2. LookupHolds(l)'
  BY <1>1 DEF LookupHolds, LookupAt
<1>3. CachesHold'
  BY <1>0, CachesSame
<1>4. ~LookupAt(l, "asked")'
  BY <1>1 DEF LookupAt
<1>5. SlotsExact' /\ inflight' \in [Process -> 0..Slots]
  <2>1. CASE inflight' = inflight /\ ~LookupAt(l, "asked")
    BY <1>0, <1>1, <1>4, <2>1, SlotsSame DEF LiveTypeOK
  <2>2. CASE FreeSlot(l) /\ LookupAt(l, "asked")
    BY <1>1, <1>4, <2>2, SlotFreed
  <2> QED BY <2>1, <2>2
<1>6. /\ memory' \in [Process -> Copies] /\ disk' \in Copies /\ lock' \in Lookup \cup {Nobody}
      /\ lock' = lock /\ disk' = disk /\ memory' = memory /\ now' = now
  BY <1>0 DEF LiveTypeOK
<1> QED BY <1>1, <1>2, <1>3, <1>5, <1>6, LookupStep

\* A step that only moves the lookup on.
LEMMA MoveStep ==
  ASSUME LiveIInv, NEW l \in Lookup, lookup' \in [Lookup -> LookupFrame],
         \A k \in Lookup \ {l} : lookup'[k] = lookup[k], LookupHolds(l)',
         begun' \in 0..MaxLookups, UNCHANGED <<now, memory, disk, inflight>>,
         lock' \in Lookup \cup {Nobody}, lock = lock' \/ lock = Nobody,
         ~LookupAt(l, "asked"), ~LookupAt(l, "asked")'
  PROVE  LiveIInv'
<1>1. LiveTypeOK /\ CachesHold /\ SlotsExact
  BY DEF LiveIInv
<1>2. CachesHold' /\ SlotsExact'
  BY <1>1, CachesSame, SlotsSame
<1>3. /\ memory' \in [Process -> Copies] /\ disk' \in Copies /\ inflight' \in [Process -> 0..Slots]
      /\ disk' = disk /\ memory' = memory /\ now' = now
  BY <1>1 DEF LiveTypeOK
<1> QED BY <1>2, <1>3, LookupStep

-----------------------------------------------------------------------------

LEMMA LookInMemoryHolds ==
  ASSUME LiveIInv, NEW l \in Lookup, NEW p \in Process, NEW u \in LiveUrl, LookInMemory(l, p, u)
  PROVE  LiveIInv'
<1>0. LiveTypeOK /\ CachesHold /\ LookupHolds(l)
  BY DEF LiveIInv
<1>1. /\ begun' \in 0..MaxLookups /\ UNCHANGED <<now, memory, disk, lock, inflight>> /\ ~LookupAt(l, "asked")
      /\ memory[p][u] \in Entry /\ Dated(memory[p][u]) /\ now \in Nat
      /\ lookup \in [Lookup -> LookupFrame]
  BY <1>0, LiveConstants DEF LookInMemory, LookupAt, LiveTypeOK, CachesHold, Copies, Instant
<1>2. CASE Current(memory[p][u])
  <2>1. Return(l, "fresh", memory[p][u])
    BY <1>2 DEF LookInMemory, Consult
  <2>2. /\ memory[p][u].at - memory[p][u].read <= FetchTime
        /\ now - memory[p][u].read < LiveTTL + FetchTime
    BY <1>1, <1>2, CurrentIs
  <2>3. /\ now' = now /\ memory' = memory /\ disk' = disk /\ lock' = lock /\ inflight' = inflight
    BY <1>1
  <2> QED BY <1>1, <2>1, <2>2, <2>3, AnswerStep
<1>3. CASE ~Current(memory[p][u])
  <2> DEFINE q == [IdleLookup EXCEPT !.pc = "disk", !.proc = p, !.url = u, !.had = Exists(memory[p][u])]
  <2>1. lookup' = [lookup EXCEPT ![l] = q]
    BY <1>3 DEF LookInMemory, Consult
  <2>2. Exists(memory[p][u]) \in BOOLEAN
    BY Zenon DEF Exists
  <2>3. q \in LookupFrame
    BY <2>2, IdleIs DEF LookupFrame, LookupStage
  <2>4. /\ q.pc = "disk" /\ q.proc = p /\ q.url = u /\ q.broken = {}
        /\ q.had => Exists(memory[p][u])
    BY IdleIs DEF LookupFrame
  <2> HIDE DEF q
  <2>5. /\ lookup' \in [Lookup -> LookupFrame] /\ \A k \in Lookup \ {l} : lookup'[k] = lookup[k]
        /\ lookup'[l].pc = "disk" /\ lookup'[l].proc = p /\ lookup'[l].url = u
        /\ lookup'[l].broken = {} /\ (lookup'[l].had => Exists(memory[p][u]))
    BY <1>1, <2>1, <2>3, <2>4
  <2>6. LookupHolds(l)' /\ ~LookupAt(l, "asked")'
    BY <1>1, <2>5 DEF LookupHolds, LookupAt, Held, Exists
  <2>7. lock' \in Lookup \cup {Nobody} /\ lock' = lock
    BY <1>0, <1>1 DEF LiveTypeOK
  <2> QED BY <1>1, <2>5, <2>6, <2>7, MoveStep
<1> QED BY <1>2, <1>3

LEMMA LookOnDiskHolds ==
  ASSUME LiveIInv, NEW l \in Lookup, LookOnDisk(l)
  PROVE  LiveIInv'
<1>0. LiveTypeOK /\ CachesHold /\ LookupHolds(l)
  BY DEF LiveIInv
<1>1. /\ begun' \in 0..MaxLookups /\ UNCHANGED <<now, memory, disk, lock, inflight>>
      /\ lookup[l].pc = "disk" /\ ~LookupAt(l, "asked")
      /\ Filed(l) \in Entry /\ Dated(Filed(l)) /\ lookup[l] \in LookupFrame
      /\ lookup \in [Lookup -> LookupFrame] /\ lock' \in Lookup \cup {Nobody} /\ lock' = lock
  BY <1>0 DEF LookOnDisk, LookupAt, LiveTypeOK, CachesHold, LookupHolds, Filed, Copies
<1>2. CASE Current(Filed(l)) /\ lookup' = [lookup EXCEPT ![l].pc = "promote", ![l].got = Filed(l)]
  <2>1. /\ lookup' \in [Lookup -> LookupFrame] /\ \A k \in Lookup \ {l} : lookup'[k] = lookup[k]
    BY <1>1, <1>2 DEF LookupFrame, LookupStage
  <2>2. /\ lookup'[l].pc = "promote" /\ lookup'[l].got = Filed(l) /\ lookup'[l].broken = lookup[l].broken
        /\ lookup'[l].proc = lookup[l].proc /\ lookup'[l].url = lookup[l].url /\ lookup'[l].had = lookup[l].had
    BY <1>1, <1>2 DEF LookupFrame
  <2>3. LookupHolds(l)' /\ ~LookupAt(l, "asked")'
    BY <1>0, <1>1, <1>2, <2>2 DEF LookupHolds, LookupAt, Held, Exists, Dated, Current
  <2> QED BY <1>1, <2>1, <2>3, MoveStep
<1>3. CASE GoTo(l, "fetch")
  <2>1. /\ lookup' \in [Lookup -> LookupFrame] /\ \A k \in Lookup \ {l} : lookup'[k] = lookup[k]
    BY <1>1, <1>3 DEF LookupFrame, LookupStage, GoTo
  <2>2. /\ lookup'[l].pc = "fetch" /\ lookup'[l].broken = lookup[l].broken
        /\ lookup'[l].proc = lookup[l].proc /\ lookup'[l].url = lookup[l].url /\ lookup'[l].had = lookup[l].had
    BY <1>1, <1>3 DEF LookupFrame, GoTo
  <2>3. LookupHolds(l)' /\ ~LookupAt(l, "asked")'
    BY <1>0, <1>1, <2>2 DEF LookupHolds, LookupAt, Held, Exists
  <2> QED BY <1>1, <2>1, <2>3, MoveStep
<1> QED BY <1>2, <1>3 DEF LookOnDisk

LEMMA PromoteHolds ==
  ASSUME LiveIInv, NEW l \in Lookup, Promote(l)
  PROVE  LiveIInv'
<1>0. LiveTypeOK /\ CachesHold /\ LookupHolds(l) /\ SlotsExact
  BY DEF LiveIInv
<1> DEFINE entry == [lookup[l].got EXCEPT !.mark = AgeOnDisk(lookup[l].got)]
<1>1. lookup[l].got \in Entry /\ Dated(lookup[l].got) /\ Current(lookup[l].got) /\ lookup[l].pc = "promote"
      /\ lookup[l].proc \in Process /\ lookup[l].url \in LiveUrl
  BY <1>0 DEF LookupHolds, LookupAt, LiveTypeOK, LookupFrame, Promote
<1>2. /\ entry \in Entry /\ entry.mark = lookup[l].got.mark /\ entry.at = lookup[l].got.at
      /\ entry.read = lookup[l].got.read
  BY <1>1 DEF Entry, AgeOnDisk
<1>3. /\ memory' = [memory EXCEPT ![lookup[l].proc][lookup[l].url] = entry]
      /\ Return(l, "fresh", entry) /\ UNCHANGED <<begun, now, disk, lock, inflight>>
  BY DEF Promote
<1> HIDE DEF entry
<1>4. Dated(entry) /\ Current(entry) /\ now \in Nat
  BY <1>0, <1>1, <1>2 DEF Dated, Current, Exists, LiveTypeOK, Instant
<1>5. /\ lookup' \in [Lookup -> LookupFrame]
      /\ lookup'[l].pc = "idle" /\ lookup'[l].broken = {}
      /\ \A k \in Lookup \ {l} : lookup'[k] = lookup[k]
  BY <1>0, <1>2, <1>3, <1>4, CurrentIs, ReturnIs DEF LiveTypeOK
<1>6. /\ memory' \in [Process -> Copies]
      /\ \A p \in Process, u \in LiveUrl : memory'[p][u] = memory[p][u] \/ memory'[p][u] = entry
  BY <1>0, <1>1, <1>2, <1>3 DEF LiveTypeOK, Copies
<1>7. /\ CachesHold'
      /\ \A p \in Process, u \in LiveUrl : Exists(memory[p][u]) => Exists(memory'[p][u])
  BY <1>0, <1>3, <1>4, <1>6 DEF CachesHold, Dated, Exists, Current
<1>8. LookupHolds(l)' /\ ~LookupAt(l, "asked") /\ ~LookupAt(l, "asked")'
  BY <1>1, <1>5 DEF LookupHolds, LookupAt
<1>9. SlotsExact'
  BY <1>0, <1>3, <1>5, <1>8, SlotsSame
<1>10. /\ begun' \in 0..MaxLookups /\ disk' \in Copies /\ lock' \in Lookup \cup {Nobody} /\ lock' = lock
       /\ inflight' \in [Process -> 0..Slots] /\ disk' = disk /\ now' = now
  BY <1>0, <1>3 DEF LiveTypeOK
<1> QED BY <1>5, <1>6, <1>7, <1>8, <1>9, <1>10, LookupStep

LEMMA AskHolds ==
  ASSUME LiveIInv, NEW l \in Lookup, NEW gone \in BOOLEAN, Ask(l, gone)
  PROVE  LiveIInv'
<1>0. LiveTypeOK /\ CachesHold /\ LookupHolds(l)
  BY DEF LiveIInv
<1>1. /\ lookup[l].pc = "fetch" /\ lookup[l].proc \in Process /\ lookup[l].url \in LiveUrl
      /\ lookup[l] \in LookupFrame /\ now \in Instant /\ ~LookupAt(l, "asked")
      /\ inflight[lookup[l].proc] < Slots /\ inflight[lookup[l].proc] \in 0..Slots
  BY <1>0 DEF Ask, LookupAt, LookupHolds, LiveTypeOK
<1> DEFINE got == [NoCopy EXCEPT !.read = now]
           q   == [lookup[l] EXCEPT !.pc = "asked", !.gone = gone, !.told = gone, !.got = got]
<1>2. got \in Entry /\ got.read = now
  BY <1>1, NoCopyIs DEF Entry
<1>3. /\ lookup' = [lookup EXCEPT ![l] = q]
      /\ inflight' = [inflight EXCEPT ![lookup[l].proc] = @ + 1]
      /\ begun' = begun /\ now' = now /\ memory' = memory /\ disk' = disk /\ lock' = lock
  BY DEF Ask
<1> HIDE DEF got
<1>4. /\ q \in LookupFrame /\ q.pc = "asked" /\ q.gone = gone /\ q.told = gone /\ q.got = got
      /\ q.proc = lookup[l].proc /\ q.url = lookup[l].url /\ q.had = lookup[l].had
      /\ q.broken = lookup[l].broken
  BY <1>1, <1>2 DEF LookupFrame, LookupStage
<1> HIDE DEF q
<1>5. lookup' \in [Lookup -> LookupFrame] /\ lookup'[l] = q /\ \A k \in Lookup \ {l} : lookup'[k] = lookup[k]
  BY <1>0, <1>3, <1>4 DEF LiveTypeOK
<1>6. LookupAt(l, "asked")' /\ lookup'[l].proc = lookup[l].proc
  BY <1>4, <1>5 DEF LookupAt
<1>7. LookupHolds(l)'
  <2>1. now - got.read <= FetchTime
    BY <1>1, <1>2, LiveConstants DEF Instant
  <2> QED BY <1>0, <1>1, <1>3, <1>4, <1>5, <2>1 DEF LookupHolds, LookupAt, Held, Exists
<1>8. SlotsExact'
  BY <1>1, <1>3, <1>5, <1>6, SlotTaken
<1>9. inflight' \in [Process -> 0..Slots]
  BY <1>0, <1>1, <1>3, LiveConstants DEF LiveTypeOK
<1>10. CachesHold'
  BY <1>0, <1>3, CachesSame
<1>11. /\ begun' \in 0..MaxLookups /\ memory' \in [Process -> Copies] /\ disk' \in Copies
       /\ lock' \in Lookup \cup {Nobody}
  BY <1>0, <1>3 DEF LiveTypeOK
<1> QED BY <1>3, <1>5, <1>7, <1>8, <1>9, <1>10, <1>11, LookupStep

\* A request is over, and its slot free.
LEMMA FreeStep ==
  ASSUME LiveIInv, NEW l \in Lookup, LookupAt(l, "asked"), FreeSlot(l),
         lookup' \in [Lookup -> LookupFrame], \A k \in Lookup \ {l} : lookup'[k] = lookup[k],
         LookupHolds(l)', ~LookupAt(l, "asked")',
         begun' = begun, now' = now, memory' = memory, disk' = disk, lock' = lock
  PROVE  LiveIInv'
<1>1. LiveTypeOK /\ CachesHold
  BY DEF LiveIInv
<1>2. SlotsExact' /\ inflight' \in [Process -> 0..Slots]
  BY SlotFreed
<1>3. /\ begun' \in 0..MaxLookups /\ memory' \in [Process -> Copies] /\ disk' \in Copies
      /\ lock' \in Lookup \cup {Nobody}
  BY <1>1 DEF LiveTypeOK
<1>4. CachesHold'
  BY <1>1, CachesSame
<1> QED BY <1>2, <1>3, <1>4, LookupStep

LEMMA ReceiveHolds ==
  ASSUME LiveIInv, NEW l \in Lookup, Receive(l)
  PROVE  LiveIInv'
<1>0. LiveTypeOK /\ CachesHold /\ LookupHolds(l)
  BY DEF LiveIInv
<1>1. /\ LookupAt(l, "asked") /\ FreeSlot(l) /\ lookup[l] \in LookupFrame /\ now \in Instant
      /\ begun' = begun /\ now' = now /\ memory' = memory /\ disk' = disk /\ lock' = lock
      /\ begun' \in 0..MaxLookups
  BY <1>0 DEF Receive, LiveTypeOK
<1>2. CASE lookup[l].gone
  <2>1. Return(l, "absent", NoCopy) /\ lookup[l].told
    BY <1>0, <1>1, <1>2 DEF Receive, LookupHolds
  <2>2. NoCopy.at - NoCopy.read <= FetchTime
    BY NoCopyIs, LiveConstants
  <2> QED BY <1>1, <2>1, <2>2, AnswerStep
<1>3. CASE ~lookup[l].gone
  <2>1. lookup' = [lookup EXCEPT ![l].pc = "remember", ![l].got.at = now]
    BY <1>3 DEF Receive
  <2>2. /\ lookup' \in [Lookup -> LookupFrame] /\ \A k \in Lookup \ {l} : lookup'[k] = lookup[k]
        /\ lookup'[l].pc = "remember" /\ lookup'[l].got.at = now
        /\ lookup'[l].got.read = lookup[l].got.read /\ lookup'[l].broken = lookup[l].broken
        /\ lookup'[l].proc = lookup[l].proc /\ lookup'[l].url = lookup[l].url /\ lookup'[l].had = lookup[l].had
    BY <1>0, <1>1, <2>1 DEF LiveTypeOK, LookupFrame, LookupStage, Entry
  <2>3. LookupHolds(l)' /\ ~LookupAt(l, "asked")'
    BY <1>0, <1>1, <2>2 DEF LookupHolds, LookupAt, Held, Exists
  <2> QED BY <1>1, <2>2, <2>3, FreeStep
<1> QED BY <1>2, <1>3

LEMMA FetchFailsHolds ==
  ASSUME LiveIInv, NEW l \in Lookup, FetchFails(l)
  PROVE  LiveIInv'
<1>0. LiveTypeOK /\ CachesHold /\ LookupHolds(l)
  BY DEF LiveIInv
<1>1. /\ LookupAt(l, "asked") /\ FreeSlot(l) /\ lookup[l] \in LookupFrame
      /\ begun' = begun /\ now' = now /\ memory' = memory /\ disk' = disk /\ lock' = lock
      /\ lookup' = [lookup EXCEPT ![l].pc = "fallback", ![l].got = NoCopy]
  BY <1>0 DEF FetchFails, LiveTypeOK
<1>2. /\ lookup' \in [Lookup -> LookupFrame] /\ \A k \in Lookup \ {l} : lookup'[k] = lookup[k]
      /\ lookup'[l].pc = "fallback" /\ lookup'[l].broken = lookup[l].broken
      /\ lookup'[l].proc = lookup[l].proc /\ lookup'[l].url = lookup[l].url /\ lookup'[l].had = lookup[l].had
  BY <1>0, <1>1, NoCopyIs DEF LiveTypeOK, LookupFrame, LookupStage
<1>3. LookupHolds(l)' /\ ~LookupAt(l, "asked")'
  BY <1>0, <1>1, <1>2 DEF LookupHolds, LookupAt, Held, Exists
<1> QED BY <1>1, <1>2, <1>3, FreeStep

LEMMA FallbackHolds ==
  ASSUME LiveIInv, NEW l \in Lookup, Fallback(l)
  PROVE  LiveIInv'
<1>0. LiveTypeOK /\ CachesHold /\ LookupHolds(l)
  BY DEF LiveIInv
<1>1. /\ lookup[l].pc = "fallback" /\ ~LookupAt(l, "asked")
      /\ begun' \in 0..MaxLookups /\ now' = now /\ memory' = memory /\ disk' = disk /\ lock' = lock
      /\ inflight' = inflight
  BY <1>0 DEF Fallback, LookupAt, LiveTypeOK
<1>2. Dated(Held(l)) /\ Dated(Filed(l)) /\ (lookup[l].had => Exists(Held(l)))
  BY <1>0, <1>1 DEF LookupHolds, Held, Filed, CachesHold
<1>3. CASE Exists(Held(l)) /\ Return(l, "stale", Held(l))
  <2>1. Held(l).at - Held(l).read <= FetchTime
    BY <1>2, <1>3 DEF Dated
  <2> QED BY <1>1, <1>3, <2>1, AnswerStep
<1>4. CASE Exists(Filed(l)) /\ Return(l, "stale", Filed(l))
  <2>1. Filed(l).at - Filed(l).read <= FetchTime
    BY <1>2, <1>4 DEF Dated
  <2> QED BY <1>1, <1>4, <2>1, AnswerStep
<1>5. CASE ~Exists(Held(l)) /\ Return(l, "unavailable", NoCopy)
  <2>1. NoCopy.at - NoCopy.read <= FetchTime /\ ~lookup[l].had
    BY <1>2, <1>5, NoCopyIs, LiveConstants
  <2> QED BY <1>1, <1>5, <2>1, AnswerStep
<1> QED BY <1>3, <1>4, <1>5 DEF Fallback

\* The answer in hand of a lookup, with the mark it is filed under.
LEMMA FiledIs ==
  ASSUME LiveIInv, NEW l \in Lookup, lookup[l].pc \in {"remember", "lock", "write"}
  PROVE  LET entry == [lookup[l].got EXCEPT !.mark = now] IN
         /\ entry \in Entry /\ Dated(entry) /\ Exists(entry) /\ entry.mark = now
         /\ entry.at - entry.read <= FetchTime /\ now - entry.read <= FetchTime
<1>1. LiveTypeOK /\ LookupHolds(l)
  BY DEF LiveIInv
<1>2. /\ lookup[l].got \in Entry /\ now \in Instant /\ now # 0
      /\ now - lookup[l].got.read <= FetchTime /\ lookup[l].got.at - lookup[l].got.read <= FetchTime
  BY <1>1 DEF LiveTypeOK, LookupHolds, LookupFrame
<1> DEFINE entry == [lookup[l].got EXCEPT !.mark = now]
<1>3. /\ entry \in Entry /\ entry.mark = now /\ entry.at = lookup[l].got.at
      /\ entry.read = lookup[l].got.read
  BY <1>2 DEF Entry
<1> HIDE DEF entry
<1>4. entry \in Entry /\ Dated(entry) /\ Exists(entry)
  BY <1>2, <1>3, LiveConstants DEF Dated, Exists, Instant
<1>5. entry.at - entry.read <= FetchTime /\ now - entry.read <= FetchTime
  BY <1>2, <1>3
<1> QED BY <1>3, <1>4, <1>5 DEF entry

LEMMA RememberHolds ==
  ASSUME LiveIInv, NEW l \in Lookup, Remember(l)
  PROVE  LiveIInv'
<1>0. LiveTypeOK /\ CachesHold /\ LookupHolds(l) /\ SlotsExact
  BY DEF LiveIInv
<1> DEFINE entry == [lookup[l].got EXCEPT !.mark = now]
<1>1. /\ lookup[l].pc = "remember" /\ lookup[l] \in LookupFrame
      /\ lookup[l].proc \in Process /\ lookup[l].url \in LiveUrl
  BY <1>0 DEF Remember, LookupAt, LookupHolds, LiveTypeOK
<1>2. entry \in Entry /\ Dated(entry) /\ Exists(entry)
  BY <1>1, FiledIs
<1>3. /\ memory' = [memory EXCEPT ![lookup[l].proc][lookup[l].url] = entry]
      /\ lookup' = [lookup EXCEPT ![l].pc = "lock"]
      /\ begun' = begun /\ now' = now /\ disk' = disk /\ lock' = lock /\ inflight' = inflight
  BY DEF Remember, GoTo
<1> HIDE DEF entry
<1>4. /\ memory' \in [Process -> Copies]
      /\ \A p \in Process, u \in LiveUrl : memory'[p][u] = memory[p][u] \/ memory'[p][u] = entry
  BY <1>0, <1>1, <1>2, <1>3 DEF LiveTypeOK, Copies
<1>5. /\ CachesHold'
      /\ \A p \in Process, u \in LiveUrl : Exists(memory[p][u]) => Exists(memory'[p][u])
  BY <1>0, <1>2, <1>3, <1>4 DEF CachesHold, Dated, Exists
<1>6. /\ lookup' \in [Lookup -> LookupFrame] /\ \A k \in Lookup \ {l} : lookup'[k] = lookup[k]
      /\ lookup'[l].pc = "lock" /\ lookup'[l].broken = lookup[l].broken /\ lookup'[l].got = lookup[l].got
      /\ lookup'[l].proc = lookup[l].proc /\ lookup'[l].url = lookup[l].url /\ lookup'[l].had = lookup[l].had
  BY <1>0, <1>1, <1>3 DEF LiveTypeOK, LookupFrame, LookupStage
<1>7. ~LookupAt(l, "asked") /\ ~LookupAt(l, "asked")'
  BY <1>1, <1>6 DEF LookupAt
<1>8. LookupHolds(l)'
  BY <1>0, <1>1, <1>3, <1>5, <1>6 DEF LookupHolds, LookupAt, Held
<1>9. SlotsExact'
  BY <1>0, <1>3, <1>6, <1>7, SlotsSame
<1>10. /\ begun' \in 0..MaxLookups /\ disk' \in Copies /\ lock' \in Lookup \cup {Nobody}
       /\ inflight' \in [Process -> 0..Slots]
  BY <1>0, <1>3 DEF LiveTypeOK
<1> QED BY <1>3, <1>4, <1>5, <1>6, <1>8, <1>9, <1>10, LookupStep

LEMMA LoadHolds ==
  ASSUME LiveIInv, NEW l \in Lookup, Load(l)
  PROVE  LiveIInv'
<1>0. LiveTypeOK /\ LookupHolds(l)
  BY DEF LiveIInv
<1>1. /\ lookup[l].pc = "lock" /\ lookup[l] \in LookupFrame /\ lock = Nobody /\ lock' = l
      /\ lookup' = [lookup EXCEPT ![l].pc = "write", ![l].loaded = disk]
      /\ begun' = begun /\ now' = now /\ memory' = memory /\ disk' = disk /\ inflight' = inflight
      /\ begun \in 0..MaxLookups /\ disk \in Copies
  BY <1>0 DEF Load, LookupAt, LiveTypeOK
<1>2. /\ lookup' \in [Lookup -> LookupFrame] /\ \A k \in Lookup \ {l} : lookup'[k] = lookup[k]
      /\ lookup'[l].pc = "write" /\ lookup'[l].broken = lookup[l].broken /\ lookup'[l].got = lookup[l].got
      /\ lookup'[l].loaded = disk
      /\ lookup'[l].proc = lookup[l].proc /\ lookup'[l].url = lookup[l].url /\ lookup'[l].had = lookup[l].had
  BY <1>0, <1>1 DEF LiveTypeOK, LookupFrame, LookupStage
<1>3. LookupHolds(l)' /\ ~LookupAt(l, "asked") /\ ~LookupAt(l, "asked")'
  BY <1>0, <1>1, <1>2 DEF LookupHolds, LookupAt, Held, Exists
<1> QED BY <1>1, <1>2, <1>3, MoveStep

\* The answer ends the lookup, whatever becomes of the file.
LEMMA AnsweredIs ==
  ASSUME LiveIInv, NEW l \in Lookup, lookup[l].pc \in {"lock", "write"}, Answered(l)
  PROVE  /\ lookup' \in [Lookup -> LookupFrame]
         /\ lookup'[l].pc = "idle" /\ lookup'[l].broken = {}
         /\ \A k \in Lookup \ {l} : lookup'[k] = lookup[k]
<1> DEFINE entry == [lookup[l].got EXCEPT !.mark = now]
<1>1. entry.at - entry.read <= FetchTime /\ now - entry.read <= FetchTime
  BY FiledIs
<1>2. Return(l, "fresh", entry)
  BY DEF Answered
<1>3. lookup \in [Lookup -> LookupFrame]
  BY DEF LiveIInv, LiveTypeOK
<1> HIDE DEF entry
<1> QED BY <1>1, <1>2, <1>3, ReturnIs

\* What is written under the lock: the new entry, and of the others what is current.
LEMMA WrittenIs ==
  ASSUME LiveIInv, NEW l \in Lookup, Write(l)
  PROVE  /\ lock = l /\ disk' \in Copies
         /\ \A u \in LiveUrl : \/ Dated(disk'[u]) /\ disk'[u].mark = now
                               \/ Current(disk[u]) /\ disk'[u] = disk[u]
                               \/ ~Current(disk[u]) /\ disk'[u] = NoCopy
<1>1. /\ lookup[l].pc = "write" /\ lock = l /\ lookup[l].loaded = disk /\ disk \in Copies
  BY DEF Write, LookupAt, LiveIInv, LookupHolds, LiveTypeOK
<1> DEFINE entry == [lookup[l].got EXCEPT !.mark = now]
<1>2. entry \in Entry /\ Dated(entry) /\ entry.mark = now
  BY <1>1, FiledIs
<1>3. disk' = [u \in LiveUrl |-> IF u = lookup[l].url THEN entry
                                ELSE IF Current(disk[u]) THEN disk[u] ELSE NoCopy]
  BY <1>1 DEF Write
<1> HIDE DEF entry
<1> QED BY <1>1, <1>2, <1>3, NoCopyIs DEF Copies

LEMMA WriteHolds ==
  ASSUME LiveIInv, NEW l \in Lookup, Write(l)
  PROVE  LiveIInv'
<1>0. LiveTypeOK /\ CachesHold /\ LookupHolds(l) /\ SlotsExact
  BY DEF LiveIInv
<1>1. /\ lookup[l].pc = "write" /\ Answered(l) /\ lock' = Nobody
      /\ begun' = begun /\ now' = now /\ memory' = memory /\ inflight' = inflight
  BY WrittenIs DEF Write, LookupAt, Unlock
<1>2. /\ lookup' \in [Lookup -> LookupFrame] /\ lookup'[l].pc = "idle" /\ lookup'[l].broken = {}
      /\ \A k \in Lookup \ {l} : lookup'[k] = lookup[k]
  BY <1>1, AnsweredIs
<1>3. \A u \in LiveUrl : Dated(disk'[u])
  BY <1>0, NoCopyIs, WrittenIs DEF CachesHold
<1>4. CachesHold'
  BY <1>0, <1>1, <1>3 DEF CachesHold, Dated, Exists
<1>5. LookupHolds(l)' /\ ~LookupAt(l, "asked") /\ ~LookupAt(l, "asked")'
  BY <1>1, <1>2 DEF LookupHolds, LookupAt
<1>6. SlotsExact'
  BY <1>0, <1>1, <1>2, <1>5, SlotsSame
<1>7. /\ begun' \in 0..MaxLookups /\ memory' \in [Process -> Copies]
      /\ inflight' \in [Process -> 0..Slots] /\ lock' \in Lookup \cup {Nobody}
  BY <1>0, <1>1 DEF LiveTypeOK
<1> QED BY <1>1, <1>2, <1>4, <1>5, <1>6, <1>7, WrittenIs, LookupStep

LEMMA WriteFailsHolds ==
  ASSUME LiveIInv, NEW l \in Lookup, WriteFails(l)
  PROVE  LiveIInv'
<1>0. LiveTypeOK /\ CachesHold /\ LookupHolds(l) /\ SlotsExact
  BY DEF LiveIInv
<1>1. /\ lookup[l].pc \in {"lock", "write"} /\ Answered(l) /\ lock' = (IF lock = l THEN Nobody ELSE lock)
      /\ begun' = begun /\ now' = now /\ memory' = memory /\ disk' = disk /\ inflight' = inflight
  BY DEF WriteFails, Unlock
<1>2. /\ lookup' \in [Lookup -> LookupFrame] /\ lookup'[l].pc = "idle" /\ lookup'[l].broken = {}
      /\ \A k \in Lookup \ {l} : lookup'[k] = lookup[k]
  BY <1>1, AnsweredIs
<1>3. LookupHolds(l)' /\ ~LookupAt(l, "asked") /\ ~LookupAt(l, "asked")'
  BY <1>1, <1>2 DEF LookupHolds, LookupAt
<1>4. SlotsExact' /\ CachesHold'
  BY <1>0, <1>1, <1>2, <1>3, SlotsSame, CachesSame
<1>5. /\ begun' \in 0..MaxLookups /\ memory' \in [Process -> Copies] /\ disk' \in Copies
      /\ inflight' \in [Process -> 0..Slots] /\ lock' \in Lookup \cup {Nobody}
  BY <1>0, <1>1 DEF LiveTypeOK
<1> QED BY <1>1, <1>2, <1>3, <1>4, <1>5, LookupStep

LEMMA LiveExitHolds ==
  ASSUME LiveIInv, NEW p \in Process, Exit(p)
  PROVE  LiveIInv'
<1>0. LiveTypeOK /\ CachesHold /\ SlotsExact /\ \A l \in Lookup : LookupHolds(l)
  BY DEF LiveIInv
<1> DEFINE mine == {l \in Lookup : lookup[l].pc # "idle" /\ lookup[l].proc = p}
<1>1. /\ memory' = [memory EXCEPT ![p] = NoCopies] /\ inflight' = [inflight EXCEPT ![p] = 0]
      /\ lookup' = [l \in Lookup |-> IF l \in mine THEN IdleLookup ELSE lookup[l]]
      /\ lock' = (IF lock \in mine THEN Nobody ELSE lock)
      /\ begun' = begun /\ now' = now /\ disk' = disk
  BY DEF Exit
<1>2. LiveTypeOK'
  <2>1. memory' \in [Process -> Copies] /\ lock' \in Lookup \cup {Nobody}
    BY <1>0, <1>1, NoCopyIs DEF LiveTypeOK
  <2>2. inflight' \in [Process -> 0..Slots]
    BY <1>0, <1>1, LiveConstants DEF LiveTypeOK
  <2>3. lookup' \in [Lookup -> LookupFrame]
    BY <1>0, <1>1, IdleIs DEF LiveTypeOK
  <2> QED BY <1>0, <1>1, <2>1, <2>2, <2>3 DEF LiveTypeOK
<1>3. CachesHold'
  <2>1. \A r \in Process, u \in LiveUrl : memory'[r][u] = memory[r][u] \/ memory'[r][u] = NoCopy
    BY <1>0, <1>1, NoCopyIs DEF LiveTypeOK
  <2>2. \A r \in Process, u \in LiveUrl : Dated(memory'[r][u])
    BY <1>0, <2>1, NoCopyIs DEF CachesHold
  <2> QED BY <1>0, <1>1, <2>2 DEF CachesHold, Dated, Exists
<1>4. ASSUME NEW l \in Lookup
      PROVE  LookupHolds(l)'
  <2>1. CASE l \in mine
    <3>1. lookup'[l].pc = "idle" /\ lookup'[l].broken = {}
      BY <1>1, <2>1, IdleIs
    <3> QED BY <3>1 DEF LookupHolds, LookupAt
  <2>2. CASE l \notin mine
    <3>1. lookup'[l] = lookup[l] /\ LookupHolds(l) /\ (lock = l => lock' = l)
      BY <1>0, <1>1, <2>2
    <3>2. lookup[l].pc # "idle" => lookup[l].proc # p
      BY <2>2
    <3>3. lookup[l].pc # "idle" => memory'[lookup[l].proc] = memory[lookup[l].proc]
      BY <1>0, <1>1, <3>2 DEF LiveTypeOK
    <3>4. lookup[l].pc # "idle" /\ lookup[l].had => Exists(Held(l))'
      BY <3>1, <3>3 DEF LookupHolds, Held, Exists
    <3> QED BY <1>1, <3>1, <3>4 DEF LookupHolds, LookupAt, Dated, Current, Exists
  <2> QED BY <2>1, <2>2
<1>5. SlotsExact'
  <2>1. Asked(p)' = {}
    BY <1>1, IdleIs DEF Asked, LookupAt
  <2>2. \A r \in Process \ {p} : Asked(r)' = Asked(r)
    BY <1>1, IdleIs DEF Asked, LookupAt
  <2>3. \A r \in Process : inflight'[r] = IF r = p THEN 0 ELSE inflight[r]
    BY <1>0, <1>1 DEF LiveTypeOK
  <2>4. IsFiniteSet({}) /\ Cardinality({}) = 0
    BY FS_EmptySet
  <2> QED BY <1>0, <2>1, <2>2, <2>3, <2>4 DEF SlotsExact
<1> QED BY <1>2, <1>3, <1>4, <1>5 DEF LiveIInv

LEMMA LiveTickHolds ==
  ASSUME LiveIInv, LiveTick
  PROVE  LiveIInv'
<1>0. LiveTypeOK /\ CachesHold /\ SlotsExact /\ \A l \in Lookup : LookupHolds(l)
  BY DEF LiveIInv
<1>1. /\ now' = now + 1 /\ now < MaxNow /\ now \in Instant /\ now # 0 /\ begun' = begun /\ memory' = memory
      /\ disk' = disk /\ lock' = lock /\ inflight' = inflight /\ lookup' = lookup
  BY <1>0 DEF LiveTick, LiveTypeOK
<1>2. LiveTypeOK'
  BY <1>0, <1>1, LiveConstants DEF LiveTypeOK, Instant
<1>3. \A entry \in Entry : Dated(entry) => Dated(entry)'
  BY <1>1 DEF Dated, Exists, Entry, Instant
<1>4. CachesHold'
  BY <1>0, <1>1, <1>3 DEF CachesHold, LiveTypeOK, Copies
<1>5. ASSUME NEW l \in Lookup
      PROVE  LookupHolds(l)'
  <2>1. LookupHolds(l) /\ lookup[l].got.read \in Nat
    BY <1>0 DEF LiveTypeOK, LookupFrame, Entry, Instant
  <2>2. ~LookupAt(l, "promote")
    BY DEF LiveTick
  <2>3. lookup[l].pc \in {"asked", "remember", "lock", "write"} => now' - lookup[l].got.read <= FetchTime
    BY <1>1, <2>1, LiveConstants DEF LiveTick, Instant
  <2> QED BY <1>1, <2>1, <2>2, <2>3 DEF LookupHolds, LookupAt, Held, Exists
<1>6. SlotsExact'
  <2>1. \A p \in Process : Asked(p)' = Asked(p)
    BY <1>1 DEF Asked, LookupAt
  <2> QED BY <1>0, <1>1, <2>1 DEF SlotsExact
<1> QED BY <1>2, <1>4, <1>5, <1>6 DEF LiveIInv

LEMMA LiveInitHolds == LiveInit => LiveIInv
<1> SUFFICES ASSUME LiveInit PROVE LiveIInv
  OBVIOUS
<1>1. LiveTypeOK
  <2>1. memory \in [Process -> Copies] /\ disk \in Copies /\ lookup \in [Lookup -> LookupFrame]
    BY NoCopyIs, IdleIs DEF LiveInit
  <2>2. begun \in 0..MaxLookups /\ now \in Instant \ {0}
    BY LiveAssumption DEF LiveInit, Instant
  <2>3. inflight \in [Process -> 0..Slots]
    BY LiveConstants DEF LiveInit
  <2> QED BY <2>1, <2>2, <2>3 DEF LiveTypeOK, LiveInit
<1>2. CachesHold
  BY NoCopyIs DEF CachesHold, LiveInit
<1>3. SlotsExact
  <2>1. \A p \in Process : Asked(p) = {}
    BY IdleIs DEF Asked, LookupAt, LiveInit
  <2>2. IsFiniteSet({}) /\ Cardinality({}) = 0
    BY FS_EmptySet
  <2> QED BY <2>1, <2>2 DEF SlotsExact, LiveInit
<1>4. ASSUME NEW l \in Lookup
      PROVE  LookupHolds(l)
  <2>1. lookup[l].pc = "idle" /\ lookup[l].broken = {}
    BY IdleIs DEF LiveInit
  <2> QED BY <2>1 DEF LookupHolds, LookupAt
<1> QED BY <1>1, <1>2, <1>3, <1>4 DEF LiveIInv

LEMMA LiveStepHolds == LiveIInv /\ [LiveNext]_liveVars => LiveIInv'
<1> SUFFICES ASSUME LiveIInv, [LiveNext]_liveVars PROVE LiveIInv'
  OBVIOUS
<1>1. ASSUME NEW l \in Lookup, LookUp(l)
      PROVE  LiveIInv'
  BY <1>1, LookInMemoryHolds, LookOnDiskHolds, PromoteHolds, AskHolds, ReceiveHolds, FetchFailsHolds,
     FallbackHolds, RememberHolds, LoadHolds, WriteHolds, WriteFailsHolds DEF LookUp
<1>2. CASE UNCHANGED liveVars
  BY <1>2 DEF liveVars, LiveIInv, LiveTypeOK, CachesHold, Dated, Exists, SlotsExact, Asked, LookupAt,
              LookupHolds, Held, Current
<1> QED BY <1>1, <1>2, LiveExitHolds, LiveTickHolds DEF LiveNext

LEMMA LiveHolds == LiveSpec => []LiveIInv
  BY LiveInitHolds, LiveStepHolds, PTL DEF LiveSpec

\* A slot of the host is held by a request under way, and by nothing else.
THEOREM SlotsComeBack == LiveSpec => []LiveInv
<1>1. LiveIInv => LiveInv
  BY DEF LiveIInv, LiveInv, SlotsReturned, SlotsExact, Asked
<1> QED BY <1>1, LiveHolds, PTL

\* What a client is told of an answer's age, of an outage and of an absence is true.
THEOREM LiveAnswersAreTrue == LiveSpec => []AnswersTrue
<1>1. LiveIInv => AnswersTrue
  BY DEF LiveIInv, LookupHolds, AnswersTrue, FreshAnswers, HonestStamps, OutageIsNoAnswer, OldAnswerBeatsNone
<1> QED BY <1>1, LiveHolds, PTL

\* A current entry in the shared file is only ever replaced by one as young.
THEOREM FiledAnswersStay == LiveSpec => NotClobbered
<1>1. LiveIInv /\ [LiveNext]_liveVars =>
        [\A u \in LiveUrl : Current(disk[u]) => disk'[u].mark >= disk[u].mark]_liveVars
  <2> SUFFICES ASSUME LiveIInv, [LiveNext]_liveVars, NEW u \in LiveUrl, Current(disk[u])
               PROVE  disk'[u].mark >= disk[u].mark
    OBVIOUS
  <2>1. disk[u].mark \in Nat /\ disk[u].mark <= now
    BY DEF LiveIInv, LiveTypeOK, CachesHold, Dated, Current, Copies, Entry, Instant
  <2>2. ASSUME NEW l \in Lookup, Write(l)
        PROVE  disk'[u].mark >= disk[u].mark
    <3>1. \/ disk'[u].mark = now
          \/ disk'[u] = disk[u]
      BY <2>2, WrittenIs
    <3>2. now \in Nat
      BY DEF LiveIInv, LiveTypeOK, Instant
    <3> QED BY <2>1, <3>1, <3>2
  <2>3. CASE disk' = disk
    BY <2>1, <2>3
  <2>4. (\E l \in Lookup : Write(l)) \/ disk' = disk
    BY DEF LiveNext, LookUp, LookInMemory, LookOnDisk, Promote, Ask, Receive, FetchFails, Fallback, Remember,
           Load, WriteFails, Exit, LiveTick, liveVars
  <2> QED BY <2>2, <2>3, <2>4
<1> QED BY <1>1, LiveHolds, PTL DEF LiveSpec, NotClobbered

(***************************************************************************)
(* HttpStore: the store of validated responses.                            *)
(***************************************************************************)

\* A process's dropped files are of no entry of its own.
Clean(p) == \A u \in Url : p.entries[u] # Absent => BodyFile(u, p.entries[u]) \notin p.dropped

\* A process with the index read, whose last answer was right.
Reading(p) == p \in ChildFrame /\ p.loaded /\ Clean(p)
NoEntries(p) == \A u \in Url : p.entries[u] = Absent

\* What a process asks: the ETag it sends is its entry's, and without an entry it
\* sends none; a body it is given, the server has had meanwhile.
Asking(p) ==
  /\ p.pc \in {"sent", "answered", "kept"} => p.url \in Url /\ served[p.url] \in p.seen
  /\ p.pc \in {"answered", "kept"} => p.etag \in p.seen
  /\ p.pc = "sent" \/ (p.pc = "answered" /\ p.same) => p.entries[p.url] = p.etag
  /\ p.pc = "sent" /\ ~p.retry => p.etag = Absent
  /\ p.pc = "answered" /\ p.same => p.retry

Sound(p) ==
  /\ p \in ChildFrame /\ Clean(p) /\ Asking(p)
  /\ p.pc \in {"gone", "flushed"} => ~p.loaded
  /\ ~p.loaded => NoEntries(p) /\ p.dropped = {} /\ ~p.dirty /\ p.pc \in {"gone", "ready", "flushed"}
  /\ p.wrong = {}

\* A body file holds the body that its ETag came with.
BodiesOwn == \A f \in FileName : body[f] \in {f[2], Absent}

StoreTypes == 
  /\ served \in [Url -> Etag] /\ changes \in 0..MaxChanges
  /\ stored \in [Url -> Known]
  /\ body \in [FileName -> Known] /\ young \in SUBSET FileName
  /\ together \in BOOLEAN
  /\ BodiesOwn

\* What a process's entries name is there.
Backed(entries) == \A u \in Url : entries[u] # Absent => body[BodyFile(u, entries[u])] # Absent

\* A process that has the store for itself.
Alone ==
  ~together =>
    /\ \A c, d \in Child : Running(c) /\ Running(d) => c = d
    /\ Backed(stored)
    /\ \A c \in Child :
         /\ Backed(child[c].entries)
         /\ ChildAt(c, "kept") => body[BodyFile(child[c].url, child[c].etag)] # Absent
         /\ ChildAt(c, "removing") => stored = child[c].entries

HttpIInv ==
  /\ StoreTypes /\ child \in [Child -> ChildFrame]
  /\ \A c \in Child : Sound(child[c])
  /\ Alone

(***************************************************************************)
(* What a process's operations make of its record.                         *)
(***************************************************************************)

LEMMA FileNames == \A u \in Url, e \in Etag : BodyFile(u, e) \in FileName /\ BodyFile(u, e)[1] = u /\ BodyFile(u, e)[2] = e
  BY DEF BodyFile, FileName

LEMMA DroppingIs ==
  ASSUME NEW p, Reading(p), NEW u \in Url, p.entries[u] # Absent
  PROVE  LET q == Dropping(p, u) IN
         /\ Reading(q) /\ q.entries[u] = Absent
         /\ \A v \in Url : q.entries[v] \in {Absent, p.entries[v]}
         /\ q.seen = p.seen /\ q.pc = p.pc /\ q.url = p.url /\ q.etag = p.etag /\ q.left = p.left
<1> DEFINE q == Dropping(p, u)
<1> USE HttpAssumption DEF Reading
<1>1. /\ q.entries = [p.entries EXCEPT ![u] = Absent] /\ q.dirty = TRUE
      /\ q.dropped = p.dropped \cup {BodyFile(u, p.entries[u])}
      /\ q.loaded = p.loaded /\ q.pc = p.pc /\ q.url = p.url /\ q.etag = p.etag /\ q.left = p.left
      /\ q.seen = p.seen
  BY DEF Dropping, ChildFrame
<1>2. BodyFile(u, p.entries[u]) \in FileName
  BY FileNames DEF ChildFrame, Known
<1>3. q \in ChildFrame
  BY <1>2 DEF Dropping, ChildFrame, Known
<1>4. \A v \in Url \ {u} : q.entries[v] = p.entries[v]
  BY <1>1 DEF ChildFrame
<1>5. q.entries[u] = Absent
  BY <1>1 DEF ChildFrame
<1>6. Clean(q)
  BY <1>1, <1>4, <1>5 DEF Clean, BodyFile
<1> HIDE DEF q
<1>7. Reading(q) /\ q.entries[u] = Absent
  BY <1>1, <1>3, <1>5, <1>6
<1>8. \A v \in Url : q.entries[v] \in {Absent, p.entries[v]}
  BY <1>4, <1>5
<1>9. q.seen = p.seen /\ q.pc = p.pc /\ q.url = p.url /\ q.etag = p.etag /\ q.left = p.left
  BY <1>1
<1> QED BY <1>7, <1>8, <1>9 DEF q

LEMMA TouchedIs ==
  ASSUME NEW p, Reading(p), NEW u \in Url
  PROVE  LET q == Touched(p, u) IN
         /\ Reading(q)
         /\ \A v \in Url : q.entries[v] \in {Absent, p.entries[v]}
         /\ q.seen = p.seen
<1>1. CASE p.entries[u] = Absent
  BY <1>1 DEF Touched
<1>2. CASE p.entries[u] # Absent /\ body[BodyFile(u, p.entries[u])] = Absent
  BY <1>2, DroppingIs DEF Touched
<1>3. CASE p.entries[u] # Absent /\ body[BodyFile(u, p.entries[u])] # Absent
  <2> DEFINE q == [p EXCEPT !.used = @ \cup {u}, !.dirty = TRUE]
  <2>1. Touched(p, u) = q
    BY <1>3 DEF Touched
  <2>2. q.entries = p.entries /\ q.dropped = p.dropped /\ q.loaded = p.loaded /\ q.seen = p.seen
    BY DEF Reading, ChildFrame
  <2>3. q \in ChildFrame
    BY DEF Reading, ChildFrame
  <2> HIDE DEF q
  <2> QED BY <2>1, <2>2, <2>3 DEF Reading, Clean
<1> QED BY <1>1, <1>2, <1>3

LEMMA SendingIs ==
  ASSUME NEW p, Reading(p), NEW u \in Url, NEW again \in BOOLEAN, served \in [Url -> Etag],
         again => p.entries[u] = Absent
  PROVE  LET q == Sending(p, u, again) IN
         /\ Sound(q) /\ q.pc = "sent" /\ q.loaded
         /\ \A v \in Url : q.entries[v] \in {Absent, p.entries[v]}
<1> DEFINE t == Touched(p, u)
           q == Sending(p, u, again)
<1>1. /\ Reading(t) /\ t.seen = p.seen
      /\ \A v \in Url : t.entries[v] \in {Absent, p.entries[v]}
  BY TouchedIs
<1>2. q = [t EXCEPT !.pc = "sent", !.url = u, !.etag = t.entries[u], !.retry = ~again,
             !.seen = (IF again THEN @ ELSE {}) \cup {served[u]}, !.wrong = {}]
  BY DEF Sending
<1>3. served[u] \in Etag /\ t.entries[u] \in Known
  BY <1>1 DEF Reading, ChildFrame
<1> HIDE DEF t, q
<1>4. /\ q.pc = "sent" /\ q.url = u /\ q.etag = t.entries[u] /\ q.retry = ~again
      /\ q.seen = (IF again THEN t.seen ELSE {}) \cup {served[u]} /\ q.wrong = {}
      /\ q.entries = t.entries /\ q.dropped = t.dropped /\ q.loaded = t.loaded
  BY <1>1, <1>2 DEF Reading, ChildFrame
<1>5. q \in ChildFrame
  <2>1. (~again) \in BOOLEAN /\ (IF again THEN t.seen ELSE {}) \cup {served[u]} \in SUBSET Etag
    BY <1>1, <1>3 DEF Reading, ChildFrame
  <2> QED BY <1>1, <1>2, <1>3, <2>1 DEF Reading, ChildFrame, ChildStage
<1>6. Clean(q) /\ Asking(q)
  BY <1>1, <1>4 DEF Reading, Clean, Asking
<1>7. Sound(q)
  BY <1>1, <1>4, <1>5, <1>6 DEF Reading, Sound
<1> QED BY <1>1, <1>4, <1>7 DEF Reading, q

LEMMA ReturningIs ==
  ASSUME NEW p, Reading(p), NEW got \in Known, NEW failing \in BOOLEAN,
         failing \/ got \in p.seen
  PROVE  LET q == Returning(p, got, failing) IN
         Sound(q) /\ q.pc = "ready" /\ q.loaded /\ q.entries = p.entries
<1> DEFINE q == Returning(p, got, failing)
           wrong == IF failing THEN {}
                    ELSE IF got = Absent THEN {"nothing"}
                    ELSE IF got \in p.seen THEN {} ELSE {"stale"}
<1>1. q = [p EXCEPT !.pc = "ready", !.url = Absent, !.etag = Absent, !.retry = FALSE, !.same = FALSE,
             !.seen = {}, !.wrong = wrong]
  BY DEF Returning
<1>2. wrong = {}
  BY HttpAssumption DEF Reading, ChildFrame
<1> HIDE DEF q, wrong
<1>3. /\ q.pc = "ready" /\ q.wrong = {} /\ q.entries = p.entries /\ q.dropped = p.dropped
      /\ q.loaded = p.loaded
  BY <1>1, <1>2 DEF Reading, ChildFrame
<1>4. q \in ChildFrame
  BY <1>1, <1>2 DEF Reading, ChildFrame, ChildStage, Known
<1>5. Sound(q)
  BY <1>3, <1>4 DEF Reading, Sound, Clean, Asking
<1> QED BY <1>3, <1>5 DEF Reading, q

LEMMA AfterBodyIs ==
  ASSUME NEW c \in Child, Reading(child[c]), child[c].url \in Url, NEW got
  PROVE  LET q == AfterBody(c, got) IN
         /\ Reading(q) /\ q.seen = child[c].seen
         /\ \A v \in Url : q.entries[v] \in {Absent, child[c].entries[v]}
         /\ got = Absent => q.entries[child[c].url] = Absent
<1>1. CASE got = Absent /\ child[c].entries[child[c].url] # Absent
  BY <1>1, DroppingIs DEF AfterBody
<1>2. CASE ~(got = Absent /\ child[c].entries[child[c].url] # Absent)
  BY <1>2 DEF AfterBody
<1> QED BY <1>1, <1>2

LEMMA Blank ==
  /\ Sound(NoProcess) /\ NoProcess.pc = "gone"
  /\ Sound(Flushed) /\ Flushed.pc = "flushed" /\ NoEntries(Flushed) /\ NoEntries(NoProcess)
  /\ Sound([NoProcess EXCEPT !.pc = "ready"]) /\ NoEntries([NoProcess EXCEPT !.pc = "ready"])
  /\ [NoProcess EXCEPT !.pc = "ready"].pc = "ready"
<1>1. NoProcess \in ChildFrame
  BY HttpAssumption DEF NoProcess, ChildFrame, ChildStage, Known
<1>2. /\ NoProcess.pc = "gone" /\ ~NoProcess.loaded /\ NoProcess.dropped = {} /\ ~NoProcess.dirty
      /\ NoProcess.wrong = {} /\ NoEntries(NoProcess)
  BY DEF NoProcess, NoEntries
<1>3. ASSUME NEW stage \in {"gone", "ready", "flushed"}
      PROVE  LET q == [NoProcess EXCEPT !.pc = stage] IN
             Sound(q) /\ NoEntries(q) /\ q.pc = stage
  <2> DEFINE q == [NoProcess EXCEPT !.pc = stage]
  <2>1. q \in ChildFrame /\ q.pc = stage
    BY <1>1 DEF ChildFrame, ChildStage
  <2>2. /\ ~q.loaded /\ q.dropped = {} /\ ~q.dirty /\ q.wrong = {} /\ q.entries = NoProcess.entries
    BY <1>1, <1>2 DEF ChildFrame
  <2> HIDE DEF q
  <2>3. NoEntries(q)
    BY <1>2, <2>2 DEF NoEntries
  <2>4. Sound(q)
    BY <2>1, <2>2, <2>3 DEF Sound, Clean, Asking, NoEntries
  <2> QED BY <2>1, <2>3, <2>4 DEF q
<1>4. Sound(NoProcess)
  BY <1>1, <1>2 DEF Sound, Clean, Asking, NoEntries
<1> QED BY <1>2, <1>3, <1>4 DEF Flushed

(***************************************************************************)
(* The steps of a process.                                                 *)
(***************************************************************************)

\* What a step of one process has to show: of its record, and of the store if it has
\* that for itself.
LEMMA ProcessStep ==
  ASSUME HttpIInv, NEW c \in Child, Running(c),
         NEW q, Sound(q), child' = [child EXCEPT ![c] = q],
         served' = served, together' = together, StoreTypes',
         ~together => /\ Backed(stored)' /\ Backed(q.entries)'
                      /\ q.pc = "kept" => body'[BodyFile(q.url, q.etag)] # Absent
                      /\ q.pc = "removing" => stored' = q.entries
  PROVE  HttpIInv'
<1>1. child' \in [Child -> ChildFrame] /\ child'[c] = q /\ \A d \in Child \ {c} : child'[d] = child[d]
  BY DEF HttpIInv, Sound
<1>2. \A d \in Child : Sound(child[d])'
  BY <1>1 DEF HttpIInv, Sound, Asking, Clean, NoEntries
<1>3. Alone'
  <2> SUFFICES ASSUME ~together
               PROVE  /\ \A d, e \in Child : (Running(d) /\ Running(e) => d = e)'
                      /\ \A d \in Child :
                           /\ Backed(child[d].entries)'
                           /\ (ChildAt(d, "kept") => body[BodyFile(child[d].url, child[d].etag)] # Absent)'
                           /\ (ChildAt(d, "removing") => stored = child[d].entries)'
    BY DEF Alone
  <2>1. \A d \in Child \ {c} : ~Running(d)
    BY DEF HttpIInv, Alone
  <2>2. \A d \in Child \ {c} : child[d].pc = "gone" /\ NoEntries(child[d])
    BY <2>1 DEF HttpIInv, Sound, Running, ChildAt
  <2>3. \A d \in Child \ {c} : child'[d].pc = "gone" /\ NoEntries(child'[d])
    BY <1>1, <2>2
  <2>4. \A d, e \in Child : (Running(d) /\ Running(e) => d = e)'
    BY <2>3 DEF Running, ChildAt
  <2>5. \A d \in Child : Backed(child[d].entries)'
    BY <1>1, <2>3 DEF Backed, NoEntries
  <2>6. \A d \in Child :
           /\ (ChildAt(d, "kept") => body[BodyFile(child[d].url, child[d].etag)] # Absent)'
           /\ (ChildAt(d, "removing") => stored = child[d].entries)'
    BY <1>1, <2>3 DEF ChildAt
  <2> QED BY <2>4, <2>5, <2>6
<1> QED BY <1>1, <1>2, <1>3 DEF HttpIInv

\* A process's record, and what it may count on.
LEMMA RecordOf ==
  ASSUME HttpIInv, NEW c \in Child
  PROVE  /\ Sound(child[c]) /\ child[c] \in ChildFrame /\ StoreTypes
         /\ child[c].loaded => Reading(child[c])
         /\ child[c].pc \in {"sent", "answered", "kept", "removing"} =>
              Running(c) /\ Reading(child[c])
         /\ child[c].pc = "ready" => Running(c)
         /\ ~together => Backed(stored) /\ Backed(child[c].entries)
BY DEF HttpIInv, Sound, Reading, Running, ChildAt, Alone

LEMMA StoreSame ==
  ASSUME StoreTypes, UNCHANGED <<served, changes, stored, body, young, together>>
  PROVE  /\ StoreTypes'
         /\ \A entries : Backed(entries) => Backed(entries)'
         /\ Backed(stored) => Backed(stored)'
BY DEF StoreTypes, BodiesOwn, Backed

LEMMA SendStep ==
  ASSUME HttpIInv, NEW c \in Child, NEW u \in Url, Send(c, u)
  PROVE  HttpIInv'
<1> DEFINE p == [child[c] EXCEPT !.loaded = TRUE, !.entries = Entries(c), !.left = @ - 1]
<1> PICK q : q = Sending(p, u, FALSE)
  OBVIOUS
<1>1. Sound(child[c]) /\ child[c] \in ChildFrame /\ StoreTypes /\ Running(c)
  BY RecordOf DEF Send, ChildAt
<1>2. Entries(c) \in [Url -> Known]
  BY <1>1 DEF Entries, ChildFrame, StoreTypes
<1>3. p.entries = Entries(c) /\ p.loaded /\ p.dropped = child[c].dropped
  BY <1>1 DEF ChildFrame
<1>4. p \in ChildFrame
  <2>1. child[c].left - 1 \in 0..MaxRequests
    BY <1>1, HttpAssumption DEF Send, ChildFrame
  <2> QED BY <1>1, <1>2, <2>1 DEF ChildFrame
<1> HIDE DEF p
<1>5. Clean(p)
  BY <1>1, <1>3 DEF Sound, Clean, Entries
<1>6. Reading(p)
  BY <1>3, <1>4, <1>5 DEF Reading
<1>7. /\ Sound(q) /\ q.pc = "sent"
      /\ \A v \in Url : q.entries[v] \in {Absent, p.entries[v]}
  BY <1>1, <1>6, SendingIs DEF StoreTypes
<1>8. ~together => Backed(stored) /\ Backed(q.entries)
  <2>1. ~together => Backed(stored) /\ Backed(p.entries)
    BY <1>3, RecordOf DEF Entries
  <2>2. Backed(p.entries) => Backed(q.entries)
    BY <1>7 DEF Backed
  <2> QED BY <2>1, <2>2
<1>9. child' = [child EXCEPT ![c] = q] /\ UNCHANGED <<served, changes, stored, body, young, together>>
  BY DEF Send, p
<1>10. StoreTypes' /\ (~together => Backed(stored)' /\ Backed(q.entries)')
  BY <1>1, <1>8, <1>9, StoreSame
<1> QED BY <1>1, <1>7, <1>9, <1>10, ProcessStep

LEMMA RespondStep ==
  ASSUME HttpIInv, NEW c \in Child, Respond(c)
  PROVE  HttpIInv'
<1> DEFINE p == child[c]
           sentTag == served[p.url]
<1> PICK q : q = [p EXCEPT !.pc = "answered", !.etag = sentTag, !.same = (p.etag = sentTag)]
  OBVIOUS
<1>1. /\ Sound(p) /\ p \in ChildFrame /\ StoreTypes /\ Running(c) /\ Reading(p) /\ p.pc = "sent"
      /\ ~together => Backed(stored) /\ Backed(p.entries)
  BY RecordOf DEF Respond, ChildAt
<1>2. p.url \in Url /\ sentTag \in Etag /\ sentTag \in p.seen /\ p.entries[p.url] = p.etag
      /\ (~p.retry => p.etag = Absent)
  BY <1>1 DEF Sound, Asking, StoreTypes
<1>3. child' = [child EXCEPT ![c] = q] /\ UNCHANGED <<served, changes, stored, body, young, together>>
  BY DEF Respond
<1>4. /\ q.pc = "answered" /\ q.etag = sentTag /\ q.same = (p.etag = sentTag) /\ q.url = p.url /\ q.seen = p.seen
      /\ q.entries = p.entries /\ q.dropped = p.dropped /\ q.loaded = p.loaded /\ q.retry = p.retry
      /\ q.wrong = p.wrong
  BY <1>1 DEF ChildFrame
<1>5. q \in ChildFrame
  <2>1. ASSUME NEW b \in BOOLEAN
        PROVE  [p EXCEPT !.pc = "answered", !.etag = sentTag, !.same = b] \in ChildFrame
    BY <1>1, <1>2 DEF ChildFrame, ChildStage, Known
  <2>2. (p.etag = sentTag) \in BOOLEAN
    BY Zenon
  <2> QED BY <2>1, <2>2, Zenon
<1> HIDE DEF sentTag
<1>6. Asking(q)
  BY <1>1, <1>2, <1>4, HttpAssumption DEF Asking, sentTag
<1>7. Sound(q)
  BY <1>1, <1>4, <1>5, <1>6 DEF Sound, Clean, Reading
<1>8. StoreTypes' /\ (~together => Backed(stored)' /\ Backed(q.entries)')
  BY <1>1, <1>3, <1>4, StoreSame
<1> QED BY <1>1, <1>3, <1>4, <1>7, <1>8, ProcessStep

\* What can be read of an entry is its own body, or nothing.
LEMMA BodiesAre ==
  ASSUME NEW c \in Child, StoreTypes, child[c] \in ChildFrame, child[c].url \in Url
  PROVE  \A got \in Bodies(c) : got \in Known /\ got \in {Absent, child[c].entries[child[c].url]}
<1>1. child[c].entries[child[c].url] \in Etag \cup {Absent}
  BY DEF ChildFrame, Known
<1>2. CASE child[c].entries[child[c].url] = Absent
  BY <1>2 DEF Bodies, Known
<1>3. CASE child[c].entries[child[c].url] \in Etag
  <2>1. body[BodyFile(child[c].url, child[c].entries[child[c].url])]
          \in {Absent, child[c].entries[child[c].url]}
    BY <1>3, FileNames DEF StoreTypes, BodiesOwn
  <2> QED BY <1>3, <2>1 DEF Bodies, Known
<1> QED BY <1>1, <1>2, <1>3

LEMMA RequestErrorStep ==
  ASSUME HttpIInv, NEW c \in Child, RequestError(c)
  PROVE  HttpIInv'
<1> DEFINE p == child[c]
<1>1. /\ Sound(p) /\ p \in ChildFrame /\ StoreTypes /\ Running(c) /\ Reading(p) /\ p.pc = "sent"
      /\ ~together => Backed(stored) /\ Backed(p.entries)
  BY RecordOf DEF RequestError, ChildAt
<1>2. p.url \in Url
  BY <1>1 DEF Sound, Asking
<1>3. UNCHANGED <<served, changes, stored, body, young, together>>
  BY DEF RequestError
<1>4. PICK got \in Known : \E r :
        /\ Reading(r) /\ \A v \in Url : r.entries[v] \in {Absent, p.entries[v]}
        /\ child' = [child EXCEPT ![c] = Returning(r, got, TRUE)]
  <2>1. CASE child' = [child EXCEPT ![c] = Returning(p, Absent, TRUE)]
    <3>1. Reading(p) /\ Absent \in Known /\ \A v \in Url : p.entries[v] \in {Absent, p.entries[v]}
      BY <1>1 DEF Known
    <3> QED BY <2>1, <3>1
  <2>2. ASSUME NEW answer \in Bodies(c), NEW r \in {p, AfterBody(c, answer)},
               child' = [child EXCEPT ![c] = Returning(r, answer, TRUE)]
        PROVE  /\ answer \in Known
               /\ Reading(r) /\ \A v \in Url : r.entries[v] \in {Absent, p.entries[v]}
    <3>1. answer \in Known
      BY <1>1, <1>2, BodiesAre
    <3>2. Reading(r) /\ \A v \in Url : r.entries[v] \in {Absent, p.entries[v]}
      BY <1>1, <1>2, AfterBodyIs
    <3> QED BY <3>1, <3>2
  <2> QED BY <2>1, <2>2 DEF RequestError
<1>5. PICK r : /\ Reading(r) /\ \A v \in Url : r.entries[v] \in {Absent, p.entries[v]}
               /\ child' = [child EXCEPT ![c] = Returning(r, got, TRUE)]
  BY <1>4
<1>6. Reading(r) /\ \A v \in Url : r.entries[v] \in {Absent, p.entries[v]}
  BY <1>5
<1>7. PICK q : q = Returning(r, got, TRUE)
  OBVIOUS
<1>8. Sound(q) /\ q.pc = "ready" /\ q.entries = r.entries
  BY <1>6, <1>7, ReturningIs
<1>9. ~together => Backed(stored) /\ Backed(q.entries)
  BY <1>1, <1>6, <1>8 DEF Backed
<1>10. StoreTypes' /\ (~together => Backed(stored)' /\ Backed(q.entries)')
  BY <1>1, <1>3, <1>9, StoreSame
<1> QED BY <1>1, <1>3, <1>5, <1>7, <1>8, <1>10, ProcessStep

LEMMA RevalidatedStep ==
  ASSUME HttpIInv, NEW c \in Child, Revalidated(c)
  PROVE  HttpIInv'
<1> DEFINE p == child[c]
<1>1. /\ Sound(p) /\ p \in ChildFrame /\ StoreTypes /\ Running(c) /\ Reading(p) /\ p.pc = "answered"
      /\ ~together => Backed(stored) /\ Backed(p.entries)
  BY RecordOf DEF Revalidated, ChildAt
<1>2. p.same
  BY DEF Revalidated
<1>3. p.url \in Url /\ p.etag \in p.seen /\ p.retry /\ p.entries[p.url] = p.etag
  BY <1>1, <1>2 DEF Sound, Asking
<1>4. UNCHANGED <<served, changes, stored, body, young, together>>
  BY DEF Revalidated
<1>5. PICK got \in Bodies(c) :
        child' = [child EXCEPT ![c] =
          IF got = Absent THEN Sending(AfterBody(c, got), p.url, TRUE)
          ELSE Returning(AfterBody(c, got), got, FALSE)]
  BY <1>3 DEF Revalidated
<1>6. got \in Known /\ got \in {Absent, p.etag}
  BY <1>1, <1>3, BodiesAre
<1>7. PICK r : r = AfterBody(c, got)
  OBVIOUS
<1>13. PICK q : q = IF got = Absent THEN Sending(r, p.url, TRUE) ELSE Returning(r, got, FALSE)
  OBVIOUS
<1>8. /\ Reading(r) /\ r.seen = p.seen
      /\ \A v \in Url : r.entries[v] \in {Absent, p.entries[v]}
      /\ got = Absent => r.entries[p.url] = Absent
  BY <1>1, <1>3, <1>7, AfterBodyIs
<1>9. /\ Sound(q) /\ q.pc \in {"sent", "ready"}
      /\ \A v \in Url : q.entries[v] \in {Absent, r.entries[v]}
  <2>1. CASE got = Absent
    <3>1. q = Sending(r, p.url, TRUE) /\ r.entries[p.url] = Absent /\ served \in [Url -> Etag]
      BY <1>1, <1>8, <1>13, <2>1 DEF StoreTypes
    <3> QED BY <1>3, <1>8, <3>1, SendingIs
  <2>2. CASE got # Absent
    <3>1. q = Returning(r, got, FALSE) /\ got \in r.seen
      BY <1>3, <1>6, <1>8, <1>13, <2>2
    <3> QED BY <1>6, <1>8, <3>1, ReturningIs
  <2> QED BY <2>1, <2>2
<1>10. ~together => Backed(stored) /\ Backed(q.entries)
  BY <1>1, <1>8, <1>9 DEF Backed
<1>11. StoreTypes' /\ (~together => Backed(stored)' /\ Backed(q.entries)')
  BY <1>1, <1>4, <1>10, StoreSame
<1>12. child' = [child EXCEPT ![c] = q]
  BY <1>5, <1>7, <1>13
<1> QED BY <1>1, <1>4, <1>9, <1>11, <1>12, ProcessStep

LEMMA WriteBodyStep ==
  ASSUME HttpIInv, NEW c \in Child, WriteBody(c)
  PROVE  HttpIInv'
<1> DEFINE p == child[c]
           f == BodyFile(p.url, p.etag)
<1>1. /\ Sound(p) /\ p \in ChildFrame /\ StoreTypes /\ Running(c) /\ Reading(p) /\ p.pc = "answered"
      /\ ~together => Backed(stored) /\ Backed(p.entries)
  BY RecordOf DEF WriteBody, ChildAt
<1>2. p.url \in Url /\ p.etag \in p.seen /\ p.etag \in Etag /\ p.etag # Absent /\ served[p.url] \in p.seen
  BY <1>1, HttpAssumption DEF Sound, Asking, ChildFrame
<1>3. UNCHANGED <<served, changes, stored, together>>
  BY DEF WriteBody
<1>4. CASE /\ body' = [body EXCEPT ![f] = p.etag] /\ young' = young \cup {f}
           /\ child' = [child EXCEPT ![c].pc = "kept"]
  <2>1. PICK q : q = [p EXCEPT !.pc = "kept"]
    OBVIOUS
  <2>2. child' = [child EXCEPT ![c] = q]
    BY <1>4, <2>1
  <2>3. /\ q.pc = "kept" /\ q.etag = p.etag /\ q.url = p.url /\ q.seen = p.seen /\ q.wrong = p.wrong
        /\ q.entries = p.entries /\ q.dropped = p.dropped /\ q.loaded = p.loaded
    BY <1>1, <2>1 DEF ChildFrame
  <2>4. q \in ChildFrame
    BY <1>1, <2>1 DEF ChildFrame, ChildStage
  <2>5. Sound(q)
    BY <1>1, <1>2, <2>3, <2>4 DEF Sound, Asking, Clean, Reading
  <2>6. f \in FileName /\ f[2] = p.etag
    BY <1>2, FileNames
  <2>7. StoreTypes'
    BY <1>1, <1>2, <1>3, <1>4, <2>6 DEF StoreTypes, BodiesOwn, Known
  <2>8. \A g \in FileName : body[g] # Absent => body'[g] # Absent
    BY <1>1, <1>2, <1>4, <2>6 DEF StoreTypes
  <2>9. stored \in [Url -> Known] /\ p.entries \in [Url -> Known]
    BY <1>1 DEF StoreTypes, ChildFrame
  <2>10. ~together => Backed(stored)' /\ Backed(q.entries)'
    BY <1>1, <1>3, <2>3, <2>8, <2>9, FileNames DEF Backed, Known
  <2>11. body'[BodyFile(q.url, q.etag)] # Absent
    BY <1>1, <1>2, <1>4, <2>3, <2>6 DEF StoreTypes
  <2> QED BY <1>1, <1>3, <2>2, <2>3, <2>5, <2>7, <2>10, <2>11, ProcessStep
<1>5. CASE /\ child' = [child EXCEPT ![c] = Returning(@, p.etag, FALSE)]
           /\ UNCHANGED <<body, young>>
  <2>1. PICK q : q = Returning(p, p.etag, FALSE)
    OBVIOUS
  <2>2. Sound(q) /\ q.pc = "ready" /\ q.entries = p.entries
    BY <1>1, <1>2, <2>1, ReturningIs DEF Known
  <2>3. StoreTypes' /\ (~together => Backed(stored)' /\ Backed(q.entries)')
    BY <1>1, <1>3, <1>5, <2>2, StoreSame
  <2> QED BY <1>1, <1>3, <1>5, <2>1, <2>2, <2>3, ProcessStep
<1> QED BY <1>4, <1>5 DEF WriteBody

LEMMA EnterBodyStep ==
  ASSUME HttpIInv, NEW c \in Child, EnterBody(c)
  PROVE  HttpIInv'
<1> DEFINE p == child[c]
           u == p.url
           e == p.etag
           old == p.entries[u]
           dropped == (IF old = Absent THEN p.dropped ELSE p.dropped \cup {BodyFile(u, old)}) \ {BodyFile(u, e)}
           r == Entered(p)
<1>1. /\ Sound(p) /\ p \in ChildFrame /\ StoreTypes /\ Running(c) /\ Reading(p) /\ p.pc = "kept"
      /\ ~together => Backed(stored) /\ Backed(p.entries)
  BY RecordOf DEF EnterBody, ChildAt
<1>2. u \in Url /\ e \in p.seen /\ e \in Etag /\ e # Absent
  BY <1>1, HttpAssumption DEF Sound, Asking, ChildFrame
<1>3. UNCHANGED <<served, changes, stored, body, young, together>>
  BY DEF EnterBody
<1>4. child' = [child EXCEPT ![c] = Returning(r, e, FALSE)]
  BY DEF EnterBody
<1>5. r.entries = [p.entries EXCEPT ![u] = e] /\ r.dropped = dropped /\ r.loaded = p.loaded /\ r.seen = p.seen
  BY <1>1 DEF Entered, ChildFrame
<1>6. dropped \in SUBSET FileName /\ old \in Known
  <2>1. old \in Known
    BY <1>1, <1>2 DEF ChildFrame
  <2>2. old # Absent => BodyFile(u, old) \in FileName
    BY <1>2, <2>1, FileNames DEF Known
  <2> QED BY <1>1, <2>1, <2>2 DEF ChildFrame
<1>7. r \in ChildFrame
  BY <1>1, <1>2, <1>6 DEF Entered, ChildFrame, Known
<1> HIDE DEF dropped
<1>8. \A v \in Url : r.entries[v] = IF v = u THEN e ELSE p.entries[v]
  BY <1>1, <1>5 DEF ChildFrame
<1> HIDE DEF r
<1>9. Clean(r)
  <2> SUFFICES ASSUME NEW v \in Url, r.entries[v] # Absent
               PROVE  BodyFile(v, r.entries[v]) \notin dropped
    BY <1>5 DEF Clean
  <2>1. CASE v = u
    BY <1>8, <2>1 DEF dropped
  <2>2. CASE v # u
    BY <1>1, <1>8, <2>2 DEF dropped, Reading, Clean, BodyFile
  <2> QED BY <2>1, <2>2
<1>10. Reading(r)
  BY <1>1, <1>5, <1>7, <1>9 DEF Reading
<1>11. PICK q : q = Returning(r, e, FALSE)
  OBVIOUS
<1>12. Sound(q) /\ q.pc = "ready" /\ q.entries = r.entries
  BY <1>2, <1>5, <1>10, <1>11, ReturningIs DEF Known
<1>13. ~together => Backed(stored) /\ Backed(q.entries)
  <2>1. ~together => body[BodyFile(u, e)] # Absent
    BY <1>1 DEF HttpIInv, Alone, ChildAt
  <2> QED BY <1>1, <1>8, <1>12, <2>1 DEF Backed
<1>14. StoreTypes' /\ (~together => Backed(stored)' /\ Backed(q.entries)')
  BY <1>1, <1>3, <1>13, StoreSame
<1> QED BY <1>1, <1>3, <1>4, <1>11, <1>12, <1>14, ProcessStep

LEMMA FlushStep ==
  ASSUME HttpIInv, NEW c \in Child, NEW evicted \in SUBSET Url, Flush(c, evicted)
  PROVE  HttpIInv'
<1> DEFINE p == child[c]
           kept == [u \in Url |-> IF u \in evicted THEN Absent ELSE p.entries[u]]
           gone == {BodyFile(u, p.entries[u]) : u \in evicted}
<1>1. /\ Sound(p) /\ p \in ChildFrame /\ StoreTypes /\ Running(c) /\ Reading(p)
      /\ ~together => Backed(stored) /\ Backed(p.entries)
  <2>1. Sound(p) /\ ChildAt(c, "ready") /\ p.dirty
    BY RecordOf DEF Flush
  <2> QED BY <2>1, RecordOf DEF Sound, ChildAt
<1>2. UNCHANGED <<served, changes, body, young, together>>
  BY DEF Flush
<1>3. kept \in [Url -> Known]
  BY <1>1 DEF ChildFrame, Known
<1>4. CASE /\ stored' = kept
           /\ child' = [child EXCEPT ![c] = [p EXCEPT !.pc = "removing", !.entries = kept,
                                                      !.dropped = @ \cup gone]]
  <2>1. PICK q : q = [p EXCEPT !.pc = "removing", !.entries = kept, !.dropped = @ \cup gone]
    OBVIOUS
  <2>2. child' = [child EXCEPT ![c] = q]
    BY <1>4, <2>1
  <2>3. gone \in SUBSET FileName
    BY <1>1, FileNames DEF Flush, ChildFrame, Known
  <2> HIDE DEF kept, gone
  <2>4. /\ q.pc = "removing" /\ q.entries = kept /\ q.dropped = p.dropped \cup gone
        /\ q.wrong = p.wrong /\ q.loaded = p.loaded
    BY <1>1, <2>1 DEF ChildFrame
  <2>5. q \in ChildFrame
    BY <1>1, <1>3, <2>1, <2>3 DEF ChildFrame, ChildStage
  <2>6. Clean(q)
    BY <1>1, <2>4 DEF Clean, Reading, BodyFile, kept, gone
  <2>7. Sound(q)
    BY <1>1, <2>4, <2>5, <2>6 DEF Sound, Asking, Reading
  <2>8. StoreTypes'
    BY <1>1, <1>2, <1>3, <1>4 DEF StoreTypes, BodiesOwn
  <2>9. ~together => Backed(stored)' /\ Backed(q.entries)'
    BY <1>1, <1>2, <1>4, <2>4 DEF Backed, kept
  <2> QED BY <1>1, <1>2, <1>4, <2>2, <2>4, <2>7, <2>8, <2>9, ProcessStep
<1>5. CASE child' = [child EXCEPT ![c] = Flushed] /\ UNCHANGED stored
  <2>1. StoreTypes' /\ (~together => Backed(stored)')
    BY <1>1, <1>2, <1>5, StoreSame
  <2>2. Backed(Flushed.entries)'
    BY Blank DEF Backed, NoEntries
  <2> QED BY <1>1, <1>2, <1>5, <2>1, <2>2, Blank, ProcessStep
<1> QED BY <1>4, <1>5 DEF Flush

LEMMA FlushNothingStep ==
  ASSUME HttpIInv, NEW c \in Child, FlushNothing(c)
  PROVE  HttpIInv'
<1>1. StoreTypes /\ Running(c) /\ (~together => Backed(stored))
  BY RecordOf DEF FlushNothing, ChildAt
<1>2. child' = [child EXCEPT ![c] = Flushed] /\ UNCHANGED <<served, changes, stored, body, young, together>>
  BY DEF FlushNothing
<1>3. StoreTypes' /\ (~together => Backed(stored)')
  BY <1>1, <1>2, StoreSame
<1>4. Backed(Flushed.entries)'
  BY Blank DEF Backed, NoEntries
<1> QED BY <1>1, <1>2, <1>3, <1>4, Blank, ProcessStep

\* Of the entries, alone in the store, no file is among the dropped ones ...
LEMMA RemoveDroppedStep ==
  ASSUME HttpIInv, NEW c \in Child, NEW f \in FileName, RemoveDropped(c, f)
  PROVE  HttpIInv'
<1> DEFINE p == child[c]
<1>1. /\ Sound(p) /\ p \in ChildFrame /\ StoreTypes /\ Running(c) /\ Reading(p) /\ p.pc = "removing"
      /\ ~together => Backed(stored) /\ Backed(p.entries) /\ stored = p.entries
  <2>1. p.pc = "removing"
    BY DEF RemoveDropped, ChildAt
  <2> QED BY <2>1, RecordOf DEF HttpIInv, Alone, ChildAt
<1>2. /\ f \in p.dropped /\ body' = [body EXCEPT ![f] = Absent] /\ young' = young \ {f}
      /\ UNCHANGED <<served, changes, stored, together>>
  BY DEF RemoveDropped
<1>3. PICK q : q = [p EXCEPT !.dropped = @ \ {f}]
  OBVIOUS
<1>4. child' = [child EXCEPT ![c] = q]
  BY <1>3 DEF RemoveDropped
<1>5. /\ q.pc = p.pc /\ q.entries = p.entries /\ q.dropped = p.dropped \ {f}
      /\ q.wrong = p.wrong /\ q.loaded = p.loaded
  BY <1>1, <1>3 DEF ChildFrame
<1>6. q \in ChildFrame
  BY <1>1, <1>3 DEF ChildFrame
<1>7. Sound(q)
  BY <1>1, <1>5, <1>6 DEF Sound, Asking, Clean, Reading
<1>8. StoreTypes'
  BY <1>1, <1>2 DEF StoreTypes, BodiesOwn, Known
<1>9. PICK entries : entries = p.entries
  OBVIOUS
<1>10. Backed(entries) => Backed(entries)'
  BY <1>1, <1>2, <1>9 DEF Backed, Reading, Clean, StoreTypes
<1>11. ~together => Backed(stored)' /\ Backed(q.entries)' /\ stored' = q.entries
  <2>1. q.entries = entries /\ (~together => stored' = entries /\ Backed(entries))
    BY <1>1, <1>2, <1>5, <1>9
  <2> QED BY <1>10, <2>1 DEF Backed
<1> QED BY <1>1, <1>2, <1>4, <1>5, <1>7, <1>8, <1>11, ProcessStep

\* ... nor among the strays.
LEMMA SweepStraysStep ==
  ASSUME HttpIInv, NEW c \in Child, SweepStrays(c)
  PROVE  HttpIInv'
<1> DEFINE p == child[c]
           owned == {BodyFile(u, p.entries[u]) : u \in {v \in Url : p.entries[v] # Absent}}
<1>1. /\ p \in ChildFrame /\ StoreTypes /\ Running(c)
      /\ ~together => Backed(p.entries) /\ stored = p.entries
  <2>1. p.pc = "removing"
    BY DEF SweepStrays, ChildAt
  <2> QED BY <2>1, RecordOf DEF HttpIInv, Alone, ChildAt
<1>2. /\ body' = [f \in FileName |-> IF f \in owned \cup young THEN body[f] ELSE Absent]
      /\ child' = [child EXCEPT ![c] = Flushed]
      /\ UNCHANGED <<served, changes, stored, young, together>>
  BY DEF SweepStrays
<1>3. StoreTypes'
  BY <1>1, <1>2 DEF StoreTypes, BodiesOwn, Known
<1>4. \A u \in Url : p.entries[u] # Absent => BodyFile(u, p.entries[u]) \in FileName \cap owned
  BY <1>1, FileNames DEF ChildFrame, Known
<1>5. ~together => Backed(stored)'
  <2> HIDE DEF owned
  <2> QED BY <1>1, <1>2, <1>4 DEF Backed
<1>6. Backed(Flushed.entries)'
  BY Blank DEF Backed, NoEntries
<1> QED BY <1>1, <1>2, <1>3, <1>5, <1>6, Blank, ProcessStep

(***************************************************************************)
(* Processes that begin and end, and the server.                           *)
(***************************************************************************)

LEMMA LaunchedStep ==
  ASSUME HttpIInv, NEW c \in Child, Launched(c)
  PROVE  HttpIInv'
<1>1. PICK q : q = [NoProcess EXCEPT !.pc = "ready"]
  OBVIOUS
<1>2. Sound(q) /\ NoEntries(q) /\ q.pc = "ready"
  BY <1>1, Blank
<1>3. /\ child' \in [Child -> ChildFrame] /\ child'[c] = q /\ \A d \in Child \ {c} : child'[d] = child[d]
      /\ UNCHANGED <<served, changes, stored, body, young>>
      /\ together' = (together \/ \E d \in Child \ {c} : Running(d))
  BY <1>1, <1>2 DEF HttpIInv, Launched, Sound
<1>4. \A d \in Child : Sound(child[d])'
  BY <1>2, <1>3 DEF HttpIInv, Sound, Asking, Clean, NoEntries
<1>5. StoreTypes'
  <2>1. together' \in BOOLEAN
    <3>1. (together \/ \E d \in Child \ {c} : Running(d)) \in BOOLEAN
      BY Zenon
    <3> QED BY <1>3, <3>1
  <2> QED BY <1>3, <2>1 DEF HttpIInv, StoreTypes, BodiesOwn
<1>6. Alone'
  <2> SUFFICES ASSUME ~together'
               PROVE  /\ \A d, e \in Child : (Running(d) /\ Running(e) => d = e)'
                      /\ Backed(stored)'
                      /\ \A d \in Child :
                           /\ Backed(child[d].entries)'
                           /\ (ChildAt(d, "kept") => body[BodyFile(child[d].url, child[d].etag)] # Absent)'
                           /\ (ChildAt(d, "removing") => stored = child[d].entries)'
    BY DEF Alone
  <2>1. ~together /\ \A d \in Child \ {c} : ~Running(d)
    BY <1>3
  <2>2. \A d \in Child \ {c} : child'[d].pc = "gone" /\ NoEntries(child'[d])
    BY <1>3, <2>1 DEF HttpIInv, Sound, Running, ChildAt
  <2>3. \A d, e \in Child : (Running(d) /\ Running(e) => d = e)'
    BY <2>2 DEF Running, ChildAt
  <2>4. Backed(stored)'
    BY <1>3, <2>1 DEF HttpIInv, Alone, Backed
  <2>5. \A d \in Child : Backed(child[d].entries)'
    BY <1>2, <1>3, <2>2 DEF Backed, NoEntries
  <2>6. \A d \in Child : child'[d].pc \in {"gone", "ready"}
    BY <1>2, <1>3, <2>2
  <2> QED BY <2>3, <2>4, <2>5, <2>6 DEF ChildAt
<1> QED BY <1>3, <1>4, <1>5, <1>6 DEF HttpIInv

LEMMA EndedStep ==
  ASSUME HttpIInv, NEW cs, Ended(cs)
  PROVE  HttpIInv'
<1>1. /\ child' \in [Child -> ChildFrame]
      /\ \A d \in Child : child'[d] = IF d \in cs THEN NoProcess ELSE child[d]
      /\ UNCHANGED <<served, changes, stored, body, young, together>>
  BY Blank DEF HttpIInv, Ended, Sound
<1>2. \A d \in Child : Sound(child[d])'
  BY <1>1, Blank DEF HttpIInv, Sound, Asking, Clean, NoEntries
<1>3. StoreTypes' /\ (Backed(stored) => Backed(stored)')
  BY <1>1, StoreSame DEF HttpIInv
<1>4. Alone'
  <2>1. ASSUME NEW d \in Child, d \in cs
        PROVE  child'[d].pc = "gone" /\ NoEntries(child'[d])
    BY <1>1, <2>1, Blank
  <2>2. ASSUME NEW d \in Child, d \notin cs
        PROVE  child'[d] = child[d]
    BY <1>1, <2>2
  <2>3. ASSUME NEW d \in Child, Backed(child[d].entries)
        PROVE  Backed(child[d].entries)'
    BY <1>1, <2>1, <2>2, <2>3 DEF Backed, NoEntries
  <2>4. ASSUME ~together
        PROVE  \A d, e \in Child : (Running(d) /\ Running(e) => d = e)'
    BY <2>1, <2>2, <2>4 DEF HttpIInv, Alone, Running, ChildAt
  <2>5. ASSUME ~together, NEW d \in Child
        PROVE  /\ (ChildAt(d, "kept") => body[BodyFile(child[d].url, child[d].etag)] # Absent)'
               /\ (ChildAt(d, "removing") => stored = child[d].entries)'
    BY <1>1, <2>1, <2>2, <2>5 DEF HttpIInv, Alone, ChildAt
  <2> QED BY <1>1, <1>3, <2>3, <2>4, <2>5 DEF HttpIInv, Alone
<1> QED BY <1>1, <1>2, <1>3, <1>4 DEF HttpIInv

LEMMA ServerChangesStep ==
  ASSUME HttpIInv, NEW u \in Url, NEW e \in Etag, ServerChanges(u, e)
  PROVE  HttpIInv'
<1>1. /\ changes < MaxChanges /\ changes' = changes + 1 /\ served' = [served EXCEPT ![u] = e]
      /\ child' = [d \in Child |-> child'[d]]
      /\ \A d \in Child : child'[d] = IF child[d].url = u THEN [child[d] EXCEPT !.seen = @ \cup {e}]
                                      ELSE child[d]
      /\ UNCHANGED <<stored, body, young, together>>
  BY DEF HttpIInv, ServerChanges
<1>2. StoreTypes'
  BY <1>1, HttpAssumption DEF HttpIInv, StoreTypes, BodiesOwn
<1>3. ASSUME NEW d \in Child
      PROVE  /\ Sound(child[d])'
             /\ child'[d].pc = child[d].pc /\ child'[d].entries = child[d].entries
             /\ child'[d].url = child[d].url /\ child'[d].etag = child[d].etag
  <2> PICK p, q : p = child[d] /\ q = child'[d]
    OBVIOUS
  <2>1. Sound(p) /\ p \in ChildFrame /\ served \in [Url -> Etag]
    BY DEF HttpIInv, Sound, StoreTypes
  <2>2. q = IF p.url = u THEN [p EXCEPT !.seen = @ \cup {e}] ELSE p
    BY <1>1
  <2>3. /\ q.pc = p.pc /\ q.loaded = p.loaded /\ q.entries = p.entries /\ q.dirty = p.dirty
        /\ q.dropped = p.dropped /\ q.url = p.url /\ q.etag = p.etag /\ q.retry = p.retry
        /\ q.same = p.same /\ q.wrong = p.wrong
        /\ q.seen = IF p.url = u THEN p.seen \cup {e} ELSE p.seen
    BY <2>1, <2>2 DEF ChildFrame
  <2>4. q \in ChildFrame
    BY <2>1, <2>2 DEF ChildFrame
  <2>5. q.pc \in {"sent", "answered", "kept"} => q.url \in Url /\ served'[q.url] \in q.seen
    BY <1>1, <2>1, <2>3 DEF Sound, Asking
  <2>6. Asking(q)'
    BY <2>1, <2>3, <2>5 DEF Sound, Asking
  <2>7. Sound(q)'
    BY <2>1, <2>3, <2>4, <2>6 DEF Sound, Clean, NoEntries
  <2> QED BY <2>3, <2>7
<1>4. Alone'
  BY <1>1, <1>3 DEF HttpIInv, Alone, Backed, Running, ChildAt
<1>5. child' \in [Child -> ChildFrame]
  <2>1. \A d \in Child : child'[d] \in ChildFrame
    BY <1>3 DEF Sound
  <2> QED BY <1>1, <2>1
<1> QED BY <1>1, <1>2, <1>3, <1>4, <1>5 DEF HttpIInv

LEMMA NextDayStep ==
  ASSUME HttpIInv, NextDay
  PROVE  HttpIInv'
BY DEF NextDay, HttpIInv, Sound, Asking, Clean, NoEntries, StoreTypes, BodiesOwn, Alone, Backed, Running, ChildAt

LEMMA HttpInitInv == HttpInit => HttpIInv
<1> SUFFICES ASSUME HttpInit
             PROVE  HttpIInv
  OBVIOUS
<1>1. served \in [Url -> Etag]
  BY HttpAssumption DEF HttpInit
<1>2. ASSUME NEW f \in FileName
      PROVE  body[f] \in Known /\ body[f] \in {f[2], Absent}
  BY DEF HttpInit, FileName, BodyFile, Known
<1>3. StoreTypes
  <2>1. changes \in 0..MaxChanges /\ young \in SUBSET FileName /\ stored \in [Url -> Known]
    BY HttpAssumption DEF HttpInit
  <2>2. together \in BOOLEAN
    BY DEF HttpInit
  <2>3. body \in [FileName -> Known]
    BY <1>2 DEF HttpInit
  <2> QED BY <1>1, <1>2, <2>1, <2>2, <2>3 DEF StoreTypes, BodiesOwn
<1>4. child \in [Child -> ChildFrame] /\ \A c \in Child : child[c] = NoProcess
  BY Blank DEF HttpInit, Sound
<1>5. Backed(stored)
  <2>1. ASSUME NEW u \in Url, stored[u] # Absent
        PROVE  body[BodyFile(u, stored[u])] # Absent
    <3>1. stored[u] \in Etag
      BY <2>1 DEF HttpInit, Known
    <3>2. BodyFile(u, stored[u]) \in FileName /\ BodyFile(u, stored[u])[1] = u
      BY <3>1, FileNames
    <3> QED BY <2>1, <3>2 DEF HttpInit
  <2> QED BY <2>1 DEF Backed
<1>6. Alone
  BY <1>4, <1>5, Blank DEF Alone, Running, ChildAt, Backed, NoEntries
<1> QED BY <1>3, <1>4, <1>6, Blank DEF HttpIInv

LEMMA RequestingStep ==
  ASSUME HttpIInv, NEW c \in Child, Requesting(c) \/ Flushing(c)
  PROVE  HttpIInv' /\ Running(c) /\ \A d \in Child \ {c} : child'[d] = child[d]
<1>1. HttpIInv'
  BY SendStep, RespondStep, RequestErrorStep, RevalidatedStep, WriteBodyStep, EnterBodyStep,
     FlushStep, FlushNothingStep, RemoveDroppedStep, SweepStraysStep DEF Requesting, Flushing
<1>2. Running(c)
  BY DEF Requesting, Flushing, Send, Respond, RequestError, Revalidated, WriteBody, EnterBody,
     Flush, FlushNothing, RemoveDropped, SweepStrays, Running, ChildAt
<1>3. ASSUME NEW d \in Child \ {c}
      PROVE  child'[d] = child[d]
  <2>1. CASE Requesting(c)
    BY <2>1 DEF HttpIInv, Requesting, Send, Respond, RequestError, Revalidated, WriteBody, EnterBody
  <2>2. CASE Flushing(c)
    BY <2>2 DEF HttpIInv, Flushing, Flush, FlushNothing, RemoveDropped, SweepStrays
  <2> QED BY <2>1, <2>2
<1> QED BY <1>1, <1>2, <1>3

LEMMA WorldStep ==
  ASSUME HttpIInv, World
  PROVE  HttpIInv' /\ \A c \in Child : Running(c)' <=> Running(c)
<1>1. CASE NextDay
  BY <1>1, NextDayStep DEF NextDay, Running, ChildAt
<1>2. ASSUME NEW u \in Url, NEW e \in Etag, ServerChanges(u, e)
      PROVE  HttpIInv' /\ \A c \in Child : Running(c)' <=> Running(c)
  <2>1. \A c \in Child : child'[c].pc = child[c].pc
    BY <1>2 DEF ServerChanges, HttpIInv, Sound, ChildFrame
  <2> QED BY <1>2, <2>1, ServerChangesStep DEF Running, ChildAt
<1> QED BY <1>1, <1>2 DEF World

LEMMA HttpSame ==
  ASSUME HttpIInv, UNCHANGED httpVars
  PROVE  HttpIInv' /\ \A c \in Child : Running(c)' <=> Running(c)
BY DEF httpVars, HttpIInv, Sound, Asking, Clean, NoEntries, StoreTypes, BodiesOwn, Alone, Backed, Running, ChildAt

LEMMA HttpTypes == HttpIInv => HttpTypeOK /\ ResponsesTrue
<1> SUFFICES ASSUME HttpIInv
             PROVE  HttpTypeOK /\ ResponsesTrue
  OBVIOUS
<1>1. ASSUME ~together
      PROVE  Backed(stored)
  BY <1>1 DEF HttpIInv, Alone
<1>2. \A c \in Child : child[c] \in ChildFrame /\ child[c].wrong = {}
  BY DEF HttpIInv, Sound
<1>3. child \in [Child -> ChildFrame]
  BY DEF HttpIInv
<1> QED BY <1>1, <1>2, <1>3 DEF HttpIInv, StoreTypes, HttpTypeOK, ResponsesTrue, ServedWasCurrent, NeverNothing,
     IndexedIsThere, Backed

(***************************************************************************)
(* GatherChild: the worker and its process.                                *)
(***************************************************************************)

\* How far a worker is with its process.  An exit code is that of a process which has
\* ended and gathered what the code says.
DriveHolds(c) ==
  /\ drive[c].pc # "returned" => drive[c].outcome = "none"
  /\ drive[c].pc = "returned" => ~Running(c) \/ c \in doomed
  /\ drive[c].outcome = "gathered" => finished[c] = "gathered" /\ ~Running(c)
  /\ drive[c].pc \in {"pumping", "waiting"} => c \in registered
  /\ drive[c].code # "no" => ~Running(c)
  /\ drive[c].code = "gathered" => finished[c] = "gathered"
  /\ c \in reap.listed \ reap.left => ~Running(c) \/ c \in doomed

DriveTypes ==
  /\ spawns \in 0..MaxSpawns
  /\ drive \in [Child -> Drive] /\ finished \in [Child -> GatherEnd]
  /\ registered \in SUBSET Child /\ doomed \in SUBSET Child /\ reap \in Reap

ChildIInv == HttpIInv /\ DriveTypes /\ \A c \in Child : DriveHolds(c)

LEMMA NoDriveIs == NoDrive \in Drive /\ NoDrive.pc = "idle" /\ NoDrive.code = "no" /\ NoDrive.outcome = "none"
  BY DEF NoDrive, Drive, DriveStage, GatherEnd, Outcome

\* A step that starts no process and leaves the workers and the ends alone.
LEMMA DriveSame ==
  ASSUME ChildIInv, HttpIInv', UNCHANGED <<serverSide, drive, finished, doomed>>,
         \A c \in Child : Running(c)' => Running(c)
  PROVE  ChildIInv'
BY DEF ChildIInv, DriveTypes, DriveHolds, serverSide

LEMMA CutIs ==
  ASSUME HttpIInv, NEW c \in Child, Cut(c), finished \in [Child -> GatherEnd]
  PROVE  /\ HttpIInv' /\ finished' \in [Child -> GatherEnd] /\ doomed' = doomed
         /\ ~Running(c)' /\ finished'[c] = "no"
         /\ \A d \in Child \ {c} : (Running(d)' <=> Running(d)) /\ finished'[d] = finished[d]
<1>1. HttpIInv'
  BY EndedStep DEF Cut
<1>2. \A d \in Child : child'[d] = IF d = c THEN NoProcess ELSE child[d]
  BY DEF Cut, Ended
<1>3. NoProcess.pc = "gone"
  BY Blank
<1>4. finished' = [finished EXCEPT ![c] = "no"] /\ doomed' = doomed
  BY DEF Cut
<1>5. finished' \in [Child -> GatherEnd]
  BY <1>4 DEF GatherEnd
<1> QED BY <1>1, <1>2, <1>3, <1>4, <1>5 DEF Running, ChildAt

\* The process of c is terminated: it ends, or it is stuck under its kill.
LEMMA TerminatedIs ==
  ASSUME ChildIInv, NEW c \in Child, Cut(c) \/ Stuck(c)
  PROVE  /\ HttpIInv' /\ finished' \in [Child -> GatherEnd] /\ doomed' \in SUBSET Child /\ doomed \subseteq doomed'
         /\ ~Running(c)' \/ c \in doomed'
         /\ \A d \in Child \ {c} : (Running(d)' <=> Running(d)) /\ finished'[d] = finished[d]
<1>1. HttpIInv /\ finished \in [Child -> GatherEnd] /\ doomed \in SUBSET Child
  BY DEF ChildIInv, DriveTypes
<1>2. CASE Cut(c)
  BY <1>1, <1>2, CutIs
<1>3. CASE Stuck(c)
  BY <1>1, <1>3, HttpSame DEF Stuck
<1> QED BY <1>2, <1>3

\* What an exit code does to the workers.
LEMMA ExitedIs ==
  ASSUME DriveTypes, NEW c \in Child, NEW code \in GatherEnd \cup {"signal"}, Exited(c, code)
  PROVE  /\ drive' \in [Child -> Drive]
         /\ \A d \in Child \ {c} : drive'[d] = drive[d]
         /\ drive'[c].pc = drive[c].pc /\ drive'[c].outcome = drive[c].outcome
         /\ drive'[c].code \in {drive[c].code, code}
<1>1. drive[c] \in Drive /\ drive \in [Child -> Drive]
  BY DEF DriveTypes
<1>2. CASE drive' = drive
  BY <1>1, <1>2
<1>3. CASE drive' = [drive EXCEPT ![c].code = code]
  BY <1>1, <1>3 DEF Drive
<1> QED BY <1>2, <1>3 DEF Exited

LEMMA WorkerStep ==
  ASSUME ChildIInv, NEW c \in Child, Worker(c)
  PROVE  ChildIInv'
<1> USE DEF ChildIInv, DriveTypes
<1>0. HttpIInv /\ DriveTypes /\ DriveHolds(c) /\ drive[c] \in Drive /\ reap \in Reap
  OBVIOUS
<1>1. CASE /\ Spawn(c) /\ Launched(c)
           /\ drive' = [drive EXCEPT ![c] = [NoDrive EXCEPT !.pc = "spawned"]]
           /\ finished' = [finished EXCEPT ![c] = "no"]
           /\ doomed' = doomed \ {c}
           /\ reap' = [reap EXCEPT !.listed = @ \ {c}, !.left = @ \ {c}]
  <2> PICK q : q = [NoDrive EXCEPT !.pc = "spawned"]
    OBVIOUS
  <2>1. /\ q \in Drive /\ q.pc = "spawned" /\ q.code = "no" /\ q.outcome = "none"
    BY NoDriveIs DEF Drive, DriveStage
  <2>2. /\ drive' = [drive EXCEPT ![c] = q] /\ finished' = [finished EXCEPT ![c] = "no"]
        /\ spawns < MaxSpawns /\ spawns' = spawns + 1 /\ registered' = registered
        /\ doomed' = doomed \ {c}
    BY <1>1 DEF Spawn
  <2>3. HttpIInv' /\ \A d \in Child \ {c} : child'[d] = child[d]
    BY <1>1, LaunchedStep DEF Launched, HttpIInv
  <2>4. reap' \in Reap /\ reap'.listed = reap.listed \ {c} /\ reap'.left = reap.left \ {c}
    BY <1>0, <1>1 DEF Reap
  <2>5. DriveTypes'
    BY <2>1, <2>2, <2>4, ChildAssumption DEF GatherEnd
  <2>6. ASSUME NEW d \in Child \ {c}
        PROVE  DriveHolds(d)'
    BY <2>2, <2>3, <2>4, <2>6 DEF DriveHolds, Running, ChildAt
  <2>7. DriveHolds(c)'
    BY <2>1, <2>2, <2>4 DEF DriveHolds
  <2> QED BY <2>3, <2>5, <2>6, <2>7
<1>2. CASE /\ Spawn(c) /\ UNCHANGED <<finished, doomed, reap, httpVars>>
           /\ drive' = [drive EXCEPT ![c] = [NoDrive EXCEPT !.pc = "returned", !.outcome = "error"]]
  <2> PICK q : q = [NoDrive EXCEPT !.pc = "returned", !.outcome = "error"]
    OBVIOUS
  <2>1. /\ q \in Drive /\ q.pc = "returned" /\ q.code = "no" /\ q.outcome = "error"
    BY NoDriveIs DEF Drive, DriveStage, Outcome
  <2>2. /\ drive' = [drive EXCEPT ![c] = q] /\ finished' = finished /\ doomed' = doomed /\ reap' = reap
        /\ spawns < MaxSpawns /\ spawns' = spawns + 1 /\ registered' = registered /\ ~Running(c)
    BY <1>2 DEF Spawn
  <2>3. HttpIInv' /\ \A d \in Child : Running(d)' <=> Running(d)
    BY <1>2, HttpSame
  <2>4. DriveTypes'
    BY <2>1, <2>2, ChildAssumption
  <2>5. ASSUME NEW d \in Child
        PROVE  DriveHolds(d)'
    BY <2>1, <2>2, <2>3, <2>5 DEF DriveHolds
  <2> QED BY <2>3, <2>4, <2>5
<1>3. CASE Register(c) \/ EndOfPipe(c)
  <2>1. PICK pc \in {"pumping", "waiting"} :
          /\ drive' = [drive EXCEPT ![c].pc = pc] /\ registered' = registered \cup {c}
          /\ drive[c].pc # "returned" /\ UNCHANGED <<spawns, reap, finished, doomed, httpVars>>
    BY <1>3 DEF Register, EndOfPipe, DriveHolds, DriveAt, serverSide
  <2>2. HttpIInv' /\ \A d \in Child : Running(d)' <=> Running(d)
    BY <2>1, HttpSame
  <2>3. DriveTypes'
    BY <2>1 DEF Drive, DriveStage
  <2>4. ASSUME NEW d \in Child
        PROVE  DriveHolds(d)'
    BY <2>1, <2>2, <2>4 DEF DriveHolds, Drive
  <2> QED BY <2>2, <2>3, <2>4
<1>4. CASE Stop(c) \/ NoReader(c)
  <2>1. PICK outcome \in {"cancelled", "error"} :
          Give(c, outcome) /\ (Cut(c) \/ Stuck(c)) /\ UNCHANGED <<spawns, reap>>
    BY <1>4 DEF Stop, NoReader
  <2> PICK q : q = [pc |-> "returned", code |-> "no", outcome |-> outcome]
    OBVIOUS
  <2>2. q \in Drive /\ q.pc = "returned" /\ q.code = "no" /\ q.outcome \in {"cancelled", "error"}
    BY DEF Drive, DriveStage, GatherEnd, Outcome
  <2>3. drive' = [drive EXCEPT ![c] = q] /\ registered' = registered \ {c} /\ spawns' = spawns /\ reap' = reap
    BY <2>1 DEF Give
  <2>4. /\ HttpIInv' /\ finished' \in [Child -> GatherEnd] /\ doomed' \in SUBSET Child /\ doomed \subseteq doomed'
        /\ ~Running(c)' \/ c \in doomed'
        /\ \A d \in Child \ {c} : (Running(d)' <=> Running(d)) /\ finished'[d] = finished[d]
    BY <2>1, TerminatedIs
  <2>5. DriveTypes'
    BY <2>2, <2>3, <2>4
  <2>6. ASSUME NEW d \in Child
        PROVE  DriveHolds(d)'
    BY <2>2, <2>3, <2>4, <2>6 DEF DriveHolds
  <2> QED BY <2>4, <2>5, <2>6
<1>5. CASE Collect(c)
  <2> PICK q : q = [pc |-> "returned", code |-> "no", outcome |-> OutcomeOf(drive[c].code)]
    OBVIOUS
  <2>1. q \in Drive /\ q.pc = "returned" /\ q.code = "no" /\ q.outcome = OutcomeOf(drive[c].code)
    BY DEF Drive, DriveStage, GatherEnd, Outcome, OutcomeOf
  <2>2. /\ drive' = [drive EXCEPT ![c] = q] /\ registered' = registered \ {c} /\ ~Running(c)
        /\ UNCHANGED <<spawns, reap, finished, doomed, httpVars>>
    BY <1>5 DEF Collect, Give
  <2>3. HttpIInv' /\ \A d \in Child : Running(d)' <=> Running(d)
    BY <2>2, HttpSame
  <2>4. DriveTypes'
    BY <2>1, <2>2
  <2>5. q.outcome = "gathered" => finished[c] = "gathered"
    BY <1>0, <2>1 DEF OutcomeOf, DriveHolds
  <2>6. ASSUME NEW d \in Child
        PROVE  DriveHolds(d)'
    BY <2>1, <2>2, <2>3, <2>5, <2>6 DEF DriveHolds
  <2> QED BY <2>3, <2>4, <2>6
<1> QED BY <1>1, <1>2, <1>3, <1>4, <1>5 DEF Worker, Spawn

\* The process of c, which runs, ends, and with it what its worker waits for.
LEMMA KilledIs ==
  ASSUME ChildIInv, NEW c \in Child, Running(c), Cut(c), Exited(c, "signal"),
         UNCHANGED <<spawns, registered>>, reap' \in Reap, reap'.listed = reap.listed,
         reap'.left \in {reap.left, reap.left \ {c}}
  PROVE  ChildIInv'
<1> USE DEF ChildIInv, DriveTypes
<1>1. /\ HttpIInv' /\ finished' \in [Child -> GatherEnd] /\ doomed' = doomed
      /\ ~Running(c)' /\ finished'[c] = "no"
      /\ \A d \in Child \ {c} : (Running(d)' <=> Running(d)) /\ finished'[d] = finished[d]
  BY CutIs
<1>2. /\ drive' \in [Child -> Drive] /\ \A d \in Child \ {c} : drive'[d] = drive[d]
      /\ drive'[c].pc = drive[c].pc /\ drive'[c].outcome = drive[c].outcome
      /\ drive'[c].code \in {drive[c].code, "signal"}
  BY ExitedIs
<1>3. DriveHolds(c) /\ drive[c].outcome # "gathered" /\ drive[c].code = "no"
  BY DEF DriveHolds
<1>4. DriveTypes'
  BY <1>1, <1>2
<1>5. DriveHolds(c)'
  BY <1>1, <1>2, <1>3 DEF DriveHolds
<1>6. ASSUME NEW d \in Child \ {c}
      PROVE  DriveHolds(d)'
  BY <1>1, <1>2, <1>6 DEF DriveHolds
<1> QED BY <1>1, <1>4, <1>5, <1>6

LEMMA LifeStep ==
  ASSUME ChildIInv, NEW c \in Child, Life(c)
  PROVE  ChildIInv'
<1> USE DEF ChildIInv, DriveTypes
<1>0. HttpIInv /\ DriveTypes /\ DriveHolds(c) /\ drive[c] \in Drive
  OBVIOUS
<1>1. CASE Gathering(c) \/ Leaving(c)
  <2>1. HttpIInv' /\ Running(c) /\ \A d \in Child \ {c} : child'[d] = child[d]
    BY <1>1, RequestingStep DEF Gathering, Leaving
  <2>2. \A d \in Child : Running(d)' => Running(d)
    BY <2>1 DEF Running, ChildAt
  <2> QED BY <1>1, <2>1, <2>2, DriveSame DEF Gathering, Leaving
<1>2. ASSUME NEW how \in GatherEnd \ {"no"}, FinishGather(c, how)
      PROVE  ChildIInv'
  <2>1. /\ Running(c) /\ finished' = [finished EXCEPT ![c] = how]
        /\ UNCHANGED <<spawns, registered, reap, drive, doomed, httpVars>>
    BY <1>2 DEF FinishGather, PipeOpen, serverSide
  <2>2. HttpIInv' /\ \A d \in Child : Running(d)' <=> Running(d)
    BY <2>1, HttpSame
  <2>3. drive[c].outcome # "gathered" /\ drive[c].code = "no"
    BY <2>1 DEF DriveHolds
  <2>4. ASSUME NEW d \in Child
        PROVE  DriveHolds(d)'
    BY <2>1, <2>2, <2>3, <2>4 DEF DriveHolds
  <2> QED BY <2>1, <2>2, <2>4
<1>3. CASE Leave(c)
  <2>1. /\ Running(c) /\ Ended({c}) /\ Exited(c, finished[c])
        /\ UNCHANGED <<spawns, registered, reap, finished, doomed>>
    BY <1>3 DEF Leave, Running, ChildAt, serverSide
  <2>2. HttpIInv'
    BY <2>1, EndedStep
  <2>3. ~Running(c)' /\ \A d \in Child \ {c} : child'[d] = child[d]
    BY <2>1, Blank DEF Ended, Running, ChildAt
  <2>4. /\ drive' \in [Child -> Drive] /\ \A d \in Child \ {c} : drive'[d] = drive[d]
        /\ drive'[c].pc = drive[c].pc /\ drive'[c].outcome = drive[c].outcome
        /\ drive'[c].code \in {drive[c].code, finished[c]}
    BY <2>1, ExitedIs
  <2>5. DriveTypes'
    BY <2>1, <2>4
  <2>6. DriveHolds(c)'
    BY <1>0, <2>1, <2>3, <2>4 DEF DriveHolds
  <2>7. ASSUME NEW d \in Child \ {c}
        PROVE  DriveHolds(d)'
    BY <2>1, <2>3, <2>4, <2>7 DEF DriveHolds, Running, ChildAt
  <2> QED BY <2>2, <2>5, <2>6, <2>7
<1>4. CASE Killed(c)
  BY <1>0, <1>4, KilledIs DEF Killed, serverSide
<1> QED BY <1>1, <1>2, <1>3, <1>4 DEF Life

LEMMA ServerStep ==
  ASSUME ChildIInv, Server \/ Elsewhere
  PROVE  ChildIInv'
<1> USE DEF ChildIInv, DriveTypes
<1>0. HttpIInv /\ DriveTypes /\ reap \in Reap
  OBVIOUS
<1>1. CASE ExitBegins
  <2>1. /\ reap' \in Reap /\ reap'.listed = registered /\ reap'.left = registered
        /\ UNCHANGED <<spawns, registered, drive, finished, doomed, httpVars>>
    BY <1>0, <1>1 DEF ExitBegins, Reap
  <2>2. HttpIInv' /\ \A d \in Child : Running(d)' <=> Running(d)
    BY <2>1, HttpSame
  <2>3. ASSUME NEW d \in Child
        PROVE  DriveHolds(d)'
    BY <2>1, <2>2, <2>3 DEF DriveHolds
  <2> QED BY <2>1, <2>2, <2>3
<1>2. ASSUME NEW c \in Child, ReapNext(c)
      PROVE  ChildIInv'
  <2>1. /\ reap' \in Reap /\ reap'.listed = reap.listed /\ reap'.left = reap.left \ {c}
        /\ UNCHANGED <<spawns, registered>>
    BY <1>0, <1>2 DEF ReapNext, Reap
  <2>2. CASE ~Running(c) /\ UNCHANGED <<drive, finished, doomed, httpVars>>
    <3>1. HttpIInv' /\ \A d \in Child : Running(d)' <=> Running(d)
      BY <2>2, HttpSame
    <3>2. ASSUME NEW d \in Child
          PROVE  DriveHolds(d)'
      BY <2>1, <2>2, <3>1, <3>2 DEF DriveHolds
    <3> QED BY <2>1, <2>2, <3>1, <3>2
  <2>3. CASE Running(c) /\ Cut(c) /\ Exited(c, "signal")
    BY <2>1, <2>3, KilledIs
  <2>4. CASE Stuck(c) /\ UNCHANGED drive
    <3>1. doomed' = doomed \cup {c} /\ UNCHANGED <<drive, finished, httpVars>>
      BY <2>4 DEF Stuck
    <3>2. HttpIInv' /\ \A d \in Child : Running(d)' <=> Running(d)
      BY <3>1, HttpSame
    <3>3. ASSUME NEW d \in Child
          PROVE  DriveHolds(d)'
      BY <2>1, <3>1, <3>2, <3>3 DEF DriveHolds
    <3> QED BY <2>1, <3>1, <3>2, <3>3
  <2> QED BY <1>2, <2>2, <2>3, <2>4 DEF ReapNext
<1>3. CASE ExitEnds \/ ServerDies
  <2>1. /\ registered' = {} /\ drive' = [c \in Child |-> NoDrive] /\ reap' = NoReap
        /\ UNCHANGED <<spawns, finished, doomed, httpVars>>
    BY <1>3 DEF ExitEnds, ServerDies, ServerGone
  <2>2. HttpIInv'
    BY <2>1, HttpSame
  <2>3. reap' \in Reap /\ reap'.listed = {}
    BY <2>1 DEF NoReap, Reap
  <2>4. DriveTypes'
    BY <2>1, <2>3, NoDriveIs
  <2>5. ASSUME NEW c \in Child
        PROVE  DriveHolds(c)'
    BY <2>1, <2>3, <2>5, NoDriveIs DEF DriveHolds
  <2> QED BY <2>2, <2>4, <2>5
<1>4. CASE Elsewhere
  BY <1>4, WorldStep, DriveSame DEF Elsewhere
<1> QED BY <1>1, <1>2, <1>3, <1>4 DEF Server

LEMMA ChildInductive == ChildSpec => []ChildIInv
<1>1. ChildInit => ChildIInv
  <2> SUFFICES ASSUME ChildInit
               PROVE  ChildIInv
    OBVIOUS
  <2>1. HttpIInv
    BY HttpInitInv DEF ChildInit
  <2>2. DriveTypes
    BY NoDriveIs, ChildAssumption DEF ChildInit, DriveTypes, GatherEnd, NoReap, Reap
  <2>3. ASSUME NEW c \in Child
        PROVE  DriveHolds(c)
    BY <2>3, NoDriveIs DEF ChildInit, DriveHolds, NoReap
  <2> QED BY <2>1, <2>2, <2>3 DEF ChildIInv
<1>2. ChildIInv /\ [ChildNext]_childVars => ChildIInv'
  <2> SUFFICES ASSUME ChildIInv, [ChildNext]_childVars
               PROVE  ChildIInv'
    OBVIOUS
  <2>1. CASE UNCHANGED childVars
    <3>1. UNCHANGED <<serverSide, drive, finished, doomed>> /\ UNCHANGED httpVars
      BY <2>1 DEF childVars
    <3> QED BY <3>1, HttpSame, DriveSame DEF ChildIInv
  <2> QED BY <2>1, WorkerStep, LifeStep, ServerStep DEF ChildNext
<1> QED BY <1>1, <1>2, PTL DEF ChildSpec

\* Any number of processes over one store: a worker reports what a process that is
\* over has gathered and leaves none running that it could have ended; and an orderly
\* exit of the server, while the workers go on, ends each process that it listed and
\* lists each that is registered, but for those that do not die of their kill.
THEOREM ChildrenEndInOrder == ChildSpec => []ChildInv
<1>1. ASSUME ChildIInv
      PROVE  ChildInv
  <2>1. \A c \in Child : DriveHolds(c)
    BY <1>1 DEF ChildIInv
  <2>2. ChildTypeOK
    BY <1>1, HttpTypes DEF ChildIInv, DriveTypes, ChildTypeOK
  <2>3. GatheredWhenOver /\ NothingLeftRunning
    BY <2>1 DEF DriveHolds, GatheredWhenOver, NothingLeftRunning, DriveAt
  <2>4. ReapedAtExit
    <3>1. reap.listed \in SUBSET Child
      BY <1>1 DEF ChildIInv, DriveTypes, Reap
    <3> QED BY <2>1, <3>1 DEF DriveHolds, ReapedAtExit
  <2> QED BY <2>2, <2>3, <2>4 DEF ChildInv
<1> QED BY <1>1, ChildInductive, PTL

\* What a request returns is what the server had meanwhile and never nothing, for any
\* number of processes that share the store, each with an index of its own; and the
\* index names what is there as long as processes do not overlap.
THEOREM ResponsesAreTrue == ChildSpec => []ResponsesTrue
<1>1. ChildIInv => ResponsesTrue
  BY HttpTypes DEF ChildIInv
<1> QED BY <1>1, ChildInductive, PTL

(***************************************************************************)
(* DraftSources: the drafts a subscription corpus keeps.                   *)
(***************************************************************************)

\* A gather past its preflight that has the lease; one that has read gather.json's
\* named drafts and is yet to prune; and one whose list of mentioned drafts counts.
AtWork(g)   == run[g].pc \notin {"idle", "decided"}
HasNamed(g) == run[g].pc \in {"named", "authored", "listed"}
HasList(g)  == run[g].pc \in {"ready", "named", "authored", "listed", "pruned"}

\* The lease keeps gather.json as the gather that has it has read it.
DraftHolds(g) ==
  /\ AtWork(g) => holder = g
  /\ HasNamed(g) => run[g].cli = named
  /\ HasList(g) /\ ~behind => run[g].snap = mentioned

DraftIInv == DraftTypeOK /\ \A g \in Run : DraftHolds(g)

LEMMA AnswersOf ==
  \A drafts : \A a \in Answers(drafts) : a \subseteq drafts
  BY DEF Answers

LEMMA FetchesOf ==
  ASSUME DraftTypeOK
  PROVE  \A drafts : \A there \in Fetches(drafts) : present \subseteq there /\ there \subseteq Draft
  BY AnswersOf DEF Fetches, DraftTypeOK

\* The variables keep their types.
LEMMA DraftTypeStep ==
  ASSUME DraftTypeOK, [DraftNext]_draftVars
  PROVE  DraftTypeOK'
<1> USE DraftAssumption DEF DraftTypeOK, RunFrame, RunStage
<1>1. IdleRun \in RunFrame
  BY DEF IdleRun
<1>2. ASSUME NEW g \in Run, NEW cli \in SUBSET Named, Preflight(g, cli) \/ PreflightEarly(g, cli)
      PROVE  DraftTypeOK'
  <2>1. \A pc \in RunStage : [IdleRun EXCEPT !.pc = pc, !.cli = cli, !.snap = mentioned] \in RunFrame
    BY <1>1
  <2>2. run' \in [Run -> RunFrame]
    <3> PICK pc \in RunStage :
          run' = [run EXCEPT ![g] = [IdleRun EXCEPT !.pc = pc, !.cli = cli, !.snap = mentioned]]
      BY <1>2 DEF Preflight, PreflightEarly
    <3> HIDE DEF RunFrame, RunStage
    <3> QED BY <2>1
  <2> QED BY <1>2, <2>2 DEF Preflight, PreflightEarly, upstream
<1>3. ASSUME NEW g \in Run, TakeLease(g) \/ TurnAway(g) \/ Finish(g) \/ Die(g)
      PROVE  DraftTypeOK'
  <2>1. behind' \in BOOLEAN
    <3>1. (behind \/ run[g].snap # mentioned) \in BOOLEAN
      BY Zenon
    <3> QED BY <1>3, <3>1 DEF TakeLease, TurnAway, Finish, Die
  <2>2. run' \in [Run -> RunFrame]
    BY <1>1, <1>3 DEF TakeLease, TurnAway, Finish, Die
  <2> QED BY <1>3, <2>1, <2>2 DEF TakeLease, TurnAway, Finish, Die, upstream
<1>4. ASSUME NEW g \in Run, NamedDrafts(g)
      PROVE  DraftTypeOK'
  <2>1. PICK ok \in Answers(run[g].cli \cap posted) :
          /\ named' = named \cup ok /\ present' \in Fetches(named \cup ok)
          /\ run' = [run EXCEPT ![g].pc = "named", ![g].cli = named \cup ok]
    BY <1>4 DEF NamedDrafts
  <2>2. ok \subseteq Draft /\ present' \subseteq Draft
    BY <2>1, AnswersOf, FetchesOf
  <2>3. named' \in SUBSET Draft
    BY <2>1, <2>2
  <2>4. run' = [run EXCEPT ![g].pc = "named", ![g].cli = named']
    BY <2>1
  <2>5. [run[g] EXCEPT !.pc = "named", !.cli = named'] \in RunFrame
    BY <2>3
  <2>6. run' \in [Run -> RunFrame]
    BY <2>4, <2>5
  <2> QED BY <1>4, <2>2, <2>3, <2>6 DEF NamedDrafts, upstream
<1>5. ASSUME NEW g \in Run, AuthoredDrafts(g) \/ NewDrafts(g)
      PROVE  DraftTypeOK'
  <2>1. PICK names \in Answers(Authored \cap posted) \cup Answers(recent) :
          /\ present' \in Fetches(names)
          /\ \/ run' = [run EXCEPT ![g].pc = "authored", ![g].author = names]
             \/ run' = [run EXCEPT ![g].pc = "listed", ![g].fresh = names]
    BY <1>5 DEF AuthoredDrafts, NewDrafts
  <2>2. names \subseteq Draft /\ present' \subseteq Draft
    BY <2>1, AnswersOf, FetchesOf
  <2> QED BY <1>5, <2>1, <2>2 DEF AuthoredDrafts, NewDrafts, upstream
<1>6. ASSUME NEW g \in Run, Prune(g)
      PROVE  DraftTypeOK'
  BY <1>6 DEF Prune, upstream
<1>7. ASSUME NEW g \in Run, MentionedDrafts(g)
      PROVE  DraftTypeOK'
  <2>1. PICK citations \in SUBSET Cited :
          \E valid \in Answers((citations \ (present \cup run[g].snap)) \cap posted) :
            present' \in Fetches(valid) /\ RememberMentioned(g, valid)
    BY <1>7 DEF MentionedDrafts
  <2>2. PICK valid \in Answers((citations \ (present \cup run[g].snap)) \cap posted) :
          present' \in Fetches(valid) /\ RememberMentioned(g, valid)
    BY <2>1
  <2>3. valid \subseteq Draft /\ present' \subseteq Draft
    BY <2>2, AnswersOf, FetchesOf
  <2> QED BY <1>7, <2>2, <2>3 DEF MentionedDrafts, RememberMentioned, upstream
<1>8. ASSUME NEW d \in Draft, Submit(d) \/ AgeOut(d)
      PROVE  DraftTypeOK'
  BY <1>8 DEF Submit, AgeOut
<1>9. CASE UNCHANGED draftVars
  BY <1>9 DEF draftVars, upstream
<1> QED BY <1>2, <1>3, <1>4, <1>5, <1>6, <1>7, <1>8, <1>9 DEF DraftNext, GatherStep

\* Only the gather that has the lease writes gather.json, and it knows what it writes.
LEMMA DraftIInvStep ==
  ASSUME DraftIInv, [DraftNext]_draftVars
  PROVE  DraftIInv'
<1> USE DEF AtWork, HasNamed, HasList, RunAt
<1>1. DraftTypeOK'
  BY DraftTypeStep DEF DraftIInv
<1> SUFFICES ASSUME NEW k \in Run
             PROVE  DraftHolds(k)'
  BY <1>1 DEF DraftIInv
<1>2. NoRun \notin Run /\ run \in [Run -> RunFrame] /\ DraftHolds(k)
  BY DraftAssumption DEF DraftIInv, DraftTypeOK
<1>3. \A g \in Run : AtWork(g) => holder = g
  BY DEF DraftIInv, DraftHolds
<1> USE DEF RunFrame, DraftHolds
<1>4. ASSUME NEW g \in Run, NEW cli \in SUBSET Named, Preflight(g, cli)
      PROVE  DraftHolds(k)'
  BY <1>2, <1>3, <1>4 DEF Preflight, IdleRun
<1>5. ASSUME NEW g \in Run, NEW cli \in SUBSET Named, PreflightEarly(g, cli)
      PROVE  DraftHolds(k)'
  BY <1>2, <1>3, <1>5 DEF PreflightEarly, IdleRun
<1>6. ASSUME NEW g \in Run, TakeLease(g)
      PROVE  DraftHolds(k)'
  BY <1>2, <1>3, <1>6 DEF TakeLease
<1>7. ASSUME NEW g \in Run, TurnAway(g)
      PROVE  DraftHolds(k)'
  BY <1>2, <1>3, <1>7 DEF TurnAway, IdleRun
<1>8. ASSUME NEW g \in Run, Finish(g)
      PROVE  DraftHolds(k)'
  BY <1>2, <1>3, <1>8 DEF Finish, IdleRun
<1>9. ASSUME NEW g \in Run, Die(g)
      PROVE  DraftHolds(k)'
  BY <1>2, <1>3, <1>9 DEF Die, IdleRun
<1>10. ASSUME NEW g \in Run, NamedDrafts(g)
      PROVE  DraftHolds(k)'
  BY <1>2, <1>3, <1>10 DEF NamedDrafts
<1>11. ASSUME NEW g \in Run, AuthoredDrafts(g)
      PROVE  DraftHolds(k)'
  BY <1>2, <1>3, <1>11 DEF AuthoredDrafts
<1>12. ASSUME NEW g \in Run, NewDrafts(g)
      PROVE  DraftHolds(k)'
  BY <1>2, <1>3, <1>12 DEF NewDrafts
<1>13. ASSUME NEW g \in Run, Prune(g)
      PROVE  DraftHolds(k)'
  BY <1>2, <1>3, <1>13 DEF Prune
<1>14. ASSUME NEW g \in Run, MentionedDrafts(g)
      PROVE  DraftHolds(k)'
  BY <1>2, <1>3, <1>14 DEF MentionedDrafts
<1>15. ASSUME NEW d \in Draft, Submit(d) \/ AgeOut(d)
      PROVE  DraftHolds(k)'
  BY <1>2, <1>15 DEF Submit, AgeOut
<1>16. CASE UNCHANGED draftVars
  BY <1>2, <1>16 DEF draftVars
<1> QED BY <1>4, <1>5, <1>6, <1>7, <1>8, <1>9, <1>10, <1>11, <1>12, <1>13, <1>14, <1>15, <1>16 DEF DraftNext, GatherStep

\* What a step may take from gather.json and from the corpus.
LEMMA ChosenStep ==
  ASSUME DraftIInv, [DraftNext]_draftVars
  PROVE  NamedStay /\ MentionedStay
<1> DraftTypeOK
  BY DEF DraftIInv
<1>1. ASSUME NEW g \in Run,
             \/ \E cli \in SUBSET Named : Preflight(g, cli) \/ PreflightEarly(g, cli)
             \/ TakeLease(g) \/ TurnAway(g) \/ Finish(g) \/ Die(g)
      PROVE  UNCHANGED <<named, mentioned, present>>
  BY <1>1 DEF Preflight, PreflightEarly, TakeLease, TurnAway, Finish, Die
<1>2. ASSUME NEW g \in Run, NamedDrafts(g)
      PROVE  present \subseteq present' /\ named \subseteq named' /\ mentioned' = mentioned
  BY <1>2, FetchesOf DEF NamedDrafts
<1>3. ASSUME NEW g \in Run, AuthoredDrafts(g) \/ NewDrafts(g)
      PROVE  present \subseteq present' /\ named' = named /\ mentioned' = mentioned
  BY <1>3, FetchesOf DEF AuthoredDrafts, NewDrafts
<1>4. ASSUME NEW g \in Run, Prune(g)
      PROVE  NamedStay /\ MentionedStay
  BY <1>4 DEF Prune, Keep, NamedStay, MentionedStay, DraftIInv, DraftHolds, HasNamed, HasList, RunAt
<1>5. ASSUME NEW g \in Run, MentionedDrafts(g)
      PROVE  /\ present \subseteq present' /\ named' = named
             /\ ~behind' => mentioned \subseteq mentioned'
  BY <1>5, FetchesOf DEF MentionedDrafts, RememberMentioned, DraftIInv, DraftHolds, HasList, RunAt
<1>6. ASSUME NEW d \in Draft, Submit(d) \/ AgeOut(d)
      PROVE  UNCHANGED <<named, mentioned, present>>
  BY <1>6 DEF Submit, AgeOut
<1>7. CASE UNCHANGED draftVars
  BY <1>7 DEF draftVars, NamedStay, MentionedStay
<1> QED BY <1>1, <1>2, <1>3, <1>4, <1>5, <1>6, <1>7
        DEF DraftNext, GatherStep, NamedStay, MentionedStay

\* A draft that a user named, or that the corpus mentioned, is never pruned or
\* forgotten, by any gather and whatever the Datatracker answers; a mentioned one as
\* long as every gather begins on the latest list.
THEOREM ChosenDraftsStay == DraftSpec => ChosenStay
<1>1. DraftInit => DraftIInv
  <2>1. IdleRun \in RunFrame /\ IdleRun.pc = "idle"
    BY DEF IdleRun, RunFrame, RunStage
  <2> SUFFICES ASSUME DraftInit
               PROVE  DraftIInv
    OBVIOUS
  <2>2. DraftTypeOK
    <3>1. run \in [Run -> RunFrame]
      BY <2>1 DEF DraftInit
    <3>2. gathers \in 0..MaxRuns /\ holder \in Run \cup {NoRun}
      BY DraftAssumption DEF DraftInit
    <3>3. behind \in BOOLEAN
      BY DEF DraftInit
    <3>4. recent \in SUBSET posted /\ posted \in SUBSET Draft
      BY DEF DraftInit
    <3>5. named \in SUBSET Draft /\ mentioned \in SUBSET Draft /\ present \in SUBSET Draft
      BY DEF DraftInit
    <3> QED BY <3>1, <3>2, <3>3, <3>4, <3>5 DEF DraftTypeOK
  <2>3. ASSUME NEW g \in Run
        PROVE  DraftHolds(g)
    BY <2>1 DEF DraftInit, DraftHolds, AtWork, HasNamed, HasList
  <2> QED BY <2>2, <2>3 DEF DraftIInv
<1>2. DraftIInv /\ [DraftNext]_draftVars => DraftIInv'
  BY DraftIInvStep
<1>3. DraftIInv /\ [DraftNext]_draftVars => [NamedStay /\ MentionedStay]_draftVars
  BY ChosenStep
<1> QED BY <1>1, <1>2, <1>3, PTL DEF DraftSpec, ChosenStay

(***************************************************************************)
(* ProbeSweep: the shared sweep.                                           *)
(***************************************************************************)

\* Who is about to sweep has looked no earlier than the last sweep that still counts;
\* who sweeps holds the lock; and who began after a sweep has it to serve.
ProbeHolds(p) ==
  /\ probe[p].pc \in {"lock", "sweep"} =>
       /\ Usable(swept, SweepTTL) => probe[p].seen <= swept
       /\ Usable(failed, FailureTTL) => probe[p].seen <= failed
       /\ probe[p].had => probe[p].stale # Never
  /\ probe[p].pc \in {"sweep", "release"} => sweeper = p
  /\ probe[p].had => swept # Never
  /\ probe[p].said = "error" => ~probe[p].had
  /\ probe[p].seen <= clock

ProbeIInv == ProbeTypeOK /\ \A p \in Probe : ProbeHolds(p)

\* The variables keep their types.
LEMMA ProbeTypeStep ==
  ASSUME ProbeTypeOK, [ProbeNext]_probeVars
  PROVE  ProbeTypeOK'
<1> USE ProbeAssumption DEF ProbeTypeOK, ProbeFrame, ProbeStage, Clock, Never
<1>1. IdleProbe \in ProbeFrame
  BY DEF IdleProbe
<1>2. ASSUME NEW p \in Probe, Begin(p)
      PROVE  ProbeTypeOK'
  <2>1. ASSUME NEW b \in BOOLEAN
        PROVE  [IdleProbe EXCEPT !.pc = "peek", !.had = b] \in ProbeFrame
    BY <1>1
  <2>2. (swept # Never) \in BOOLEAN
    BY Zenon
  <2>3. [IdleProbe EXCEPT !.pc = "peek", !.had = (swept # Never)] \in ProbeFrame
    BY <2>1, <2>2, Zenon
  <2> QED BY <1>2, <2>3 DEF Begin
<1>3. ASSUME NEW p \in Probe, PeekSweep(p) \/ Lock(p) \/ Busy(p) \/ Waited(p)
      PROVE  ProbeTypeOK'
  BY <1>3 DEF PeekSweep, Lock, Busy, Waited, Say
<1>4. ASSUME NEW p \in Probe, Sweep(p) \/ SweepFails(p) \/ ReleaseSweep(p)
      PROVE  ProbeTypeOK'
  BY <1>4 DEF Sweep, SweepFails, ReleaseSweep, Say
<1>5. CASE ProbeTick
  BY <1>5 DEF ProbeTick
<1>6. CASE UNCHANGED probeVars
  BY <1>6 DEF probeVars
<1> QED BY <1>2, <1>3, <1>4, <1>5, <1>6 DEF ProbeNext, ProbeStep

\* A probe's own step.
LEMMA ProbeOwnStep ==
  ASSUME ProbeIInv, NEW p \in Probe, ProbeStep(p)
  PROVE  ProbeHolds(p)'
<1> USE ProbeAssumption DEF ProbeTypeOK, ProbeFrame, ProbeStage, Clock, Never, ProbeAt
<1> ProbeHolds(p)
  BY DEF ProbeIInv
<1> ProbeTypeOK
  BY DEF ProbeIInv
<1>1. CASE Begin(p)
  BY <1>1 DEF Begin, ProbeHolds, IdleProbe, Usable
<1>2. CASE PeekSweep(p)
  BY <1>2 DEF PeekSweep, ProbeHolds, Usable, Say
<1>3. CASE Lock(p) \/ Busy(p) \/ Waited(p)
  BY <1>3 DEF Lock, Busy, Waited, ProbeHolds, Usable, Say
<1>4. CASE Sweep(p)
  BY <1>4 DEF Sweep, ProbeHolds, Usable, Say
<1>5. CASE SweepFails(p) \/ ReleaseSweep(p)
  BY <1>5 DEF SweepFails, ReleaseSweep, ProbeHolds, Usable, Say
<1> QED BY <1>1, <1>2, <1>3, <1>4, <1>5 DEF ProbeStep

\* What it leaves of the others: the lock stays theirs, and a sweep that ends now
\* ends no earlier than they looked.
LEMMA ProbeOtherStep ==
  ASSUME ProbeIInv, NEW p \in Probe, NEW q \in Probe \ {p}, ProbeStep(p)
  PROVE  ProbeHolds(q)'
<1> USE ProbeAssumption DEF ProbeTypeOK, ProbeFrame, ProbeStage, Clock, Never, ProbeAt
<1> ProbeHolds(p) /\ ProbeHolds(q)
  BY DEF ProbeIInv
<1> ProbeTypeOK
  BY DEF ProbeIInv
<1>1. probe'[q] = probe[q] /\ clock' = clock
  BY DEF ProbeStep, Begin, PeekSweep, Lock, Busy, Waited, Sweep, SweepFails, ReleaseSweep, Say
<1>2. \/ swept' = swept /\ failed' = failed
      \/ swept' = clock /\ failed' = Never
      \/ swept' = swept /\ failed' = clock
  BY DEF ProbeStep, Begin, PeekSweep, Lock, Busy, Waited, Sweep, SweepFails, ReleaseSweep, Say
<1>3. probe[q].pc \in {"sweep", "release"} => sweeper' = sweeper
  BY DEF ProbeStep, Begin, PeekSweep, Lock, Busy, Waited, Sweep, SweepFails, ReleaseSweep, Say, ProbeHolds
<1> QED BY <1>1, <1>2, <1>3 DEF ProbeHolds, Usable

LEMMA ProbeIInvStep ==
  ASSUME ProbeIInv, [ProbeNext]_probeVars
  PROVE  ProbeIInv'
<1>1. ProbeTypeOK'
  BY ProbeTypeStep DEF ProbeIInv
<1>2. ASSUME NEW p \in Probe, ProbeStep(p), NEW q \in Probe
      PROVE  ProbeHolds(q)'
  BY <1>2, ProbeOwnStep, ProbeOtherStep
<1>3. ASSUME ProbeTick, NEW q \in Probe
      PROVE  ProbeHolds(q)'
  BY <1>3, ProbeAssumption DEF ProbeIInv, ProbeTypeOK, ProbeFrame, Clock, Never, ProbeTick, ProbeHolds, Usable
<1>4. ASSUME UNCHANGED probeVars, NEW q \in Probe
      PROVE  ProbeHolds(q)'
  BY <1>4 DEF ProbeIInv, probeVars, ProbeHolds, Usable
<1> QED BY <1>1, <1>2, <1>3, <1>4 DEF ProbeIInv, ProbeNext

\* However probes, sweeps and failures interleave: probes sweep one at a time, none
\* repeats a sweep within its lifetime that it has seen, and none raises that began
\* after a sweep had succeeded.
THEOREM SweepIsShared == ProbeSpec => []ProbeInv
<1>1. ProbeInit => ProbeIInv
  BY ProbeAssumption DEF ProbeInit, ProbeIInv, ProbeTypeOK, ProbeFrame, ProbeStage, Clock, Never,
     IdleProbe, ProbeHolds
<1>2. ProbeIInv /\ [ProbeNext]_probeVars => ProbeIInv'
  BY ProbeIInvStep
<1>3. ProbeIInv => ProbeInv
  BY DEF ProbeIInv, ProbeHolds, ProbeInv, OldSweepBeatsError, SweptInTurn, ProbeAt
<1> QED BY <1>1, <1>2, <1>3, PTL DEF ProbeSpec

(***************************************************************************)
(* StdioWriter: the server's answers on their way to a client on stdio.    *)
(***************************************************************************)

\* What has left the queue.
Taken == Len(out) + (IF held = Nothing THEN 0 ELSE 1)

\* The queue's message i is the i-th after those taken, not counting the sentinel;
\* behind the sentinel there is room for one, which was waiting when it was put.
Placed(s) ==
  /\ \A i \in 1..Len(queue) :
       queue[i] = IF i < s THEN Taken + i ELSE IF i = s THEN Sentinel ELSE Taken + i - 1
  /\ s <= Len(queue) => ~serving /\ (Len(queue) = s \/ (parked = Nothing /\ Len(queue) = s + 1))
  /\ sent = Taken + Len(queue) + (IF parked = Nothing THEN 0 ELSE 1) - (IF s <= Len(queue) THEN 1 ELSE 0)

WriterIInv ==
  /\ WriterTypeOK /\ InOrder /\ OneLostAtMost
  /\ parked # Nothing => parked = sent
  /\ held # Nothing => writer = "running" /\ held = Len(out) + 1
  /\ writer = "running" => \E s \in 1..Len(queue) + 1 : Placed(s)
  /\ writer = "drained" => ~serving

LEMMA WriterConstants == MaxSent \in Nat /\ QueueItems \in Nat /\ QueueItems > 0
  BY WriterAssumption

LEMMA WriterInitHolds == WriterInit => WriterIInv
<1> SUFFICES ASSUME WriterInit PROVE WriterIInv
  OBVIOUS
<1>1. queue = <<>> /\ out = <<>> /\ Len(queue) = 0 /\ Len(out) = 0 /\ sent = 0
  BY DEF WriterInit
<1>2. Placed(1)
  BY <1>1 DEF WriterInit, Placed, Taken, Nothing
<1> QED BY <1>1, <1>2, WriterConstants DEF WriterInit, WriterIInv, WriterTypeOK, InOrder, OneLostAtMost, Nothing

\* What an item at the end does to the queue.
LEMMA PutIs ==
  ASSUME WriterIInv, NEW item \in 0..MaxSent, Put(item), Room
  PROVE  /\ queue' \in Seq(0..MaxSent) /\ Len(queue') = Len(queue) + 1 /\ Len(queue') <= QueueItems
         /\ \A i \in 1..Len(queue) : queue'[i] = queue[i]
         /\ queue'[Len(queue) + 1] = item
         /\ Len(queue) \in Nat
BY WriterConstants DEF WriterIInv, WriterTypeOK, Put, Room

LEMMA WriterCounts ==
  ASSUME WriterIInv
  PROVE  Len(queue) \in Nat /\ Len(out) \in Nat /\ Taken \in Nat /\ sent \in Nat
<1>1. Len(queue) \in Nat /\ Len(out) \in Nat /\ sent \in Nat
  BY WriterConstants DEF WriterIInv, WriterTypeOK
<1> QED BY <1>1 DEF Taken

\* A message put at the end is the next one, whether the sentinel is in the queue or not.
LEMMA PlacedPut ==
  ASSUME WriterIInv, NEW s \in 1..Len(queue) + 1, Placed(s), Taken' = Taken, serving' = serving,
         NEW item \in 1..MaxSent, Put(item), Room, sent' = item,
         \/ parked = Nothing /\ sent' = sent + 1 /\ serving
         \/ parked # Nothing /\ sent' = sent,
         parked' = Nothing
  PROVE  \E t \in 1..Len(queue') + 1 : Placed(t)'
<1>1. /\ Len(queue') = Len(queue) + 1 /\ \A i \in 1..Len(queue) : queue'[i] = queue[i]
      /\ queue'[Len(queue) + 1] = item
      /\ Len(queue) \in Nat /\ Taken \in Nat /\ sent \in Nat
  <2>1. item \in 0..MaxSent
    BY WriterConstants
  <2> QED BY <2>1, PutIs, WriterCounts
<1>2. CASE s = Len(queue) + 1
  <2>1. item = Taken + Len(queue) + 1
    BY <1>1, <1>2 DEF Placed
  <2>2. \A i \in 1..Len(queue) : queue[i] = Taken + i
    BY <1>1, <1>2 DEF Placed
  <2>3. \A i \in 1..Len(queue') : queue'[i] = Taken + i
    BY <1>1, <2>1, <2>2
  <2>4. Placed(s + 1)'
    BY <1>1, <1>2, <2>1, <2>3 DEF Placed
  <2> QED BY <1>1, <1>2, <2>4
<1>3. CASE s <= Len(queue)
  <2>1. /\ ~serving /\ parked # Nothing /\ Len(queue) = s /\ item = Taken + Len(queue)
        /\ sent' = sent /\ sent = Taken + Len(queue)
    BY <1>1, <1>3 DEF Placed
  <2>2. \A i \in 1..Len(queue') :
          queue'[i] = IF i < s THEN Taken + i ELSE IF i = s THEN Sentinel ELSE Taken + i - 1
    BY <1>1, <2>1 DEF Placed
  <2>3. Placed(s)'
    BY <1>1, <2>1, <2>2 DEF Placed
  <2> QED BY <1>1, <2>1, <2>3
<1> QED BY <1>1, <1>2, <1>3

LEMMA SendNowHolds == WriterIInv /\ SendNow => WriterIInv'
<1> SUFFICES ASSUME WriterIInv, SendNow PROVE WriterIInv'
  OBVIOUS
<1>1. /\ sent < MaxSent /\ sent' = sent + 1 /\ parked = Nothing /\ parked' = parked /\ held' = held
      /\ out' = out /\ writer' = writer /\ serving' = serving /\ serving /\ sent \in 0..MaxSent
      /\ Room /\ Put(sent + 1) /\ sent + 1 \in 1..MaxSent /\ sent + 1 \in 0..MaxSent
  BY WriterConstants DEF SendNow, WriterIInv, WriterTypeOK
<1>2. queue' \in Seq(0..MaxSent) /\ Len(queue') <= QueueItems
  BY <1>1, PutIs
<1>3. WriterTypeOK'
  BY <1>1, <1>2, WriterConstants DEF WriterIInv, WriterTypeOK
<1>4. ASSUME writer = "running"
      PROVE  \E s \in 1..Len(queue') + 1 : Placed(s)'
  <2>1. PICK s \in 1..Len(queue) + 1 : Placed(s)
    BY <1>4 DEF WriterIInv
  <2>2. Taken' = Taken
    BY <1>1 DEF Taken
  <2> QED BY <1>1, <2>1, <2>2, PlacedPut
<1> QED BY <1>1, <1>3, <1>4 DEF WriterIInv, InOrder, OneLostAtMost, Nothing

LEMMA PutParkedHolds == WriterIInv /\ PutParked => WriterIInv'
<1> SUFFICES ASSUME WriterIInv, PutParked PROVE WriterIInv'
  OBVIOUS
<1>1. /\ parked # Nothing /\ parked' = Nothing /\ sent' = sent /\ held' = held
      /\ out' = out /\ writer' = writer /\ serving' = serving /\ parked = sent
      /\ Room /\ Put(parked) /\ parked \in 1..MaxSent /\ parked \in 0..MaxSent
  BY WriterConstants DEF PutParked, WriterIInv, WriterTypeOK, Nothing
<1>2. queue' \in Seq(0..MaxSent) /\ Len(queue') <= QueueItems
  BY <1>1, PutIs
<1>3. WriterTypeOK'
  BY <1>1, <1>2, WriterConstants DEF WriterIInv, WriterTypeOK, Nothing
<1>4. ASSUME writer = "running"
      PROVE  \E s \in 1..Len(queue') + 1 : Placed(s)'
  <2>1. PICK s \in 1..Len(queue) + 1 : Placed(s)
    BY <1>4 DEF WriterIInv
  <2>2. Taken' = Taken
    BY <1>1 DEF Taken
  <2> QED BY <1>1, <2>1, <2>2, PlacedPut
<1> QED BY <1>1, <1>3, <1>4 DEF WriterIInv, InOrder, OneLostAtMost, Nothing

LEMMA SendFullHolds == WriterIInv /\ SendFull => WriterIInv'
<1> SUFFICES ASSUME WriterIInv, SendFull PROVE WriterIInv'
  OBVIOUS
<1>1. /\ sent < MaxSent /\ sent' = sent + 1 /\ parked = Nothing /\ parked' = sent + 1 /\ held' = held
      /\ out' = out /\ writer' = writer /\ serving' = serving /\ serving /\ sent \in 0..MaxSent
      /\ queue' = queue /\ parked' # Nothing
  BY WriterConstants DEF SendFull, WriterIInv, WriterTypeOK, Nothing
<1>2. WriterTypeOK'
  BY <1>1, WriterConstants DEF WriterIInv, WriterTypeOK
<1>3. ASSUME writer = "running"
      PROVE  \E s \in 1..Len(queue') + 1 : Placed(s)'
  <2>1. PICK s \in 1..Len(queue) + 1 : Placed(s)
    BY <1>3 DEF WriterIInv
  <2>2. Taken' = Taken
    BY <1>1 DEF Taken
  <2>3. Placed(s)'
    BY <1>1, <2>1, <2>2, WriterCounts DEF Placed
  <2> QED BY <1>1, <2>3
<1>4. writer # "drained"
  BY <1>1 DEF WriterIInv
<1> QED BY <1>1, <1>2, <1>3, <1>4 DEF WriterIInv, InOrder, OneLostAtMost

LEMMA GiveUpHolds == WriterIInv /\ GiveUp => WriterIInv'
<1> SUFFICES ASSUME WriterIInv, GiveUp PROVE WriterIInv'
  OBVIOUS
<1>1. /\ parked' = Nothing /\ writer # "running" /\ UNCHANGED <<sent, queue, held, out, writer, serving>>
  BY DEF GiveUp
<1>2. WriterTypeOK'
  BY <1>1, WriterConstants DEF WriterIInv, WriterTypeOK, Nothing
<1> QED BY <1>1, <1>2 DEF WriterIInv, InOrder, OneLostAtMost

LEMMA ShutdownHolds == WriterIInv /\ Shutdown => WriterIInv'
<1> SUFFICES ASSUME WriterIInv, Shutdown PROVE WriterIInv'
  OBVIOUS
<1>1. /\ serving /\ serving' = FALSE /\ UNCHANGED <<sent, parked, held, out, writer>>
      /\ writer # "drained"
  BY DEF Shutdown, WriterIInv
<1>2. \/ Room /\ Put(Sentinel)
      \/ ~Room /\ queue' = queue
  BY DEF Shutdown
<1>3. Sentinel \in 0..MaxSent
  BY WriterConstants DEF Sentinel
<1>4. WriterTypeOK'
  BY <1>1, <1>2, <1>3, PutIs DEF WriterIInv, WriterTypeOK
<1>5. ASSUME writer = "running"
      PROVE  \E s \in 1..Len(queue') + 1 : Placed(s)'
  <2>1. PICK s \in 1..Len(queue) + 1 : Placed(s)
    BY <1>5 DEF WriterIInv
  <2>2. Taken' = Taken /\ s = Len(queue) + 1
    BY <1>1, <2>1, WriterCounts DEF Taken, Placed
  <2>3. CASE Room /\ Put(Sentinel)
    <3>1. /\ Len(queue') = Len(queue) + 1 /\ \A i \in 1..Len(queue) : queue'[i] = queue[i]
          /\ queue'[Len(queue) + 1] = Sentinel
      BY <1>3, <2>3, PutIs
    <3>2. Placed(s)'
      BY <1>1, <2>1, <2>2, <3>1, WriterCounts DEF Placed
    <3> QED BY <2>2, <3>1, <3>2, WriterCounts
  <2>4. CASE queue' = queue
    <3>1. Placed(s)'
      BY <1>1, <2>1, <2>2, <2>4, WriterCounts DEF Placed
    <3> QED BY <2>4, <3>1
  <2> QED BY <1>2, <2>3, <2>4
<1> QED BY <1>1, <1>4, <1>5 DEF WriterIInv, InOrder, OneLostAtMost

\* The count behind "at most one is lost": q waited in the queue, and perhaps one for it.
LEMMA LostCount ==
  ASSUME NEW n \in Nat, NEW o \in Nat, NEW q \in Nat, NEW p,
         q = 1 \/ (p = Nothing /\ q = 2), n = o + q + (IF p = Nothing THEN 0 ELSE 1) - 1
  PROVE  o >= n - 1
OBVIOUS

LEMMA HeadIs ==
  ASSUME NEW S, NEW q \in Seq(S)
  PROVE  Head(q) = q[1]
OBVIOUS

LEMMA TakeHolds == WriterIInv /\ Take => WriterIInv'
<1> SUFFICES ASSUME WriterIInv, Take PROVE WriterIInv'
  OBVIOUS
<1>1. /\ writer = "running" /\ held = Nothing /\ queue # <<>> /\ queue \in Seq(0..MaxSent)
      /\ queue' = Tail(queue) /\ UNCHANGED <<sent, parked, out, serving>>
  BY DEF Take, WriterIInv, WriterTypeOK
<1>2. /\ queue' \in Seq(0..MaxSent) /\ Len(queue') = Len(queue) - 1 /\ Len(queue) >= 1
      /\ \A i \in 1..Len(queue') : queue'[i] = queue[i + 1]
      /\ Head(queue) = queue[1] /\ queue[1] \in 0..MaxSent /\ Len(queue') <= QueueItems
  <2>1. Len(queue) \in Nat /\ Len(queue) # 0 /\ Len(queue) <= QueueItems
    BY <1>1, EmptySeq DEF WriterIInv, WriterTypeOK
  <2>2. queue' \in Seq(0..MaxSent) /\ Len(queue') = Len(queue) - 1
        /\ \A i \in 1..Len(queue') : queue'[i] = queue[i + 1]
    BY <1>1, HeadTailProperties
  <2>3. Head(queue) = queue[1]
    BY <1>1, HeadIs
  <2>4. queue[1] \in 0..MaxSent
    <3>1. 1 \in 1..Len(queue)
      BY <2>1
    <3> QED BY <1>1, <3>1, ElementOfSeq
  <2> QED BY <2>1, <2>2, <2>3, <2>4, WriterConstants
<1>3. PICK s \in 1..Len(queue) + 1 : Placed(s)
  BY <1>1 DEF WriterIInv
<1>4. Taken = Len(out) /\ Len(out) \in Nat /\ Len(queue) \in Nat /\ sent \in Nat
  BY <1>1, WriterCounts DEF Taken
<1>5. CASE Head(queue) = Sentinel
  <2>1. writer' = "drained" /\ held' = held
    BY <1>5 DEF Take
  <2>2. s = 1
    BY <1>2, <1>3, <1>4, <1>5 DEF Placed, Sentinel
  <2>3. /\ ~serving /\ (Len(queue) = 1 \/ (parked = Nothing /\ Len(queue) = 2))
        /\ sent = Len(out) + Len(queue) + (IF parked = Nothing THEN 0 ELSE 1) - 1
    BY <1>2, <1>3, <1>4, <2>2 DEF Placed
  <2>4. Len(out) >= sent - 1
    BY <1>4, <2>3, LostCount
  <2>5. WriterTypeOK'
    BY <1>1, <1>2, <2>1 DEF WriterIInv, WriterTypeOK
  <2> QED BY <1>1, <2>1, <2>3, <2>4, <2>5 DEF WriterIInv, InOrder, OneLostAtMost
<1>6. CASE Head(queue) # Sentinel
  <2>1. writer' = writer /\ held' = queue[1] /\ held' # Nothing
    BY <1>2, <1>6 DEF Take, Nothing, Sentinel
  <2>2. s # 1
    BY <1>2, <1>3, <1>6 DEF Placed
  <2>3. held' = Len(out) + 1 /\ Taken' = Taken + 1
    <3>1. queue[1] = Taken + 1
      BY <1>2, <1>3, <1>4, <2>2 DEF Placed
    <3>2. Taken' = Len(out) + 1
      BY <1>1, <2>1 DEF Taken
    <3> QED BY <1>4, <2>1, <3>1, <3>2
  <2>4. \A i \in 1..Len(queue') :
          queue'[i] = IF i < s - 1 THEN Taken' + i ELSE IF i = s - 1 THEN Sentinel ELSE Taken' + i - 1
    BY <1>2, <1>3, <1>4, <2>3 DEF Placed
  <2>5. /\ s - 1 <= Len(queue') =>
              ~serving /\ (Len(queue') = s - 1 \/ (parked = Nothing /\ Len(queue') = s - 1 + 1))
        /\ sent = Taken' + Len(queue') + (IF parked = Nothing THEN 0 ELSE 1)
                   - (IF s - 1 <= Len(queue') THEN 1 ELSE 0)
    BY <1>2, <1>3, <1>4, <2>3 DEF Placed
  <2>6. Placed(s - 1)'
    BY <1>1, <2>4, <2>5 DEF Placed
  <2>7. s - 1 \in 1..Len(queue') + 1
    BY <1>2, <1>3, <1>4, <2>2
  <2>8. WriterTypeOK'
    BY <1>1, <1>2, <2>1 DEF WriterIInv, WriterTypeOK
  <2> QED BY <1>1, <2>1, <2>3, <2>6, <2>7, <2>8 DEF WriterIInv, InOrder, OneLostAtMost
<1> QED BY <1>5, <1>6

LEMMA WriteOutHolds == WriterIInv /\ WriteOut => WriterIInv'
<1> SUFFICES ASSUME WriterIInv, WriteOut PROVE WriterIInv'
  OBVIOUS
<1>1. /\ held # Nothing /\ out' = Append(out, held) /\ held' = Nothing
      /\ UNCHANGED <<sent, parked, queue, writer, serving>>
      /\ held = Len(out) + 1 /\ writer = "running" /\ held \in 1..MaxSent /\ out \in Seq(1..MaxSent)
  BY WriterConstants DEF WriteOut, WriterIInv, WriterTypeOK, Nothing
<1>2. /\ out' \in Seq(1..MaxSent) /\ Len(out') = Len(out) + 1 /\ out'[Len(out) + 1] = held
      /\ \A i \in 1..Len(out) : out'[i] = out[i]
  BY <1>1
<1>3. InOrder'
  BY <1>1, <1>2, WriterCounts DEF WriterIInv, InOrder
<1>4. WriterTypeOK'
  BY <1>1, <1>2, WriterConstants DEF WriterIInv, WriterTypeOK, Nothing
<1>5. Taken' = Taken
  BY <1>1, <1>2, WriterCounts DEF Taken
<1>6. \E s \in 1..Len(queue') + 1 : Placed(s)'
  <2>1. PICK s \in 1..Len(queue) + 1 : Placed(s)
    BY <1>1 DEF WriterIInv
  <2>2. Placed(s)'
    BY <1>1, <1>5, <2>1 DEF Placed
  <2> QED BY <1>1, <2>2
<1> QED BY <1>1, <1>3, <1>4, <1>6 DEF WriterIInv, OneLostAtMost

LEMMA BrokenPipeHolds == WriterIInv /\ BrokenPipe => WriterIInv'
<1> SUFFICES ASSUME WriterIInv, BrokenPipe PROVE WriterIInv'
  OBVIOUS
<1>1. writer' = "broken" /\ held' = Nothing /\ UNCHANGED <<sent, parked, queue, out, serving>>
  BY DEF BrokenPipe
<1>2. WriterTypeOK'
  BY <1>1, WriterConstants DEF WriterIInv, WriterTypeOK, Nothing
<1> QED BY <1>1, <1>2 DEF WriterIInv, InOrder, OneLostAtMost

LEMMA WriterHolds == WriterSpec => []WriterIInv
<1>1. WriterIInv /\ [WriterNext]_writerVars => WriterIInv'
  <2> SUFFICES ASSUME WriterIInv, [WriterNext]_writerVars PROVE WriterIInv'
    OBVIOUS
  <2>1. CASE UNCHANGED writerVars
    BY <2>1 DEF writerVars, WriterIInv, WriterTypeOK, InOrder, OneLostAtMost, Placed, Taken
  <2> QED BY <2>1, SendNowHolds, SendFullHolds, PutParkedHolds, GiveUpHolds, ShutdownHolds, TakeHolds,
             WriteOutHolds, BrokenPipeHolds DEF WriterNext
<1> QED BY <1>1, WriterInitHolds, PTL DEF WriterSpec

-----------------------------------------------------------------------------

\* This sequence counts from one number on.
Counts(q, from, len) == q \in Seq(Nat) /\ Len(q) = len /\ \A i \in 1..len : q[i] = from + i

\* Counting goes on from one sequence into the next.
LEMMA CountsOn ==
  ASSUME NEW m \in Nat, NEW k \in Nat, NEW a, NEW b, Counts(a, 0, m), Counts(b, m, k)
  PROVE  Counts(a \o b, 0, m + k)
<1>1. /\ a \in Seq(Nat) /\ b \in Seq(Nat) /\ Len(a) = m /\ Len(b) = k
      /\ \A i \in 1..m : a[i] = i
      /\ \A i \in 1..k : b[i] = m + i
  BY DEF Counts
<1>2. a \o b \in Seq(Nat) /\ Len(a \o b) = m + k
  BY <1>1, ConcatProperties
<1>3. \A i \in 1..m + k : (a \o b)[i] = IF i <= m THEN a[i] ELSE b[i - m]
  BY <1>1, ConcatProperties
<1>4. ASSUME NEW i \in 1..m + k
      PROVE  (a \o b)[i] = i
  <2>1. CASE i <= m
    BY <1>1, <1>3, <2>1
  <2>2. CASE i > m
    <3>1. i - m \in 1..k
      BY <2>2
    <3> QED BY <1>1, <1>3, <2>2, <3>1
  <2>3. i <= m \/ i > m
    OBVIOUS
  <2> QED BY <2>1, <2>2, <2>3
<1> QED BY <1>2, <1>4 DEF Counts

LEMMA OneCounts ==
  ASSUME NEW m \in Nat, NEW item \in Nat, item # Nothing => item = m + 1
  PROVE  \E w \in 0..1 : w = (IF item = Nothing THEN 0 ELSE 1) /\ Counts(One(item), m, w)
<1>1. CASE item = Nothing
  BY <1>1 DEF One, Counts
<1>2. CASE item # Nothing
  BY <1>2 DEF One, Counts
<1> QED BY <1>1, <1>2

\* What is read of the queue around the sentinel.
LEMMA PartIs ==
  ASSUME NEW q \in Seq(Nat), NEW i \in 1..Len(q) + 2, NEW j \in 0..Len(q)
  PROVE  /\ SubSeq(q, i, j) \in Seq(Nat) /\ Len(SubSeq(q, i, j)) = (IF i <= j THEN j - i + 1 ELSE 0)
         /\ \A n \in 1..Len(SubSeq(q, i, j)) : SubSeq(q, i, j)[n] = q[i + n - 1]
<1>1. CASE i <= j
  <2>1. \A m \in i..j : m \in 1..Len(q)
    OBVIOUS
  <2>2. \A m \in i..j : q[m] \in Nat
    BY <2>1, ElementOfSeq
  <2>3. i \in Int /\ j \in Int
    OBVIOUS
  <2>4. /\ SubSeq(q, i, j) \in Seq(Nat) /\ Len(SubSeq(q, i, j)) = (IF i <= j THEN j - i + 1 ELSE 0)
        /\ \A n \in 1..j - i + 1 : SubSeq(q, i, j)[n] = q[i + n - 1]
    BY <2>2, <2>3, SubSeqProperties
  <2> QED BY <1>1, <2>4
<1>2. CASE i > j
  <2>1. SubSeq(q, i, j) = << >>
    BY <1>2, SubSeqProperties
  <2> QED BY <1>2, <2>1
<1> QED BY <1>1, <1>2

LEMMA SeqWider ==
  ASSUME NEW S, NEW T, S \subseteq T, NEW q \in Seq(S)
  PROVE  q \in Seq(T)
OBVIOUS

LEMMA WriterIsWhole == WriterIInv => WriterInv
<1> SUFFICES ASSUME WriterIInv, writer = "running" PROVE Accounted
  BY DEF WriterIInv, WriterInv, Accounted
<1>1. PICK s \in 1..Len(queue) + 1 : Placed(s)
  BY DEF WriterIInv
<1>2. /\ held \in Nat /\ parked \in Nat /\ sent \in Nat
      /\ Len(queue) \in Nat /\ Len(out) \in Nat /\ Taken \in Nat /\ s \in Nat /\ s >= 1
  BY WriterCounts, WriterConstants DEF WriterIInv, WriterTypeOK
<1>3. out \in Seq(Nat) /\ queue \in Seq(Nat)
  <2>1. 0..MaxSent \subseteq Nat /\ 1..MaxSent \subseteq Nat
    BY WriterConstants
  <2> QED BY <2>1, SeqWider DEF WriterIInv, WriterTypeOK
<1>4. SentinelAt(s)
  BY <1>1, <1>2 DEF SentinelAt, Placed, Sentinel
<1>5. PICK o \in Nat, n \in Nat, t \in Nat : o = Len(out) /\ n = Len(queue) /\ t = Taken
  BY <1>2
<1> DEFINE read   == out \o One(held)
           before == SubSeq(queue, 1, s - 1)
           after  == SubSeq(queue, s + 1, Len(queue))
           total  == read \o before \o after \o One(parked)
<1>6. Counts(read, 0, t)
  <2>1. Counts(out, 0, o)
    BY <1>3, <1>5 DEF WriterIInv, InOrder, Counts
  <2>2. held # Nothing => held = o + 1
    BY <1>5 DEF WriterIInv
  <2>3. PICK w \in 0..1 : w = (IF held = Nothing THEN 0 ELSE 1) /\ Counts(One(held), o, w)
    BY <1>2, <2>2, OneCounts
  <2>4. t = o + w /\ w \in Nat
    BY <1>5, <2>3 DEF Taken
  <2>5. Counts(read, 0, o + w)
    BY <2>1, <2>3, <2>4, CountsOn
  <2> QED BY <2>4, <2>5
<1> HIDE DEF read
<1>7. PICK b \in Nat, k \in Nat, w \in Nat :
        /\ b = s - 1 /\ k = (IF s <= n THEN n - s ELSE 0) /\ w = (IF parked = Nothing THEN 0 ELSE 1)
  <2>1. s - 1 \in Nat
    BY <1>2
  <2>2. (IF s <= n THEN n - s ELSE 0) \in Nat
    BY <1>2
  <2>3. (IF parked = Nothing THEN 0 ELSE 1) \in Nat
    OBVIOUS
  <2> QED BY <2>1, <2>2, <2>3
<1>8. /\ \A i \in 1..n : queue[i] = IF i < s THEN t + i ELSE IF i = s THEN Sentinel ELSE t + i - 1
      /\ sent = t + n + w - (IF s <= n THEN 1 ELSE 0)
  BY <1>1, <1>5, <1>7 DEF Placed
<1>9. s \in 1..n + 1
  BY <1>5
<1>10. sent = t + b + k + w
  BY <1>7, <1>8, <1>9
<1>11. Counts(before, t, b)
  <2>1. 1 \in 1..Len(queue) + 2 /\ b \in 0..Len(queue) /\ b = s - 1
    BY <1>2, <1>5, <1>7, <1>9
  <2>2. before \in Seq(Nat) /\ Len(before) = b /\ \A i \in 1..b : before[i] = queue[1 + i - 1]
    BY <1>3, <1>7, <2>1, PartIs
  <2>3. \A i \in 1..b : queue[1 + i - 1] = t + i
    BY <1>7, <1>8, <1>9
  <2> QED BY <2>2, <2>3 DEF Counts
<1> HIDE DEF before
<1>12. Counts(after, t + b, k)
  <2>1. s + 1 \in 1..Len(queue) + 2 /\ Len(queue) \in 0..Len(queue)
    BY <1>2, <1>5, <1>9
  <2>2. /\ after \in Seq(Nat) /\ Len(after) = (IF s + 1 <= n THEN n - (s + 1) + 1 ELSE 0)
        /\ \A i \in 1..Len(after) : after[i] = queue[s + 1 + i - 1]
    BY <1>3, <1>5, <2>1, PartIs
  <2>3. Len(after) = k
    BY <1>7, <1>9, <2>2
  <2>4. \A i \in 1..k : queue[s + 1 + i - 1] = t + b + i
    BY <1>7, <1>8, <1>9
  <2> QED BY <2>2, <2>3, <2>4 DEF Counts
<1> HIDE DEF after
<1>13. Counts(read \o before, 0, t + b)
  BY <1>6, <1>11, CountsOn
<1>14. PICK tb \in Nat : tb = t + b
  OBVIOUS
<1>15. Counts(read \o before \o after, 0, tb + k)
  BY <1>12, <1>13, <1>14, CountsOn
<1>16. PICK tk \in Nat : tk = tb + k
  OBVIOUS
<1>17. Counts(One(parked), tk, w)
  <2>1. parked # Nothing => parked = tk + 1
    BY <1>7, <1>10, <1>14, <1>16 DEF WriterIInv
  <2> QED BY <1>2, <1>7, <2>1, OneCounts
<1>18. Counts(total, 0, tk + w)
  BY <1>15, <1>16, <1>17, CountsOn
<1> HIDE DEF total
<1>19. total = [i \in 1..sent |-> i]
  <2>1. sent = tk + w
    BY <1>10, <1>14, <1>16
  <2> QED BY <1>18, <2>1 DEF Counts
<1> QED BY <1>1, <1>4, <1>19 DEF Accounted, total, read, before, after

\* Whatever the queue's room, the messages reach the client in order, and an orderly
\* end loses at most the one that waited while the sentinel was put.
THEOREM AnswersReachTheClient == WriterSpec => []WriterInv
  BY WriterHolds, WriterIsWhole, PTL

(***************************************************************************)
(* MailThreads: conversations.  All mail is given, and the roots are       *)
(* placed one after the other: an induction over the number placed.        *)
(***************************************************************************)

\* The archive holds messages.
MailTypes == Fetched \subseteq Mail /\ archive \in [Fetched -> Header]

\* Sets of numbers have a least member, and bounded ones a greatest.
LEMMA LeastNat ==
  ASSUME NEW S, S \subseteq Nat, S # {}
  PROVE  \E n \in S : \A m \in S : n <= m
<1>1. IsWellFoundedOn(OpToRel(<, Nat), Nat)
  BY NatLessThanWellFounded
<1>2. PICK n \in S : \A m \in S : ~ (<<m, n>> \in OpToRel(<, Nat))
  BY <1>1, WFMin
<1>3. \A m \in S : ~(m < n)
  BY <1>2 DEF OpToRel
<1> QED BY <1>3

LEMMA MostNat ==
  ASSUME NEW b \in Nat, NEW S, S \subseteq 0..b, S # {}
  PROVE  \E n \in S : \A m \in S : m <= n
<1> DEFINE C == {b - n : n \in S}
<1>0. \A n \in S : b - n \in Nat
  OBVIOUS
<1>1. C \subseteq Nat /\ C # {}
  <2>1. C \subseteq Nat
    BY <1>0
  <2>2. PICK n \in S : TRUE
    OBVIOUS
  <2>3. b - n \in C
    BY <2>2
  <2> QED BY <2>1, <2>3
<1> HIDE DEF C
<1>2. PICK c \in C : \A d \in C : c <= d
  BY <1>1, LeastNat
<1>3. PICK n \in S : c = b - n
  BY DEF C
<1>4. \A m \in S : b - m \in C
  BY DEF C
<1>5. \A m \in S : b - n <= b - m
  BY <1>2, <1>3, <1>4
<1> QED BY <1>5

LEMMA HeaderIs ==
  ASSUME MailTypes, NEW m \in Fetched
  PROVE  /\ m \in Nat /\ m <= MaxMail /\ m # NoMail
         /\ archive[m].date \in Nat /\ archive[m].date \in 0..MaxDate
         /\ DOMAIN archive[m].refs \subseteq Nat
<1>1. archive[m] \in Header /\ m \in Mail
  BY DEF MailTypes
<1>2. PICK n \in 0..MaxRefs : archive[m].refs \in [1..n -> Mail]
  BY <1>1 DEF Header
<1> QED BY <1>1, <1>2, MailAssumption DEF Header, Mail, NoMail

\* The parent of a message is one in the archive, if any.
Forest(parent) == parent \in [Fetched -> Fetched \cup {NoMail}]

LEMMA ReplyToIs == MailTypes => Forest(ReplyTo)
<1> SUFFICES ASSUME MailTypes, NEW m \in Fetched PROVE Parent(m) \in Fetched \cup {NoMail}
  BY DEF Forest, ReplyTo
<1> DEFINE known == {i \in DOMAIN archive[m].refs : archive[m].refs[i] \in Fetched}
<1>1. CASE known = {}
  BY <1>1 DEF Parent
<1>2. CASE known # {}
  <2>1. known \subseteq Nat
    BY HeaderIs
  <2>2. \E i \in known : \A j \in known : i <= j
    BY <1>2, <2>1, LeastNat
  <2>3. Min(known) \in known
    BY <2>2, Zenon DEF Min
  <2>4. Parent(m) = archive[m].refs[Min(known)]
    BY <1>2 DEF Parent
  <2> QED BY <2>3, <2>4
<1> QED BY <1>1, <1>2

\* A subtree has its root and what leads to its members, and is the least such set.
LEMMA SubtreeHas ==
  ASSUME NEW parent, NEW root \in Fetched
  PROVE  /\ Subtree(root, parent) \subseteq Fetched
         /\ root \in Subtree(root, parent)
         /\ Closed(Subtree(root, parent), parent)
<1>1. Subtree(root, parent) \subseteq Fetched /\ root \in Subtree(root, parent)
  BY DEF Subtree
<1>2. ASSUME NEW m \in Fetched, parent[m] \in Subtree(root, parent),
             NEW S \in SUBSET Fetched, root \in S, Closed(S, parent)
      PROVE  m \in S
  <2>1. parent[m] \in S
    BY <1>2 DEF Subtree
  <2> QED BY <1>2, <2>1 DEF Closed
<1> QED BY <1>1, <1>2 DEF Subtree, Closed

LEMMA SubtreeLeast ==
  ASSUME NEW parent, NEW root, NEW S, S \subseteq Fetched, root \in S, Closed(S, parent)
  PROVE  Subtree(root, parent) \subseteq S
BY DEF Subtree

\* But for the root, the parents of its members are members.
LEMMA SubtreeBack ==
  ASSUME NEW parent, NEW root \in Fetched, NEW m \in Subtree(root, parent), m # root
  PROVE  parent[m] \in Subtree(root, parent)
<1> DEFINE T == Subtree(root, parent)
<1> SUFFICES ASSUME parent[m] \notin T PROVE FALSE
  OBVIOUS
<1>1. T \subseteq Fetched /\ root \in T /\ Closed(T, parent)
  BY SubtreeHas
<1> HIDE DEF T
<1>2. Closed(T \ {m}, parent)
  BY <1>1 DEF Closed
<1>3. Subtree(root, parent) \subseteq T \ {m}
  BY <1>1, <1>2, SubtreeLeast
<1> QED BY <1>3 DEF T

\* Subtrees of two messages that reply to none are apart.
LEMMA SubtreesApart ==
  ASSUME MailTypes, NEW parent, NEW q \in Fetched, NEW r \in Fetched, q # r,
         parent[q] = NoMail, parent[r] = NoMail
  PROVE  Subtree(q, parent) \cap Subtree(r, parent) = {}
<1> DEFINE S == Fetched \ Subtree(r, parent)
<1>1. NoMail \notin Fetched
  BY HeaderIs
<1>2. q \in S
  <2> SUFFICES ASSUME q \in Subtree(r, parent) PROVE FALSE
    OBVIOUS
  <2>1. parent[q] \in Subtree(r, parent)
    BY SubtreeBack
  <2> QED BY <1>1, <2>1, SubtreeHas
<1>3. Closed(S, parent)
  <2> SUFFICES ASSUME NEW m \in Fetched, parent[m] \in S, m \in Subtree(r, parent) PROVE FALSE
    BY DEF Closed
  <2>1. CASE m = r
    BY <1>1, <2>1
  <2>2. CASE m # r
    BY <2>2, SubtreeBack
  <2> QED BY <2>1, <2>2
<1>4. Subtree(q, parent) \subseteq S
  BY <1>2, <1>3, SubtreeLeast
<1> QED BY <1>4

\* The order of the roots is total and strict, so there is an oldest and a youngest.
LEMMA BeforeOrders ==
  ASSUME MailTypes
  PROVE  /\ \A m \in Fetched : ~Before(m, m)
         /\ \A m, n \in Fetched : Before(m, n) => ~Before(n, m)
         /\ \A m, n \in Fetched : m = n \/ Before(m, n) \/ Before(n, m)
         /\ \A m, n, o \in Fetched : Before(m, n) /\ Before(n, o) => Before(m, o)
<1>1. \A m \in Fetched : m \in Nat /\ archive[m].date \in Nat
  BY HeaderIs
<1>2. \A m \in Fetched : ~Before(m, m)
  BY <1>1 DEF Before
<1>3. \A m, n \in Fetched : Before(m, n) => ~Before(n, m)
  BY <1>1 DEF Before, Undated
<1>4. \A m, n \in Fetched : m = n \/ Before(m, n) \/ Before(n, m)
  BY <1>1 DEF Before, Undated
<1>5. \A m, n, o \in Fetched : Before(m, n) /\ Before(n, o) => Before(m, o)
  BY <1>1 DEF Before, Undated
<1> QED BY <1>2, <1>3, <1>4, <1>5

LEMMA OldestIs ==
  ASSUME MailTypes, NEW S, S \subseteq Fetched, S # {}
  PROVE  Oldest(S) \in S /\ \A n \in S \ {Oldest(S)} : Before(Oldest(S), n)
<1>1. \A m \in Fetched : m \in Nat /\ archive[m].date \in Nat
  BY HeaderIs
<1> DEFINE dated == {m \in S : archive[m].date # Undated}
           least == {archive[m].date : m \in dated}
<1>2. ASSUME NEW C, C \subseteq S, C # {}, NEW d \in Nat, \A m \in C : archive[m].date = d
      PROVE  \E m \in C : \A n \in C \ {m} : Before(m, n)
  <2>1. C \subseteq Nat
    BY <1>1, <1>2
  <2>2. PICK m \in C : \A n \in C : m <= n
    BY <1>2, <2>1, LeastNat
  <2>3. ASSUME NEW n \in C \ {m} PROVE Before(m, n)
    <3>1. m < n
      BY <2>1, <2>2
    <3> QED BY <1>2, <3>1 DEF Before
  <2> QED BY <2>3
<1>3. \E m \in S : \A n \in S \ {m} : Before(m, n)
  <2>1. CASE dated = {}
    <3>1. \A m \in S : archive[m].date = Undated
      BY <2>1
    <3> QED BY <1>2, <3>1 DEF Undated
  <2>2. CASE dated # {}
    <3>1. least \subseteq Nat /\ least # {}
      BY <1>1, <2>2
    <3> HIDE DEF least
    <3>2. PICK d \in least : \A e \in least : d <= e
      BY <3>1, LeastNat
    <3> DEFINE C == {m \in S : archive[m].date = d}
    <3>3. d \in Nat /\ d # Undated /\ C # {} /\ C \subseteq S
      BY <3>1, <3>2 DEF least
    <3>4. \A m \in C : archive[m].date = d
      OBVIOUS
    <3> HIDE DEF C
    <3>5. PICK m \in C : \A n \in C \ {m} : Before(m, n)
      BY <1>2, <3>3, <3>4
    <3>6. ASSUME NEW n \in S \ {m}, n \notin C PROVE Before(m, n)
      <4>1. archive[m].date = d /\ archive[n].date # d /\ archive[n].date \in Nat
        BY <1>1, <3>3, <3>4, <3>5, <3>6 DEF C
      <4>2. CASE archive[n].date = Undated
        BY <3>3, <4>1, <4>2 DEF Before
      <4>3. CASE archive[n].date # Undated
        <5>1. d <= archive[n].date
          BY <3>2, <3>6, <4>3 DEF least
        <5> QED BY <3>3, <4>1, <5>1 DEF Before
      <4> QED BY <4>2, <4>3
    <3> QED BY <3>3, <3>5, <3>6
  <2> QED BY <2>1, <2>2
<1> QED BY <1>3, Zenon DEF Oldest

\* The youngest is one that comes after all others, which every set has too: what
\* is undated, or dated last, and has the greatest number among those.
LEMMA YoungestIs ==
  ASSUME MailTypes, NEW S, S \subseteq Fetched, S # {}
  PROVE  Youngest(S) \in S
<1>1. \A m \in Fetched : m \in Nat /\ m \in 0..MaxMail
                      /\ archive[m].date \in Nat /\ archive[m].date \in 0..MaxDate
  BY HeaderIs
<1>2. ASSUME NEW C, C \subseteq S, C # {}, NEW d \in Nat, \A m \in C : archive[m].date = d
      PROVE  \E m \in C : \A n \in C \ {m} : Before(n, m)
  <2>1. C \subseteq 0..MaxMail /\ MaxMail \in Nat
    BY <1>1, <1>2, MailAssumption
  <2>2. PICK m \in C : \A n \in C : n <= m
    BY <1>2, <2>1, MostNat
  <2>3. ASSUME NEW n \in C \ {m} PROVE Before(n, m)
    <3>1. n \in Nat /\ m \in Nat /\ n <= m /\ n # m
      BY <2>1, <2>2
    <3>2. n < m
      BY <3>1
    <3> QED BY <1>2, <3>2 DEF Before
  <2> QED BY <2>3
<1> DEFINE undated == {m \in S : archive[m].date = Undated}
<1>3. \E m \in S : \A n \in S \ {m} : Before(n, m)
  <2>1. CASE undated # {}
    <3>1. \A m \in undated : archive[m].date = Undated
      OBVIOUS
    <3>2. PICK m \in undated : \A n \in undated \ {m} : Before(n, m)
      BY <1>2, <2>1, <3>1 DEF Undated
    <3>3. ASSUME NEW n \in S \ {m}, n \notin undated PROVE Before(n, m)
      BY <3>2, <3>3 DEF Before
    <3> QED BY <3>2, <3>3
  <2>2. CASE undated = {}
    <3> DEFINE dates == {archive[m].date : m \in S}
    <3>1. dates \subseteq 0..MaxDate /\ dates # {} /\ MaxDate \in Nat
      BY <1>1, MailAssumption
    <3> HIDE DEF dates
    <3>2. PICK d \in dates : \A e \in dates : e <= d
      BY <3>1, MostNat
    <3> DEFINE C == {m \in S : archive[m].date = d}
    <3>3. d \in Nat /\ C # {} /\ C \subseteq S
      BY <3>1, <3>2 DEF dates
    <3>4. \A m \in C : archive[m].date = d
      OBVIOUS
    <3> HIDE DEF C
    <3>5. PICK m \in C : \A n \in C \ {m} : Before(n, m)
      BY <1>2, <3>3, <3>4
    <3>6. ASSUME NEW n \in S \ {m}, n \notin C PROVE Before(n, m)
      <4>1. archive[m].date = d /\ archive[n].date # d /\ archive[n].date \in Nat
        BY <1>1, <3>3, <3>4, <3>5, <3>6 DEF C
      <4>2. archive[n].date <= d /\ archive[n].date # Undated
        BY <2>2, <3>2, <3>6 DEF dates
      <4> QED BY <3>3, <4>1, <4>2 DEF Before
    <3> QED BY <3>3, <3>5, <3>6
  <2> QED BY <2>1, <2>2
<1> QED BY <1>3, Zenon DEF Youngest

LEMMA LastDateIs ==
  ASSUME MailTypes, NEW S, S \subseteq Fetched
  PROVE  /\ LastDate(S) \in 0..MaxDate
         /\ LastDate(S) = Undated => \A m \in S : archive[m].date = Undated
         /\ LastDate(S) # Undated => \E m \in S : archive[m].date = LastDate(S)
<1> DEFINE dates == {archive[m].date : m \in S} \ {Undated}
<1>1. dates \subseteq 0..MaxDate /\ MaxDate \in Nat
  BY HeaderIs, MailAssumption
<1>2. LastDate(S) = IF dates = {} THEN Undated ELSE Max(dates)
  BY DEF LastDate
<1>3. CASE dates = {}
  BY <1>1, <1>2, <1>3 DEF Undated
<1>4. CASE dates # {}
  <2> HIDE DEF dates
  <2>1. \E d \in dates : \A e \in dates : e <= d
    BY <1>1, <1>4, MostNat
  <2>2. \E d \in dates : \A e \in dates : d >= e
    BY <1>1, <2>1
  <2>3. Max(dates) \in dates
    BY <2>2, Zenon DEF Max
  <2> QED BY <1>1, <1>2, <1>4, <2>3 DEF dates
<1> QED BY <1>3, <1>4

\* One step of the merging, and what its recursion says.
MergeNext(s) == IF s.left = {} THEN s ELSE Place(s, Oldest(s.left))

IsMerging(f, n) == f = [k \in 0..n |-> IF k = 0 THEN Unmerged ELSE MergeNext(f[k - 1])]

\* There is such a function: no least n is without one.
LEMMA MergingExists == \E f : IsMerging(f, MaxMail)
<1> USE MailAssumption
<1> DEFINE bad == {n \in 0..MaxMail : ~ \E f : IsMerging(f, n)}
<1> SUFFICES ASSUME bad # {} PROVE FALSE
  <2>1. MaxMail \in 0..MaxMail
    OBVIOUS
  <2> QED BY <2>1
<1>1. bad \subseteq Nat
  OBVIOUS
<1> HIDE DEF bad
<1>2. PICK n \in bad : \A m \in bad : n <= m
  BY <1>1, LeastNat
<1>3. n \in 0..MaxMail /\ ~ \E f : IsMerging(f, n)
  BY DEF bad
<1>4. CASE n = 0
  <2> DEFINE f == [k \in 0..0 |-> Unmerged]
  <2>1. f = [k \in 0..0 |-> IF k = 0 THEN Unmerged ELSE MergeNext(f[k - 1])]
    OBVIOUS
  <2>2. IsMerging(f, n)
    BY <1>4, <2>1 DEF IsMerging
  <2> QED BY <1>3, <2>2
<1>5. CASE n # 0
  <2>1. n - 1 \in 0..MaxMail /\ n - 1 \notin bad
    BY <1>1, <1>2, <1>3, <1>5
  <2>2. PICK g : IsMerging(g, n - 1)
    BY <2>1 DEF bad
  <2> DEFINE f == [k \in 0..n |-> IF k = n THEN MergeNext(g[n - 1]) ELSE g[k]]
  <2>3. \A k \in 0..(n - 1) : g[k] = IF k = 0 THEN Unmerged ELSE MergeNext(g[k - 1])
    BY <2>2, Zenon DEF IsMerging
  <2>4. ASSUME NEW k \in 0..n PROVE f[k] = IF k = 0 THEN Unmerged ELSE MergeNext(f[k - 1])
    <3>1. CASE k = n
      <4>1. n - 1 \in 0..n /\ n - 1 # n
        BY <1>3, <1>5
      <4>2. f[n - 1] = g[n - 1] /\ f[k] = MergeNext(g[n - 1])
        BY <3>1, <4>1
      <4> QED BY <1>5, <3>1, <4>2
    <3>2. CASE k # n
      <4>1. k \in 0..(n - 1)
        BY <1>3, <3>2
      <4>2. f[k] = g[k]
        BY <3>2
      <4>3. CASE k = 0
        BY <2>3, <4>1, <4>2, <4>3
      <4>4. CASE k # 0
        <5>1. k - 1 \in 0..n /\ k - 1 # n
          BY <1>3, <4>1, <4>4
        <5>2. f[k - 1] = g[k - 1]
          BY <5>1
        <5> QED BY <2>3, <4>1, <4>2, <4>4, <5>2
      <4> QED BY <4>3, <4>4
    <3> QED BY <3>1, <3>2
  <2>5. f = [k \in 0..n |-> f[k]]
    OBVIOUS
  <2> HIDE DEF f
  <2>6. IsMerging(f, n)
    BY <2>4, <2>5 DEF IsMerging
  <2> QED BY <1>3, <2>6
<1> QED BY <1>4, <1>5

LEMMA MergingIs ==
  /\ Merging[0] = Unmerged
  /\ \A n \in 1..MaxMail : Merging[n] = MergeNext(Merging[n - 1])
<1>1. Merging = CHOOSE f : IsMerging(f, MaxMail)
  BY Zenon DEF Merging, IsMerging, MergeNext
<1>2. IsMerging(Merging, MaxMail)
  BY <1>1, MergingExists, Zenon
<1>3. \A n \in 0..MaxMail : Merging[n] = IF n = 0 THEN Unmerged ELSE MergeNext(Merging[n - 1])
  BY <1>2, Zenon DEF IsMerging
<1>4. MaxMail \in Nat /\ 0 \in 0..MaxMail
  BY MailAssumption
<1>5. \A n \in 1..MaxMail : n \in 0..MaxMail /\ n # 0
  BY <1>4
<1> QED BY <1>3, <1>4, <1>5, Zenon

\* The messages of the cluster of r: what the roots that joined it lead to.
Joined(s, r) == {x \in Roots \ s.left : x = r \/ s.parents[x] = r}
Kin(s, r) == {n \in Fetched : \E x \in Joined(s, r) : n \in Subtree(x, ReplyTo)}

\* m begins no later than the window after n.
InTime(m, n) ==
  Undated \in {archive[m].date, archive[n].date} \/ archive[m].date - archive[n].date <= Window

\* A root that has joined a cluster is a reply, and in time for one of its messages.
PlacedHolds(s, m) ==
  /\ s.parents[m] \in DOMAIN s.last
  /\ Before(s.parents[m], m)
  /\ archive[m].subject = "reply"
  /\ \E n \in Kin(s, s.parents[m]) \ Subtree(m, ReplyTo) : InTime(m, n)

\* A cluster lasts to the date of one of its messages.
LastHolds(s, r) ==
  /\ s.last[r] \in 0..MaxDate
  /\ s.last[r] = Undated => archive[r].date = Undated
  /\ s.last[r] # Undated => \E n \in Kin(s, r) : archive[n].date = s.last[r]

\* What holds of the merging after any number of roots: who has another parent than by
\* replies has joined a cluster, and those placed come before those left.
MergeHolds(s) ==
  /\ s.left \subseteq Roots /\ DOMAIN s.last \subseteq Roots \ s.left
  /\ Forest(s.parents)
  /\ \A m \in Fetched \ ((Roots \ s.left) \ DOMAIN s.last) : s.parents[m] = ReplyTo[m]
  /\ \A m \in (Roots \ s.left) \ DOMAIN s.last : PlacedHolds(s, m)
  /\ \A m \in Roots \ s.left, n \in s.left : Before(m, n)
  /\ \A r \in DOMAIN s.last : LastHolds(s, r)

\* A root is alone of its kind in what it leads to.
LEMMA RootIs ==
  ASSUME MailTypes, NEW m \in Roots
  PROVE  /\ m \in Fetched /\ m # NoMail /\ ReplyTo[m] = NoMail
         /\ m \in Subtree(m, ReplyTo)
         /\ \A n \in Roots \ {m} : n \notin Subtree(m, ReplyTo)
<1>1. m \in Fetched /\ ReplyTo[m] = NoMail /\ m # NoMail
  BY HeaderIs DEF Roots
<1>2. m \in Subtree(m, ReplyTo)
  BY <1>1, SubtreeHas
<1>3. ASSUME NEW n \in Roots \ {m} PROVE n \notin Subtree(m, ReplyTo)
  <2>1. n \in Fetched /\ ReplyTo[n] = NoMail
    BY DEF Roots
  <2>2. n \in Subtree(n, ReplyTo)
    BY <2>1, SubtreeHas
  <2> QED BY <1>1, <2>1, <2>2, SubtreesApart
<1> QED BY <1>1, <1>2, <1>3

LEMMA UnmergedHolds ==
  ASSUME MailTypes
  PROVE  MergeHolds(Unmerged)
<1>1. Unmerged.left = Roots /\ Unmerged.parents = ReplyTo /\ DOMAIN Unmerged.last = {}
  BY DEF Unmerged
<1> QED BY <1>1, ReplyToIs DEF MergeHolds

LEMMA StartHolds ==
  ASSUME MailTypes, NEW s, MergeHolds(s), NEW m \in s.left, \A n \in s.left \ {m} : Before(m, n),
         NEW date, date = LastDate(Subtree(m, ReplyTo))
  PROVE  MergeHolds(Start(s, m, date))
<1> DEFINE t == Start(s, m, date)
<1>1. /\ t.left = s.left \ {m} /\ t.parents = s.parents
      /\ t.last = [r \in DOMAIN s.last \cup {m} |-> IF r = m THEN date ELSE s.last[r]]
  BY DEF Start
<1> HIDE DEF t
<1>2. m \in Roots /\ m \in Fetched /\ m \notin DOMAIN s.last
  BY RootIs DEF MergeHolds
<1>3. Roots \ t.left = (Roots \ s.left) \cup {m} /\ DOMAIN t.last = DOMAIN s.last \cup {m}
  BY <1>1, <1>2
<1>4. (Roots \ t.left) \ DOMAIN t.last = (Roots \ s.left) \ DOMAIN s.last
  BY <1>2, <1>3
<1>5. \A r : Kin(s, r) \subseteq Kin(t, r)
  BY <1>1, <1>3 DEF Kin, Joined
<1>6. t.left \subseteq Roots /\ DOMAIN t.last \subseteq Roots \ t.left /\ Forest(t.parents)
  BY <1>1, <1>2, <1>3 DEF MergeHolds
<1>7. \A x \in Fetched \ ((Roots \ t.left) \ DOMAIN t.last) : t.parents[x] = ReplyTo[x]
  BY <1>1, <1>4 DEF MergeHolds
<1>8. ASSUME NEW x \in (Roots \ t.left) \ DOMAIN t.last PROVE PlacedHolds(t, x)
  <2>1. PlacedHolds(s, x)
    BY <1>4 DEF MergeHolds
  <2> QED BY <2>1, <1>1, <1>3, <1>5 DEF PlacedHolds
<1>9. \A x \in Roots \ t.left, n \in t.left : Before(x, n)
  BY <1>1, <1>3 DEF MergeHolds
<1>10. ASSUME NEW r \in DOMAIN t.last PROVE LastHolds(t, r)
  <2>1. CASE r = m
    <3>1. t.last[r] = date
      BY <1>1, <2>1
    <3>2. Subtree(m, ReplyTo) \subseteq Kin(t, m) /\ m \in Subtree(m, ReplyTo)
      BY <1>2, <1>3, SubtreeHas DEF Kin, Joined
    <3>3. Subtree(m, ReplyTo) \subseteq Fetched
      BY <1>2, SubtreeHas
    <3> QED BY <2>1, <3>1, <3>2, <3>3, LastDateIs DEF LastHolds
  <2>2. CASE r # m
    <3>1. r \in DOMAIN s.last /\ t.last[r] = s.last[r]
      BY <1>1, <2>2
    <3>2. LastHolds(s, r)
      BY <3>1 DEF MergeHolds
    <3> QED BY <1>5, <3>1, <3>2 DEF LastHolds
  <2> QED BY <2>1, <2>2
<1>11. MergeHolds(t)
  BY <1>6, <1>7, <1>8, <1>9, <1>10 DEF MergeHolds
<1> QED BY <1>11 DEF t

LEMMA JoinHolds ==
  ASSUME MailTypes, NEW s, MergeHolds(s), NEW m \in s.left, \A n \in s.left \ {m} : Before(m, n),
         NEW date, date = LastDate(Subtree(m, ReplyTo)), NEW r \in Near(s.last, m)
  PROVE  MergeHolds(Join(s, m, r, date))
<1> DEFINE t == Join(s, m, r, date)
<1>1. /\ t.left = s.left \ {m} /\ t.parents = [s.parents EXCEPT ![m] = r]
      /\ t.last = [s.last EXCEPT ![r] = IF date > @ THEN date ELSE @]
  BY DEF Join
<1> HIDE DEF t
<1>2. /\ m \in Roots /\ m \in Fetched /\ m \notin DOMAIN s.last
      /\ r \in Roots /\ r \in Fetched /\ r \in DOMAIN s.last /\ r # m
  BY RootIs DEF MergeHolds, Near
<1>3. Roots \ t.left = (Roots \ s.left) \cup {m} /\ DOMAIN t.last = DOMAIN s.last
  BY <1>1, <1>2
<1>4. (Roots \ t.left) \ DOMAIN t.last = ((Roots \ s.left) \ DOMAIN s.last) \cup {m}
  BY <1>2, <1>3
<1>5. s.parents \in [Fetched -> Fetched \cup {NoMail}]
  BY DEF MergeHolds, Forest
<1>6. t.parents[m] = r /\ \A x \in Fetched \ {m} : t.parents[x] = s.parents[x]
  BY <1>1, <1>2, <1>5
<1>7. \A q : Joined(s, q) \subseteq Joined(t, q)
  <2>1. m \notin Roots \ s.left /\ Roots \subseteq Fetched
    BY DEF Roots
  <2> QED BY <1>3, <1>6, <2>1 DEF Joined
<1>8. \A q : Kin(s, q) \subseteq Kin(t, q)
  BY <1>7 DEF Kin
<1>9. t.left \subseteq Roots /\ DOMAIN t.last \subseteq Roots \ t.left /\ Forest(t.parents)
  <2>1. t.left \subseteq Roots /\ DOMAIN t.last \subseteq Roots \ t.left
    BY <1>1, <1>2, <1>3 DEF MergeHolds
  <2>2. t.parents \in [Fetched -> Fetched \cup {NoMail}]
    BY <1>1, <1>2, <1>5
  <2> QED BY <2>1, <2>2 DEF Forest
<1>10. \A x \in Fetched \ ((Roots \ t.left) \ DOMAIN t.last) : t.parents[x] = ReplyTo[x]
  BY <1>4, <1>6 DEF MergeHolds
<1>11. Before(r, m) /\ r \in Roots \ s.left /\ LastHolds(s, r)
  BY <1>2 DEF MergeHolds
<1>12. Kin(s, r) \cap Subtree(m, ReplyTo) = {} /\ r \in Kin(s, r)
  <2>1. ASSUME NEW x \in Roots \ s.left PROVE Subtree(x, ReplyTo) \cap Subtree(m, ReplyTo) = {}
    <3>1. x # m /\ x \in Fetched /\ ReplyTo[x] = NoMail /\ ReplyTo[m] = NoMail
      BY <1>2, RootIs
    <3> QED BY <1>2, <3>1, SubtreesApart
  <2>2. Kin(s, r) \cap Subtree(m, ReplyTo) = {}
    BY <2>1 DEF Kin, Joined
  <2> QED BY <1>2, <1>11, <2>2, SubtreeHas DEF Kin, Joined
<1>13. archive[m].subject = "reply" /\ \E n \in Kin(s, r) : InTime(m, n)
  <2>1. /\ archive[m].subject = "reply"
        /\ Undated \in {archive[m].date, s.last[r]} \/ archive[m].date - s.last[r] <= Window
    BY DEF Near
  <2>2. CASE archive[m].date = Undated \/ s.last[r] = Undated
    <3>1. archive[m].date = Undated \/ archive[r].date = Undated
      BY <2>2, <1>11 DEF LastHolds
    <3>2. InTime(m, r)
      BY <3>1 DEF InTime
    <3> QED BY <2>1, <3>2, <1>12
  <2>3. CASE archive[m].date # Undated /\ s.last[r] # Undated
    <3>1. PICK n \in Kin(s, r) : archive[n].date = s.last[r]
      BY <2>3, <1>11 DEF LastHolds
    <3>2. archive[m].date - archive[n].date <= Window
      BY <2>1, <2>3, <3>1
    <3>3. InTime(m, n)
      BY <3>2 DEF InTime
    <3> QED BY <2>1, <3>3
  <2> QED BY <2>2, <2>3
<1>14. ASSUME NEW x \in (Roots \ t.left) \ DOMAIN t.last PROVE PlacedHolds(t, x)
  <2>1. CASE x = m
    <3>1. PICK n \in Kin(s, r) : InTime(m, n)
      BY <1>13
    <3>2. n \in Kin(t, r) \ Subtree(m, ReplyTo)
      BY <3>1, <1>8, <1>12
    <3> QED BY <2>1, <3>1, <3>2, <1>2, <1>3, <1>6, <1>11, <1>13 DEF PlacedHolds
  <2>2. CASE x # m
    <3>1. PlacedHolds(s, x) /\ x \in Fetched
      BY <2>2, <1>4 DEF MergeHolds, Roots
    <3>2. t.parents[x] = s.parents[x]
      BY <2>2, <3>1, <1>6
    <3> QED BY <3>1, <3>2, <1>3, <1>8 DEF PlacedHolds
  <2> QED BY <2>1, <2>2
<1>15. \A x \in Roots \ t.left, n \in t.left : Before(x, n)
  BY <1>1, <1>3 DEF MergeHolds
<1>16. ASSUME NEW q \in DOMAIN t.last PROVE LastHolds(t, q)
  <2>0. q \in DOMAIN s.last /\ LastHolds(s, q)
    BY <1>3 DEF MergeHolds
  <2>1. CASE q = r /\ date > s.last[r]
    <3>1. t.last[q] = date
      BY <1>1, <1>2, <2>1
    <3>2. Subtree(m, ReplyTo) \subseteq Kin(t, r)
      BY <1>2, <1>3, <1>6, SubtreeHas DEF Kin, Joined
    <3>3. Subtree(m, ReplyTo) \subseteq Fetched
      BY <1>2, SubtreeHas
    <3>4. date \in 0..MaxDate /\ date # Undated
      BY <2>1, <3>3, <1>11, LastDateIs DEF LastHolds, Undated
    <3> QED BY <2>1, <3>1, <3>2, <3>3, <3>4, LastDateIs DEF LastHolds
  <2>2. CASE ~(q = r /\ date > s.last[r])
    <3>1. t.last[q] = s.last[q]
      BY <1>1, <1>2, <2>0, <2>2
    <3> QED BY <1>8, <2>0, <3>1 DEF LastHolds
  <2> QED BY <2>1, <2>2
<1>17. MergeHolds(t)
  BY <1>9, <1>10, <1>14, <1>15, <1>16 DEF MergeHolds
<1> QED BY <1>17 DEF t

LEMMA MergeNextHolds ==
  ASSUME MailTypes, NEW s, MergeHolds(s)
  PROVE  /\ MergeHolds(MergeNext(s))
         /\ IF s.left = {} THEN MergeNext(s).left = {}
            ELSE \E m \in s.left : MergeNext(s).left = s.left \ {m}
<1>1. CASE s.left = {}
  BY <1>1 DEF MergeNext
<1>2. CASE s.left # {}
  <2> DEFINE m == Oldest(s.left)  near == Near(s.last, m)  date == LastDate(Subtree(m, ReplyTo))
  <2>1. s.left \subseteq Fetched /\ DOMAIN s.last \subseteq Fetched
    BY DEF MergeHolds, Roots
  <2>2. m \in s.left /\ \A n \in s.left \ {m} : Before(m, n)
    BY <1>2, <2>1, OldestIs
  <2>3. near \subseteq Fetched
    BY <2>1 DEF Near
  <2>4. MergeNext(s) = IF near = {} THEN Start(s, m, date) ELSE Join(s, m, Youngest(near), date)
    BY <1>2 DEF MergeNext, Place
  <2> HIDE DEF m, near
  <2>5. CASE near = {}
    BY <1>2, <2>2, <2>4, <2>5, StartHolds DEF Start
  <2>6. CASE near # {}
    <3>1. Youngest(near) \in Near(s.last, m)
      BY <2>3, <2>6, YoungestIs DEF near
    <3>2. MergeHolds(Join(s, m, Youngest(near), date))
      BY <2>2, <3>1, JoinHolds
    <3>3. Join(s, m, Youngest(near), date).left = s.left \ {m}
      BY DEF Join
    <3> QED BY <1>2, <2>2, <2>4, <2>6, <3>2, <3>3
  <2> QED BY <2>5, <2>6
<1> QED BY <1>1, <1>2

\* The roots are all placed in time: each step takes one of at most MaxMail.
LEMMA MergingHolds ==
  ASSUME MailTypes
  PROVE  MergeHolds(Merging[MaxMail]) /\ Merging[MaxMail].left = {}
<1> DEFINE MergedBy(n) ==
      /\ MergeHolds(Merging[n])
      /\ \/ IsFiniteSet(Merging[n].left) /\ Cardinality(Merging[n].left) + n <= MaxMail
         \/ Merging[n].left = {}
    bad == {n \in 0..MaxMail : ~MergedBy(n)}
<1>1. MaxMail \in Nat
  BY MailAssumption
<1>2. bad = {}
  <2> SUFFICES ASSUME bad # {} PROVE FALSE
    OBVIOUS
  <2>1. bad \subseteq Nat
    BY <1>1
  <2> HIDE DEF bad
  <2>2. PICK n \in bad : \A k \in bad : n <= k
    BY <2>1, LeastNat
  <2>3. n \in 0..MaxMail /\ ~MergedBy(n)
    BY DEF bad
  <2>4. CASE n = 0
    <3>1. Merging[0].left = Roots /\ MergeHolds(Merging[0])
      BY MergingIs, UnmergedHolds DEF Unmerged
    <3>2. Roots \subseteq 1..MaxMail
      BY DEF Roots, MailTypes, Mail
    <3>3. IsFiniteSet(1..MaxMail) /\ Cardinality(1..MaxMail) = MaxMail
      BY <1>1, FS_Interval
    <3>4. IsFiniteSet(Roots) /\ Cardinality(Roots) <= MaxMail
      BY <3>2, <3>3, FS_Subset
    <3>5. Cardinality(Roots) \in Nat
      BY <3>4, FS_CardinalityType
    <3> QED BY <1>1, <2>3, <2>4, <3>1, <3>4, <3>5
  <2>5. CASE n # 0
    <3>1. n - 1 \in 0..MaxMail /\ n - 1 \notin bad /\ n \in 1..MaxMail
      BY <1>1, <2>1, <2>2, <2>3, <2>5
    <3>2. MergedBy(n - 1)
      BY <3>1 DEF bad
    <3>3. Merging[n] = MergeNext(Merging[n - 1])
      BY <3>1, MergingIs
    <3> DEFINE s == Merging[n - 1]  t == Merging[n]
    <3>4. /\ MergeHolds(t)
          /\ IF s.left = {} THEN t.left = {} ELSE \E m \in s.left : t.left = s.left \ {m}
      BY <3>2, <3>3, MergeNextHolds
    <3>5. CASE s.left = {}
      BY <2>3, <3>4, <3>5
    <3>6. CASE s.left # {}
      <4>1. PICK m \in s.left : t.left = s.left \ {m}
        BY <3>4, <3>6
      <4>2. IsFiniteSet(s.left) /\ Cardinality(s.left) + (n - 1) <= MaxMail
        BY <3>2, <3>6
      <4>3. IsFiniteSet(t.left) /\ Cardinality(t.left) = Cardinality(s.left) - 1
        BY <4>1, <4>2, FS_RemoveElement
      <4>4. Cardinality(s.left) \in Nat
        BY <4>2, FS_CardinalityType
      <4>5. Cardinality(t.left) + n <= MaxMail
        BY <1>1, <2>3, <4>2, <4>3, <4>4
      <4> QED BY <2>3, <3>4, <4>3, <4>5
    <3> QED BY <3>5, <3>6
  <2> QED BY <2>4, <2>5
<1>3. MergedBy(MaxMail)
  BY <1>1, <1>2
<1>4. Merging[MaxMail].left = {}
  <2> SUFFICES ASSUME IsFiniteSet(Merging[MaxMail].left),
                      Cardinality(Merging[MaxMail].left) + MaxMail <= MaxMail
               PROVE  Merging[MaxMail].left = {}
    BY <1>3
  <2>1. Cardinality(Merging[MaxMail].left) \in Nat
    BY FS_CardinalityType
  <2>2. Cardinality(Merging[MaxMail].left) = 0
    BY <1>1, <2>1
  <2> QED BY <2>2, FS_EmptySet
<1> QED BY <1>3, <1>4

\* What is collected from the root of a cluster is what its roots lead to.
LEMMA CollectedIsKin ==
  ASSUME MailTypes, NEW s, MergeHolds(s), s.left = {}, NEW r \in DOMAIN s.last
  PROVE  Subtree(r, s.parents) = Kin(s, r)
<1> DEFINE T == Subtree(r, s.parents)
<1>0. NoMail \notin Fetched
  BY HeaderIs
<1>1. r \in Roots /\ r \in Fetched /\ Roots \ s.left = Roots /\ Roots \subseteq Fetched
  BY DEF MergeHolds, Roots
<1>2. T \subseteq Fetched /\ r \in T /\ Closed(T, s.parents)
  BY <1>1, SubtreeHas
<1>3. \A m \in Fetched : m \in Roots \ DOMAIN s.last \/ s.parents[m] = ReplyTo[m]
  BY <1>1 DEF MergeHolds
<1>4. \A h \in DOMAIN s.last : h \in Roots /\ s.parents[h] = NoMail
  BY <1>1, <1>3, RootIs DEF MergeHolds
<1>5. \A m \in Roots \ DOMAIN s.last : s.parents[m] \in DOMAIN s.last
  BY <1>1 DEF MergeHolds, PlacedHolds
<1>6. Closed(Kin(s, r), s.parents)
  <2> SUFFICES ASSUME NEW m \in Fetched, s.parents[m] \in Kin(s, r) PROVE m \in Kin(s, r)
    BY DEF Closed
  <2>1. PICK x \in Joined(s, r) : s.parents[m] \in Subtree(x, ReplyTo)
    BY DEF Kin
  <2>2. x \in Roots /\ (x = r \/ s.parents[x] = r)
    BY <1>1 DEF Joined
  <2>3. CASE m \in Roots \ DOMAIN s.last
    <3>1. s.parents[m] \in DOMAIN s.last /\ s.parents[m] \in Roots /\ s.parents[s.parents[m]] = NoMail
      BY <1>4, <1>5, <2>3
    <3>2. s.parents[m] = x
      BY <2>1, <2>2, <3>1, RootIs
    <3>3. s.parents[m] = r
      BY <2>2, <3>1, <3>2, <1>0, <1>1
    <3>4. m \in Joined(s, r)
      BY <1>1, <2>3, <3>3 DEF Joined
    <3> QED BY <1>1, <3>4, SubtreeHas DEF Kin
  <2>4. CASE s.parents[m] = ReplyTo[m]
    <3>1. m \in Subtree(x, ReplyTo)
      BY <1>1, <2>1, <2>2, <2>4, SubtreeHas DEF Closed
    <3> QED BY <2>1, <3>1 DEF Kin
  <2> QED BY <1>3, <2>3, <2>4
<1>7. T \subseteq Kin(s, r)
  <2>1. r \in Kin(s, r) /\ Kin(s, r) \subseteq Fetched
    BY <1>1, SubtreeHas DEF Kin, Joined
  <2> QED BY <1>6, <2>1, SubtreeLeast
<1>8. ASSUME NEW x \in Joined(s, r) PROVE Subtree(x, ReplyTo) \subseteq T
  <2>1. x \in T
    <3>1. x \in Fetched /\ (x = r \/ s.parents[x] = r)
      BY <1>1 DEF Joined
    <3> QED BY <1>2, <3>1 DEF Closed
  <2>2. Closed(T, ReplyTo)
    <3> SUFFICES ASSUME NEW m \in Fetched, ReplyTo[m] \in T PROVE m \in T
      BY DEF Closed
    <3>1. m \notin Roots
      BY <1>0, <1>2 DEF Roots
    <3>2. s.parents[m] \in T
      BY <1>3, <3>1
    <3> QED BY <1>2, <3>2 DEF Closed
  <2> QED BY <1>2, <2>1, <2>2, SubtreeLeast
<1>9. Kin(s, r) \subseteq T
  BY <1>8 DEF Kin
<1> QED BY <1>7, <1>9

LEMMA ThreadsAreTrue ==
  ASSUME MailTypes
  PROVE  ThreadsTrue
<1> DEFINE s == Merging[MaxMail]
<1>1. MergeHolds(s) /\ s.left = {}
  BY MergingHolds
<1> DEFINE threads == {Subtree(r, s.parents) : r \in DOMAIN s.last}
<1>2. Threads = threads
  BY DEF Threads
<1> HIDE DEF s
<1>3. \A r \in DOMAIN s.last : Subtree(r, s.parents) = Kin(s, r)
  BY <1>1, CollectedIsKin
<1>4. NoMail \notin Fetched
  BY HeaderIs
<1>5. Roots \ s.left = Roots /\ Roots \subseteq Fetched /\ DOMAIN s.last \subseteq Roots
  BY <1>1 DEF MergeHolds, Roots
<1>6. \A h \in DOMAIN s.last : s.parents[h] = NoMail
  BY <1>1, <1>5, RootIs DEF MergeHolds
<1>7. \A m \in Roots \ DOMAIN s.last : PlacedHolds(s, m)
  BY <1>1, <1>5 DEF MergeHolds
\* A message of a thread that replies to none is one of the roots that joined it.
<1>8. ASSUME NEW r \in DOMAIN s.last, NEW m \in Kin(s, r), ReplyTo[m] = NoMail
      PROVE  m \in Roots /\ (m = r \/ s.parents[m] = r)
  <2>1. PICK x \in Joined(s, r) : m \in Subtree(x, ReplyTo)
    BY DEF Kin
  <2>2. x \in Roots /\ x \in Fetched /\ (x = r \/ s.parents[x] = r)
    BY <1>5 DEF Joined
  <2>3. m = x
    BY <1>4, <1>8, <2>1, <2>2, SubtreeBack, SubtreeHas
  <2> QED BY <2>2, <2>3
<1>9. \A S, T \in threads : S = T \/ S \cap T = {}
  <2> SUFFICES ASSUME NEW q \in DOMAIN s.last, NEW r \in DOMAIN s.last, q # r
               PROVE  Subtree(q, s.parents) \cap Subtree(r, s.parents) = {}
    OBVIOUS
  <2>1. q \in Fetched /\ r \in Fetched /\ s.parents[q] = NoMail /\ s.parents[r] = NoMail
    BY <1>5, <1>6
  <2> QED BY <2>1, SubtreesApart
<1>10. UNION threads = UNION {Subtree(m, ReplyTo) : m \in Roots}
  <2>1. ASSUME NEW r \in DOMAIN s.last, NEW n \in Subtree(r, s.parents)
        PROVE  \E m \in Roots : n \in Subtree(m, ReplyTo)
    BY <1>3, <1>5 DEF Kin, Joined
  <2>2. ASSUME NEW m \in Roots, NEW n \in Subtree(m, ReplyTo)
        PROVE  \E r \in DOMAIN s.last : n \in Subtree(r, s.parents)
    <3>1. PICK r \in DOMAIN s.last : m = r \/ s.parents[m] = r
      BY <1>7 DEF PlacedHolds
    <3>2. m \in Joined(s, r) /\ n \in Fetched
      BY <1>5, <3>1, SubtreeHas DEF Joined
    <3>3. n \in Kin(s, r)
      BY <3>2 DEF Kin
    <3> QED BY <1>3, <3>3
  <2> QED BY <2>1, <2>2
<1>11. ASSUME NEW r \in DOMAIN s.last, NEW m \in Subtree(r, s.parents), ReplyTo[m] # NoMail
       PROVE  ReplyTo[m] \in Subtree(r, s.parents)
  <2>1. PICK x \in Joined(s, r) : m \in Subtree(x, ReplyTo)
    BY <1>3 DEF Kin
  <2>2. x \in Roots /\ x \in Fetched /\ m # x
    BY <1>5, <1>11, RootIs DEF Joined
  <2>3. ReplyTo[m] \in Subtree(x, ReplyTo) /\ ReplyTo[m] \in Fetched
    BY <2>1, <2>2, SubtreeBack, SubtreeHas
  <2> QED BY <1>3, <2>1, <2>3 DEF Kin
<1>12. Partition(threads)
  BY <1>9, <1>10, <1>11 DEF Partition
<1>13. ASSUME NEW r \in DOMAIN s.last, NEW m \in Subtree(r, s.parents), ReplyTo[m] = NoMail,
              NEW o \in Subtree(r, s.parents), ReplyTo[o] = NoMail, Before(o, m)
       PROVE  /\ archive[m].subject = "reply"
              /\ \E n \in Subtree(r, s.parents) \ Subtree(m, ReplyTo) : InTime(m, n)
  <2>1. /\ m \in Roots /\ (m = r \/ s.parents[m] = r)
        /\ o \in Roots /\ (o = r \/ s.parents[o] = r)
    BY <1>3, <1>8, <1>13
  <2>2. m \in Fetched /\ o \in Fetched /\ r \in Fetched /\ r # NoMail
    BY <1>4, <1>5, <2>1
  <2>3. m # r
    <3> SUFFICES ASSUME m = r PROVE FALSE
      OBVIOUS
    <3>1. o # r
      BY <1>13, <2>2, BeforeOrders
    <3>2. s.parents[o] = r /\ o \notin DOMAIN s.last
      BY <1>6, <2>1, <2>2, <3>1
    <3>3. Before(r, o)
      BY <1>7, <2>1, <3>2 DEF PlacedHolds
    <3> QED BY <1>13, <2>2, <3>3, BeforeOrders
  <2>4. s.parents[m] = r /\ m \notin DOMAIN s.last
    BY <1>6, <2>1, <2>2, <2>3
  <2>5. PlacedHolds(s, m)
    BY <1>7, <2>1, <2>4
  <2> QED BY <1>3, <2>4, <2>5 DEF PlacedHolds
<1>14. JoinedInTime(threads)
  <2> SUFFICES ASSUME NEW r \in DOMAIN s.last, NEW m \in Subtree(r, s.parents), ReplyTo[m] = NoMail,
                      NEW o \in Subtree(r, s.parents), ReplyTo[o] = NoMail, Before(o, m)
               PROVE  /\ archive[m].subject = "reply"
                      /\ \E n \in Subtree(r, s.parents) \ Subtree(m, ReplyTo) :
                           \/ Undated \in {archive[m].date, archive[n].date}
                           \/ archive[m].date - archive[n].date <= Window
    BY Zenon DEF JoinedInTime
  <2> QED BY <1>13 DEF InTime
<1> QED BY <1>2, <1>12, <1>14 DEF ThreadsTrue

\* Whatever mail there is, in circles, undated or without parents, each message that a
\* root leads to is in one thread with what it replies to, and none is joined over a
\* silence or by a subject alone.
THEOREM ThreadsHoldTheMail == MailSpec => []ThreadsTrue
<1>1. MailInit => MailTypes
  BY DEF MailInit, MailTypes, Fetched
<1>2. MailTypes /\ [MailNext]_archive => MailTypes'
  <2> SUFFICES ASSUME MailTypes, [MailNext]_archive PROVE MailTypes'
    OBVIOUS
  <2>1. CASE MailNext
    <3>1. PICK m \in Mail, header \in Header : Arrive(m, header)
      BY <2>1 DEF MailNext
    <3>2. archive' = [n \in Fetched \cup {m} |-> IF n = m THEN header ELSE archive[n]]
      BY <3>1 DEF Arrive
    <3>3. Fetched' = Fetched \cup {m}
      BY <3>2 DEF Fetched
    <3> QED BY <3>2, <3>3 DEF MailTypes
  <2>2. CASE UNCHANGED archive
    BY <2>2 DEF MailTypes, Fetched
  <2> QED BY <2>1, <2>2
<1>3. MailTypes => ThreadsTrue
  BY ThreadsAreTrue
<1> QED BY <1>1, <1>2, <1>3, PTL DEF MailSpec
================================================================================
