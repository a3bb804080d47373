------------------------------ MODULE LiveCache ------------------------------
(***************************************************************************)
(* Live lookups in the Datatracker: an answer comes from the process's own *)
(* cache, from the copy on disk that the processes of a machine share, or  *)
(* from a request; when the request fails an old answer is better than     *)
(* none, and with no answer at all the caller is told so.                  *)
(*                                                                         *)
(* Sources: ietf_llm/live_lookup/cache.py, net/http_governor.py (the       *)
(* host's slots) and net/transport.py (governed_get without retries).      *)
(*                                                                         *)
(* A body is named by the time the server read it, so that the age of an   *)
(* answer can be told from what the caches say of it.                      *)
(***************************************************************************)
EXTENDS Integers, FiniteSets

CONSTANTS
  Lookup,      \* lookups, each on a thread of its own
  Process,     \* the processes of the machine: servers and command lines
  LiveUrl,     \* the documents looked up, all of one host
  Nobody,      \* "the lock is free", and of an idle lookup
  MaxNow,      \* bound: the clock
  MaxLookups,  \* bound: lookups begun
  LiveTTL,     \* _ttl_seconds, in ticks
  FetchTime,   \* bound: ticks from the server's answer to the last use of it
  Slots,       \* _cap_for: requests of one process to the host at a time
  LiveFaults   \* a subset of {"fetch", "disk", "exit"}

ASSUME LiveAssumption ==
  /\ Nobody \notin Lookup \cup Process \cup LiveUrl
  /\ MaxNow \in Nat \ {0} /\ MaxLookups \in Nat /\ LiveTTL \in Nat /\ FetchTime \in Nat /\ Slots \in Nat \ {0}
  /\ LiveFaults \subseteq {"fetch", "disk", "exit"}

Instant == 0..MaxNow     \* 0 stands for "no such entry"

VARIABLES
  begun,    \* the lookups begun so far
  now,      \* the clock, which all processes share
  memory,   \* _cache of each process
  disk,     \* .live-cache.json
  lock,     \* the lookup that holds .live-cache.json.lock, or Nobody
  inflight, \* the requests of each process that hold one of the host's slots
  lookup    \* the lookups' local variables, below

liveVars == <<begun, now, memory, disk, lock, inflight, lookup>>

Entry ==
  [read : Instant,   \* history: when the server read the body
   at   : Instant,   \* fetched_at
   mark : Instant]   \* the age counts from here: monotonic, or epoch on disk
NoCopy == [read |-> 0, at |-> 0, mark |-> 0]
Copies == [LiveUrl -> Entry]
NoCopies == [u \in LiveUrl |-> NoCopy]

LookupStage == {"idle", "disk", "promote", "fetch", "asked", "fallback", "remember",
                "lock", "write"}
Promise == {"age", "stamp", "absent", "outage"}
LookupFrame ==
  [pc     : LookupStage,
   proc   : Process \cup {Nobody},
   url    : LiveUrl \cup {Nobody},
   got    : Entry,         \* the entry it is dealing with
   gone   : BOOLEAN,       \* is the server's answer a 404?
   loaded : Copies,        \* what it has read of the file under the lock
   told   : BOOLEAN,       \* history: has the server said 404 to it?
   had    : BOOLEAN,       \* history: did its process hold an answer when it began?
   broken : SUBSET Promise] \* history: the promises its last answer has broken

IdleLookup ==
  [pc |-> "idle", proc |-> Nobody, url |-> Nobody,
   got |-> NoCopy, gone |-> FALSE, loaded |-> NoCopies, told |-> FALSE, had |-> FALSE,
   broken |-> {}]

LookupAt(l, stage) == lookup[l].pc = stage
Held(l)  == memory[lookup[l].proc][lookup[l].url]
Filed(l) == disk[lookup[l].url]
Exists(entry)  == entry.mark # 0
Current(entry) == Exists(entry) /\ now - entry.mark < LiveTTL
GoTo(l, stage) == lookup' = [lookup EXCEPT ![l].pc = stage]

LiveInit ==
  /\ begun = 0 /\ now = 1
  /\ memory = [p \in Process |-> NoCopies] /\ disk = NoCopies
  /\ lock = Nobody
  /\ inflight = [p \in Process |-> 0]
  /\ lookup = [l \in Lookup |-> IdleLookup]

\* The promises: a cached answer is less than one lifetime and one request old, and any
\* other no older than the request (the lifetime may be 0); the stamp is at most one
\* request younger than the body; "no such document" is the server's word; an outage
\* is only reported by a process that never had an answer.
Kept(promise, l, how, entry) ==
  CASE promise = "age"    -> how = "fresh" => \/ now - entry.read < LiveTTL + FetchTime
                                              \/ now - entry.read <= FetchTime
    [] promise = "stamp"  -> how \in {"fresh", "stale"} => entry.at - entry.read <= FetchTime
    [] promise = "absent" -> how = "absent" => lookup[l].told
    [] promise = "outage" -> how = "unavailable" => ~lookup[l].had

\* The lookup returns this entry, or nothing, and says which of both it is.
Return(l, how, entry) ==
  lookup' = [lookup EXCEPT ![l] = [IdleLookup EXCEPT
    !.broken = {promise \in Promise : ~Kept(promise, l, how, entry)}]]

-----------------------------------------------------------------------------
(* _cached_json: the two caches.                                           *)

\* What the process holds of u answers the lookup, or it goes on to the disk.
Consult(l, p, u) ==
  IF Current(memory[p][u]) THEN Return(l, "fresh", memory[p][u])
  ELSE lookup' = [lookup EXCEPT ![l] = [IdleLookup EXCEPT
         !.pc = "disk", !.proc = p, !.url = u, !.had = Exists(memory[p][u])]]

LookInMemory(l, p, u) ==
  /\ LookupAt(l, "idle") /\ begun < MaxLookups
  /\ begun' = begun + 1
  /\ Consult(l, p, u)
  /\ UNCHANGED <<now, memory, disk, lock, inflight>>

\* An unreadable file is a miss.
LookOnDisk(l) ==
  /\ LookupAt(l, "disk")
  /\ \/ /\ Current(Filed(l))
        /\ lookup' = [lookup EXCEPT ![l].pc = "promote", ![l].got = Filed(l)]
     \/ /\ ~Current(Filed(l)) \/ "disk" \in LiveFaults
        /\ GoTo(l, "fetch")
  /\ UNCHANGED <<begun, now, memory, disk, lock, inflight>>

\* Mutant of AgeOnDisk: the entry's age starts again.
AgeRestarts(entry) == now

\* Its real age goes with it.
AgeOnDisk(entry) == entry.mark

\* The disk's entry becomes the process's.
Promote(l) ==
  LET entry == [lookup[l].got EXCEPT !.mark = AgeOnDisk(lookup[l].got)] IN
  /\ LookupAt(l, "promote")
  /\ memory' = [memory EXCEPT ![lookup[l].proc][lookup[l].url] = entry]
  /\ Return(l, "fresh", entry)
  /\ UNCHANGED <<begun, now, disk, lock, inflight>>

-----------------------------------------------------------------------------
(* _fetch_json, in one of the host's slots.                                *)

\* The request takes a slot, and the server reads the document, or finds none.
Ask(l, gone) ==
  LET p == lookup[l].proc IN
  /\ LookupAt(l, "fetch") /\ inflight[p] < Slots
  /\ inflight' = [inflight EXCEPT ![p] = @ + 1]
  /\ lookup' = [lookup EXCEPT ![l] = [@ EXCEPT !.pc = "asked", !.gone = gone, !.told = gone,
                                               !.got = [NoCopy EXCEPT !.read = now]]]
  /\ UNCHANGED <<begun, now, memory, disk, lock>>

FreeSlot(l) == inflight' = [inflight EXCEPT ![lookup[l].proc] = @ - 1]

\* The answer arrives, and is stamped.
Receive(l) ==
  /\ LookupAt(l, "asked")
  /\ FreeSlot(l)
  /\ IF lookup[l].gone THEN Return(l, "absent", NoCopy)
     ELSE lookup' = [lookup EXCEPT ![l].pc = "remember", ![l].got.at = now]
  /\ UNCHANGED <<begun, now, memory, disk, lock>>

\* Mutant of FetchFails: the slot is given back only after an answer.
FetchFailsHolding(l) ==
  /\ "fetch" \in LiveFaults /\ LookupAt(l, "asked")
  /\ lookup' = [lookup EXCEPT ![l].pc = "fallback", ![l].got = NoCopy]
  /\ UNCHANGED <<begun, now, memory, disk, lock, inflight>>

\* It never does, or is no JSON object.
FetchFails(l) ==
  /\ "fetch" \in LiveFaults /\ LookupAt(l, "asked")
  /\ FreeSlot(l)
  /\ lookup' = [lookup EXCEPT ![l].pc = "fallback", ![l].got = NoCopy]
  /\ UNCHANGED <<begun, now, memory, disk, lock>>

\* _stale_entry: what the process holds, then what the disk holds, however old.
Fallback(l) ==
  /\ LookupAt(l, "fallback")
  /\ \/ Exists(Held(l)) /\ Return(l, "stale", Held(l))
     \/ ~Exists(Held(l)) /\ Exists(Filed(l)) /\ Return(l, "stale", Filed(l))
     \/ /\ ~Exists(Held(l)) /\ (~Exists(Filed(l)) \/ "disk" \in LiveFaults)
        /\ Return(l, "unavailable", NoCopy)
  /\ UNCHANGED <<begun, now, memory, disk, lock, inflight>>

\* The process keeps the answer, over whatever another lookup has put there.
Remember(l) ==
  /\ LookupAt(l, "remember")
  /\ memory' = [memory EXCEPT ![lookup[l].proc][lookup[l].url] = [lookup[l].got EXCEPT !.mark = now]]
  /\ GoTo(l, "lock")
  /\ UNCHANGED <<begun, now, disk, lock, inflight>>

-----------------------------------------------------------------------------
(* _disk_put.                                                              *)

\* Mutant of Load: the file is not locked.
LoadUnlocked(l) ==
  /\ LookupAt(l, "lock")
  /\ lookup' = [lookup EXCEPT ![l].pc = "write", ![l].loaded = disk]
  /\ UNCHANGED <<begun, now, memory, disk, lock, inflight>>

\* The file is locked, and read.
Load(l) ==
  /\ LookupAt(l, "lock") /\ lock = Nobody
  /\ lock' = l
  /\ lookup' = [lookup EXCEPT ![l].pc = "write", ![l].loaded = disk]
  /\ UNCHANGED <<begun, now, memory, disk, inflight>>

Unlock(l) == lock' = IF lock = l THEN Nobody ELSE lock

Answered(l) == Return(l, "fresh", [lookup[l].got EXCEPT !.mark = now])

\* What has expired goes, and the new entry is filed.
Write(l) ==
  /\ LookupAt(l, "write")
  /\ disk' = [u \in LiveUrl |-> IF u = lookup[l].url THEN [lookup[l].got EXCEPT !.mark = now]
                                ELSE IF Current(lookup[l].loaded[u]) THEN lookup[l].loaded[u]
                                ELSE NoCopy]
  /\ Unlock(l)
  /\ Answered(l)
  /\ UNCHANGED <<begun, now, memory, inflight>>

\* A read-only mount: nothing is filed.
WriteFails(l) ==
  /\ "disk" \in LiveFaults /\ lookup[l].pc \in {"lock", "write"}
  /\ Unlock(l)
  /\ Answered(l)
  /\ UNCHANGED <<begun, now, memory, disk, inflight>>

-----------------------------------------------------------------------------
(* The processes and the clock.                                            *)

\* A process ends, and its lookups with it; the system frees its lock.
Exit(p) ==
  LET mine == {l \in Lookup : lookup[l].pc # "idle" /\ lookup[l].proc = p} IN
  /\ "exit" \in LiveFaults
  /\ memory' = [memory EXCEPT ![p] = NoCopies]
  /\ inflight' = [inflight EXCEPT ![p] = 0]
  /\ lookup' = [l \in Lookup |-> IF l \in mine THEN IdleLookup ELSE lookup[l]]
  /\ lock' = IF lock \in mine THEN Nobody ELSE lock
  /\ UNCHANGED <<begun, now, disk>>

\* Time passes, and an answer is used within FetchTime of the server's reading it.
\* No tick falls between the reading of the disk's entry and its promotion.
LiveTick ==
  /\ now < MaxNow /\ (\A l \in Lookup : ~LookupAt(l, "promote"))
  /\ \A l \in Lookup :
       lookup[l].pc \in {"asked", "remember", "lock", "write"} => now - lookup[l].got.read < FetchTime
  /\ now' = now + 1
  /\ UNCHANGED <<begun, memory, disk, lock, inflight, lookup>>

LookUp(l) ==
  \/ (\E p \in Process, u \in LiveUrl : LookInMemory(l, p, u))
  \/ LookOnDisk(l) \/ Promote(l)
  \/ (\E gone \in BOOLEAN : Ask(l, gone)) \/ Receive(l) \/ FetchFails(l) \/ Fallback(l)
  \/ Remember(l) \/ Load(l) \/ Write(l) \/ WriteFails(l)

LiveNext == (\E l \in Lookup : LookUp(l)) \/ (\E p \in Process : Exit(p)) \/ LiveTick

LiveSpec == LiveInit /\ [][LiveNext]_liveVars

-----------------------------------------------------------------------------
(* Properties.                                                             *)

\* Every variable stays within the values its comment gives.
LiveTypeOK ==
  /\ begun \in 0..MaxLookups /\ now \in Instant \ {0}
  /\ memory \in [Process -> Copies] /\ disk \in Copies
  /\ lock \in Lookup \cup {Nobody}
  /\ inflight \in [Process -> 0..Slots]
  /\ lookup \in [Lookup -> LookupFrame]

\* Unless its own request has failed, a lookup answers with what the server held
\* less than one lifetime and one request ago, also when the body went from one
\* process's request through the disk into another's memory (_cached_json: no
\* "further full TTL").
FreshAnswers == \A l \in Lookup : "age" \notin lookup[l].broken

\* The stamp on an answer, stale ones included, is at most one request younger
\* than its body (age_stamp; "with its *original* timestamp").
HonestStamps == \A l \in Lookup : "stamp" \notin lookup[l].broken

\* "No such document" is only ever the server's word, never an outage
\* (LiveUnavailable: "callers must never render this as a negative").
OutageIsNoAnswer == \A l \in Lookup : "absent" \notin lookup[l].broken

\* A process that has had an answer never says that it cannot be had.
OldAnswerBeatsNone == \A l \in Lookup : "outage" \notin lookup[l].broken

\* What a client is told is true: of an answer its age, and of a failure that it is
\* one, or an old answer, and no absence.
AnswersTrue == FreshAnswers /\ HonestStamps /\ OutageIsNoAnswer /\ OldAnswerBeatsNone

\* A slot is held by a request under way, and by nothing else, whatever fails.
SlotsReturned ==
  \A p \in Process : inflight[p] = Cardinality({l \in Lookup : LookupAt(l, "asked") /\ lookup[l].proc = p})

\* The caches are of their types, and so are the slots' counts.
LiveInv == LiveTypeOK /\ SlotsReturned

\* What one process has filed is not lost to another that files something else
\* at the same time, as long as it is current ("do not clobber each other").
NotClobbered ==
  [][\A u \in LiveUrl : Current(disk[u]) => disk'[u].mark >= disk[u].mark]_liveVars
=============================================================================
