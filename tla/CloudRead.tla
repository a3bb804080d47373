------------------------------ MODULE CloudRead ------------------------------
(***************************************************************************)
(* Reading one corpus on one server of the fleet while gathers publish it: *)
(* the cache of resolved versions, the versions that requests pin, the     *)
(* trees staged on local scratch, the recovery of a read whose version was *)
(* reaped from the bucket, and the reaping of local scratch.               *)
(*                                                                         *)
(* Sources: ietf_llm/store/cloud.py (the read side), store/corpus.py (the  *)
(* pins), store/blobs_s3.py (materialise_prefix) and mcp/common.py         *)
(* (_requires_corpus).  Publishing is CloudPublish's; here it is the       *)
(* environment, which may do whatever AtomicPublish allows, the contract   *)
(* that CloudPublish implements: it makes a whole new version current and  *)
(* deletes blobs of the others, one at a time.                             *)
(*                                                                         *)
(* Every call runs on a thread of its own; one action is one request to    *)
(* the bucket, one section under a lock, or one step on the file system.   *)
(***************************************************************************)
EXTENDS Integers, FiniteSets

CONSTANTS
  Call,       \* tool calls and other reads, each on a worker thread
  Pinned,     \* the calls that pin their version; the others resolve each read
  MaxVersion, \* bound: how many versions are published
  File,       \* the files of a version
  Manifest,   \* its manifest blob
  Reads,      \* bound: how often a pinned call reads the corpus
  TTL,        \* resolve_ttl, in ticks
  Latency,    \* bound: ticks between reading the pointer and caching it
  Faults      \* a subset of {"error", "restart"}

ASSUME ConstantsAssumption ==
  /\ IsFiniteSet(Call) /\ Pinned \subseteq Call
  /\ MaxVersion \in Nat \ {0}
  /\ Manifest \notin File /\ File # {}
  /\ Reads \in Nat \ {0}
  /\ TTL \in Nat \ {0} /\ Latency \in Nat
  /\ Faults \subseteq {"error", "restart"}

None    == 0                     \* "no version"
Version == 1..MaxVersion
Part    == File \cup {Manifest}

VARIABLES
  pointer,  \* the current version in the bucket
  blobs,    \* the parts stored under each version
  cache,    \* _RESOLVE_CACHE: is there an entry, its version, ticks until it expires
  pins,     \* _pin_counts
  dirs,     \* the versions that have a directory on local scratch
  files,    \* the files in each of them
  call,     \* the calls' local variables, below
  cut,      \* history: the versions a sweep has begun to delete from scratch
  since     \* history: ticks since each version that is still cached, or about to be,
            \*   was superseded, up to Stale

bucket  == <<pointer, blobs>>
shared  == <<cache, pins>>
scratch == <<dirs, files, cut>>
vars    == <<bucket, shared, scratch, call, since>>

Over  == {"over", "lost"}
Stage == {"lookup", "caching", "resolved", "staging", "fetching", "renamed",
          "keeping", "sweeping", "opening", "missing", "recovering", "closing"} \cup Over
\* Calls that hold the pointer they have read, to put it into the cache.
Carrying == {"caching", "recovering"}
Stale    == TTL + Latency + 1

Frame ==
  [pc      : Stage,
   pin     : 0..MaxVersion,  \* the version it has pinned
   ver     : 0..MaxVersion,  \* the version it is dealing with
   fresh   : 0..MaxVersion,  \* the pointer it read when that version was missing
   age     : 0..Latency,     \* ticks since it read the pointer, if it is to cache it
   retried : BOOLEAN,        \* has it been given a newer version once?
   left    : 0..Reads,       \* the reads it has still to do
   todo    : SUBSET Part,    \* blob keys it has listed and not fetched
   got     : SUBSET Part,    \* the parts in its temporary directory
   keep    : SUBSET Version, \* the versions its sweep of scratch keeps ...
   doomed  : SUBSET Version, \* ... and those it deletes
   seen    : SUBSET Version, \* history: the versions its reads came from
   torn    : BOOLEAN]        \* history: did one of them find a file missing?

\* An unpinned read stands alone: a call of several is several calls.
NewCall(c) == [pc |-> "lookup", pin |-> None, ver |-> None, fresh |-> None, age |-> 0,
               retried |-> FALSE, left |-> IF c \in Pinned THEN Reads ELSE 1,
               todo |-> {}, got |-> {}, keep |-> {}, doomed |-> {}, seen |-> {}, torn |-> FALSE]
NoEntry == [held |-> FALSE, version |-> None, left |-> 0]

At(c, stage) == call[c].pc = stage
CacheVersion(v) == cache' = [held |-> TRUE, version |-> v, left |-> TTL]
Cached == cache.held /\ cache.left > 0

Init ==
  /\ pointer = None
  /\ blobs = [v \in Version |-> {}]
  /\ cache = NoEntry
  /\ pins = [v \in Version |-> 0]
  /\ dirs = {} /\ files = [v \in Version |-> {}]
  /\ call = [c \in Call |-> NewCall(c)]
  /\ cut = {}
  /\ since = [v \in Version |-> 0]

-----------------------------------------------------------------------------
(* The pins (corpus.py): the request's own, and a count for the sweeps.    *)

Unpin(c) ==
  IF call[c].pin = None THEN UNCHANGED pins ELSE pins' = [pins EXCEPT ![call[c].pin] = @ - 1]

\* The call ends, with an answer, a message or an error, or because of lost data.
End(c, how) ==
  /\ Unpin(c)
  /\ call' = [call EXCEPT ![c] = [NewCall(c) EXCEPT !.pc = how]]

-----------------------------------------------------------------------------
(* resolve_current, through the cache.                                     *)

\* Mutant of Hit: an entry that is asked for again lives on.
HitSlides(c) ==
  /\ At(c, "lookup") /\ Cached
  /\ call' = [call EXCEPT ![c].pc = "resolved", ![c].ver = cache.version]
  /\ CacheVersion(cache.version)
  /\ UNCHANGED <<bucket, pins, scratch, since>>

Hit(c) ==
  /\ At(c, "lookup") /\ Cached
  /\ call' = [call EXCEPT ![c].pc = "resolved", ![c].ver = cache.version]
  /\ UNCHANGED <<bucket, shared, scratch, since>>

\* On a miss the pointer is read, without the lock ...
Resolve(c) ==
  /\ At(c, "lookup") /\ ~Cached
  /\ call' = [call EXCEPT ![c].pc = "caching", ![c].ver = pointer]
  /\ UNCHANGED <<bucket, shared, scratch, since>>

\* ... and cached, over whatever has been cached meanwhile.
Cache(c) ==
  /\ At(c, "caching")
  /\ CacheVersion(call[c].ver)
  /\ call' = [call EXCEPT ![c].pc = "resolved", ![c].age = 0]
  /\ UNCHANGED <<bucket, pins, scratch, since>>

\* A request fails, and the call with it.
RequestFails(c) ==
  /\ "error" \in Faults
  /\ \/ call[c].pc \in {"staging", "fetching", "missing"}
     \/ At(c, "lookup") /\ ~Cached
  /\ End(c, "over")
  /\ UNCHANGED <<bucket, cache, scratch, since>>

\* An unknown corpus: _requires_corpus says so, another read finds nothing.
Unknown(c) ==
  /\ At(c, "resolved") /\ call[c].ver = None
  /\ End(c, "over")
  /\ UNCHANGED <<bucket, cache, scratch, since>>

\* _requires_corpus pins what it resolved; any other read uses it once.
Use(c) ==
  LET v == call[c].ver IN
  /\ At(c, "resolved") /\ v # None
  /\ IF c \in Pinned
     THEN /\ pins' = [pins EXCEPT ![v] = @ + 1]
          /\ call' = [call EXCEPT ![c].pc = "staging", ![c].pin = v]
     ELSE /\ UNCHANGED pins
          /\ call' = [call EXCEPT ![c].pc = "staging"]
  /\ UNCHANGED <<bucket, cache, scratch, since>>

-----------------------------------------------------------------------------
(* One read of a version: staged on scratch, or answered by its manifest.  *)

\* The read is answered; `whole` says whether it found every file.
Answer(c, whole) ==
  LET next == IF call[c].left = 1 THEN "closing" ELSE "staging" IN
  call' = [call EXCEPT ![c].pc = next, ![c].left = @ - 1,
                       ![c].seen = @ \cup {call[c].ver}, ![c].torn = @ \/ ~whole]

\* _staged_root: a directory that is there is taken to be whole.
Staged(c) ==
  /\ At(c, "staging") /\ call[c].ver \in dirs
  /\ call' = [call EXCEPT ![c].pc = "opening"]
  /\ UNCHANGED <<bucket, shared, scratch, since>>

Open(c) ==
  LET v == call[c].ver IN
  /\ At(c, "opening")
  /\ Answer(c, v \in dirs /\ files[v] = File)
  /\ UNCHANGED <<bucket, shared, scratch, since>>

\* has_file and list_files: the manifest answers for a version not staged here,
\* the one in the bucket or the one kept from an earlier read.
Peek(c) ==
  LET v == call[c].ver IN
  /\ At(c, "staging") /\ v \notin dirs
  /\ \/ Answer(c, TRUE)
     \/ Manifest \notin blobs[v] /\ call' = [call EXCEPT ![c].pc = "missing"]
  /\ UNCHANGED <<bucket, shared, scratch, since>>

\* materialise_prefix: the version's keys are listed, then fetched in any order.
List(c) ==
  LET v == call[c].ver IN
  /\ At(c, "staging") /\ v \notin dirs
  /\ call' = [call EXCEPT ![c].pc = "fetching", ![c].todo = blobs[v]]
  /\ UNCHANGED <<bucket, shared, scratch, since>>

Missing(c) == call' = [call EXCEPT ![c].pc = "missing", ![c].todo = {}, ![c].got = {}]

Fetch(c, p) ==
  /\ At(c, "fetching") /\ p \in call[c].todo
  /\ IF p \in blobs[call[c].ver]
     THEN call' = [call EXCEPT ![c].todo = @ \ {p}, ![c].got = @ \cup {p}]
     ELSE Missing(c)
  /\ UNCHANGED <<bucket, shared, scratch, since>>

\* The manifest is not among what was fetched, or a file that it lists.
Incomplete(c) ==
  /\ At(c, "fetching") /\ call[c].todo = {} /\ call[c].got # Part
  /\ Missing(c)
  /\ UNCHANGED <<bucket, shared, scratch, since>>

\* The tree is renamed into place, unless another call's is there already.
Rename(c, tree) ==
  LET v == call[c].ver IN
  /\ IF v \in dirs THEN UNCHANGED scratch
     ELSE /\ dirs' = dirs \cup {v}
          /\ files' = [files EXCEPT ![v] = tree]
          /\ cut' = cut \ {v}
  /\ call' = [call EXCEPT ![c].pc = "renamed", ![c].got = {}]
  /\ UNCHANGED <<bucket, shared, since>>

\* Mutant of Install: what was fetched is not compared with the manifest.
InstallUnverified(c) ==
  /\ At(c, "fetching") /\ call[c].todo = {}
  /\ Rename(c, call[c].got \ {Manifest})

\* _materialise_version, once the manifest and every file it lists are there.
Install(c) ==
  /\ At(c, "fetching") /\ call[c].todo = {} /\ call[c].got = Part
  /\ Rename(c, call[c].got \ {Manifest})

-----------------------------------------------------------------------------
(* _reap_scratch, which follows every materialise.                         *)

\* The pins are read under one lock ...
KeepPinned(c) ==
  /\ At(c, "renamed")
  /\ call' = [call EXCEPT ![c].pc = "keeping",
                          ![c].keep = {call[c].ver} \cup {v \in Version : pins[v] > 0}]
  /\ UNCHANGED <<bucket, shared, scratch, since>>

\* ... the cached version under another, and the directory is listed.
KeepCached(c) ==
  /\ At(c, "keeping")
  /\ LET cached == IF cache.held THEN {cache.version} ELSE {} IN
     call' = [call EXCEPT ![c].pc = "sweeping", ![c].keep = {},
                          ![c].doomed = dirs \ (call[c].keep \cup cached)]
  /\ UNCHANGED <<bucket, shared, scratch, since>>

\* rmtree takes one file after another, and the directory with the last one.
Unlink(c, v, f) ==
  /\ At(c, "sweeping") /\ v \in call[c].doomed \cap dirs /\ f \in files[v]
  /\ files' = [files EXCEPT ![v] = @ \ {f}]
  /\ IF files[v] = {f}
     THEN /\ dirs' = dirs \ {v} /\ cut' = cut \ {v}
          /\ call' = [call EXCEPT ![c].doomed = @ \ {v}]
     ELSE cut' = cut \cup {v} /\ UNCHANGED <<dirs, call>>
  /\ UNCHANGED <<bucket, shared, since>>

Swept(c) ==
  /\ At(c, "sweeping") /\ call[c].doomed \cap dirs = {}
  /\ call' = [call EXCEPT ![c].pc = "opening", ![c].doomed = {}]
  /\ UNCHANGED <<bucket, shared, scratch, since>>

Close(c) ==
  /\ At(c, "closing")
  /\ End(c, "over")
  /\ UNCHANGED <<bucket, cache, scratch, since>>

-----------------------------------------------------------------------------
(* _with_current: the version was reaped from the bucket under the read.   *)

\* The pointer is read again, past the cache.
Recover(c) ==
  /\ At(c, "missing") /\ (c \in Pinned \/ ~call[c].retried)
  /\ call' = [call EXCEPT ![c].pc = "recovering", ![c].fresh = pointer]
  /\ UNCHANGED <<bucket, shared, scratch, since>>

\* The version that could not be read is still the current one, or there is
\* none: data is lost, and the call fails.
DataLost(c) == End(c, "lost")

\* Mutant of Rerun: the pinned call goes on with the new version.
RerunInPlace(c) ==
  /\ Unpin(c)
  /\ call' = [call EXCEPT ![c] = [NewCall(c) EXCEPT !.pc = "resolved", !.ver = call[c].fresh,
                !.retried = TRUE, !.seen = call[c].seen, !.left = call[c].left]]

\* VersionVanished: _requires_corpus drops the pin and runs the whole call again
\* on the new version, once ...
Rerun(c) ==
  /\ Unpin(c)
  /\ call' = [call EXCEPT ![c] = [NewCall(c) EXCEPT !.pc = "resolved", !.ver = call[c].fresh,
                                                 !.retried = TRUE]]

\* Mutant of Tell: the second VersionVanished is not caught.
TellRaises(c) == End(c, "lost")

\* ... and the second time tells the client to ask again.
Tell(c) == End(c, "over")

\* Without a pin this one read is tried again on the new version.
Reread(c) ==
  /\ call' = [call EXCEPT ![c] = [@ EXCEPT !.pc = "staging", !.ver = call[c].fresh,
                                           !.fresh = None, !.age = 0, !.retried = TRUE]]
  /\ UNCHANGED pins

\* The pointer as it was read is written through the cache, and decides.
Resume(c) ==
  /\ At(c, "recovering")
  /\ CacheVersion(call[c].fresh)
  /\ IF call[c].fresh \in {None, call[c].ver} THEN DataLost(c)
     ELSE IF c \notin Pinned THEN Reread(c)
     ELSE IF call[c].retried THEN Tell(c) ELSE Rerun(c)
  /\ UNCHANGED <<bucket, scratch, since>>

\* An unpinned read fails the second time.
Lose(c) ==
  /\ At(c, "missing") /\ c \notin Pinned /\ call[c].retried
  /\ End(c, "lost")
  /\ UNCHANGED <<bucket, cache, scratch, since>>

-----------------------------------------------------------------------------
(* The fleet, the server and the clock.                                    *)

\* The versions are numbered as they become current.
Bucket == INSTANCE AtomicPublish
            WITH NoVersion <- None, current <- pointer, past <- 1..(pointer - 1), kept <- blobs

\* A gather publishes a version.  On this very server it is written through
\* the cache.
Publish(here) ==
  /\ pointer < MaxVersion
  /\ Bucket!Publish(pointer + 1)
  /\ IF here THEN CacheVersion(pointer + 1) ELSE UNCHANGED cache
  /\ UNCHANGED <<pins, scratch, call, since>>

\* A publish deletes a superseded version, blob after blob, however recent it is.
ReapBlob(v, p) ==
  /\ p \in blobs[v]
  /\ Bucket!Reap(v, {p})
  /\ UNCHANGED <<shared, scratch, call, since>>

\* Versions that are, or may yet be, in the cache.
Remembered ==
  {v \in Version : \/ cache.held /\ cache.version = v
                   \/ \E c \in Call : call[c].pc \in Carrying /\ v \in {call[c].ver, call[c].fresh}}

Smaller(m, n) == IF m < n THEN m ELSE n

\* Time passes; what was read of the pointer is cached within Latency.
Tick ==
  /\ \A c \in Call : call[c].pc \in Carrying => call[c].age < Latency
  /\ cache' = [cache EXCEPT !.left = IF @ > 0 THEN @ - 1 ELSE 0]
  /\ call' = [c \in Call |-> IF call[c].pc \in Carrying THEN [call[c] EXCEPT !.age = @ + 1]
                                                         ELSE call[c]]
  /\ since' = [v \in Version |-> IF v \in Remembered \ {pointer} THEN Smaller(since[v] + 1, Stale) ELSE 0]
  /\ UNCHANGED <<bucket, pins, scratch>>

\* The server restarts, with its scratch directory as it was, and the clients
\* call again.
Restart ==
  /\ "restart" \in Faults
  /\ call' = [c \in Call |-> IF call[c].pc \in Over THEN call[c] ELSE NewCall(c)]
  /\ cache' = NoEntry
  /\ pins' = [v \in Version |-> 0]
  /\ UNCHANGED <<bucket, scratch, since>>

Resolving(c) == Hit(c) \/ Resolve(c) \/ Cache(c) \/ Unknown(c) \/ Use(c)
Reading(c) ==
  \/ Staged(c) \/ Open(c) \/ Peek(c) \/ List(c) \/ (\E p \in Part : Fetch(c, p))
  \/ Incomplete(c) \/ Install(c) \/ RequestFails(c) \/ Close(c)
Sweeping(c) ==
  KeepPinned(c) \/ KeepCached(c) \/ (\E v \in Version, f \in File : Unlink(c, v, f)) \/ Swept(c)
Recovering(c) ==
  Recover(c) \/ Resume(c) \/ Lose(c)

Next ==
  \/ \E c \in Call : Resolving(c) \/ Reading(c) \/ Sweeping(c) \/ Recovering(c)
  \/ \E here \in BOOLEAN : Publish(here)
  \/ \E v \in Version, p \in Part : ReapBlob(v, p)
  \/ Tick
  \/ Restart

Spec == Init /\ [][Next]_vars

-----------------------------------------------------------------------------
(* Properties.                                                             *)

\* Every variable stays within the values its comment gives.
TypeOK ==
  /\ pointer \in 0..MaxVersion
  /\ blobs \in [Version -> SUBSET Part]
  /\ cache \in [held : BOOLEAN, version : 0..MaxVersion, left : 0..TTL]
  /\ pins \in [Version -> Nat]
  /\ dirs \in SUBSET Version /\ cut \in SUBSET Version
  /\ files \in [Version -> SUBSET File]
  /\ call \in [Call -> Frame]
  /\ since \in [Version -> 0..Stale]

\* A tool call answers from one version, whatever is published and reaped while
\* it runs ("every read in the request stays on one version", _requires_corpus).
OneVersionPerCall ==
  \A c \in Pinned, v, w \in Version : v \in call[c].seen /\ w \in call[c].seen => v = w

\* A tool call never fails because its version was reaped: it is run again, or
\* tells the client to ask again; another read fails only when the version it
\* was given on its second try was reaped too (_with_current).
NeverLostToReap ==
  [][\A c \in Call : (~At(c, "lost") /\ call'[c].pc = "lost")
       => c \notin Pinned /\ call[c].ver < pointer]_vars

\* What the cache answers was current at most TTL and the time of one lookup
\* ago ("a stale hit just serves a valid older version for up to the TTL").
CacheFreshEnough ==
  (Cached /\ cache.version # None) => since[cache.version] <= (TTL - cache.left) + Latency

\* A directory that no sweep has begun to delete holds the version's files, all
\* of them (_materialise_version: "a present dest_root is always a complete,
\* verified copy"), across concurrent fetches, reaped blobs and restarts.
StagedComplete == \A v \in dirs \ cut : files[v] = File

\* A version that some call has pinned is counted, so that no sweep that looks
\* from now on deletes it, whichever other calls unpin it.
PinsCounted == \A c \in Call : call[c].pin # None => pins[call[c].pin] > 0

\* A pinned call keeps its one version, on disk as in its answers: its pin counts
\* until it unpins, and it reads nothing else.
PinsHold == PinsCounted /\ OneVersionPerCall

\* What the server keeps between calls is of its type, and its trees are whole.
ReadInv == TypeOK /\ StagedComplete

\* No tool call reads a tree that a sweep has cut into ("so a live read is never
\* reaped", _reap_scratch).
NoTornRead == \A c \in Pinned : ~call[c].torn
=============================================================================
