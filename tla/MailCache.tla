----------------------------- MODULE MailCache -----------------------------
(***************************************************************************)
(* The cached mail of one mailing list of one corpus, on the hosts that    *)
(* gather it in turn and in the store they share: a gather restores the    *)
(* stored mail, syncs it with the IMAP folder, rebuilds the threads from   *)
(* every message on its disk, and stores what it has.                      *)
(*                                                                         *)
(* Sources: ietf_llm/gather/sources/cache_sync.py and mbox.py.             *)
(*                                                                         *)
(* A UID names one message within one UIDVALIDITY epoch of the folder, so  *)
(* a message is its epoch and its UID.  The mail of the epoch a cache is   *)
(* in is its main unit; mail of each earlier epoch n is an archive unit,   *)
(* epoch-<n>.  A unit is a directory on a host, and an index and chunks of *)
(* consecutive UIDs in the store.                                          *)
(*                                                                         *)
(* The corpus's lease, which CloudPublish models, lets one gather run at a *)
(* time.  An action is one request to the store, one section of local file *)
(* operations, or one answer of the IMAP server.                           *)
(***************************************************************************)
EXTENDS Integers, FiniteSets

CONSTANTS
  Host,       \* the hosts that gather the corpus
  Uid,        \* the UIDs of the folder
  ChunkSize,  \* _IMAP_CHUNK_UIDS
  MaxEpoch,   \* bound: how many UIDVALIDITY epochs the folder goes through
  MaxGathers, \* bound: how many gathers are begun
  Retries,    \* IMAP_RETRIES
  Faults      \* a subset of {"imap", "short", "store", "wipe"}

ASSUME ConstantsAssumption ==
  /\ Uid \subseteq Nat
  /\ ChunkSize \in Nat \ {0} /\ MaxEpoch \in Nat \ {0}
  /\ MaxGathers \in Nat /\ Retries \in Nat
  /\ Faults \subseteq {"imap", "short", "store", "wipe"}

Epoch == 1..MaxEpoch
None  == 0         \* no epoch, no file
Main  == 0         \* the main unit; any other unit is the archive of its epoch
Unit  == {Main} \cup Epoch

\* Messages by UID: the epoch of the message that a file or chunk member holds.
Mail  == [Uid -> Epoch \cup {None}]
Empty == [u \in Uid |-> None]
Has(mail)     == {u \in Uid : mail[u] # None}
ChunkOf(u)    == u \div ChunkSize
Chunk         == {ChunkOf(u) : u \in Uid}
Within(c)     == {u \in Uid : ChunkOf(u) = c}
ChunksOf(S)   == {ChunkOf(u) : u \in S}
Least(S)      == CHOOSE n \in S : \A m \in S : n <= m
Index         == [epoch : Epoch \cup {None}, uids : SUBSET Uid]
NoIndex       == [epoch |-> None, uids |-> {}]

VARIABLES
  epoch,    \* the folder's UIDVALIDITY
  marker,   \* each host's .uidvalidity
  verified, \* and .verified-uidvalidity
  disk,     \* the .eml files of each unit on each host
  index,    \* each unit's index.json in the store
  chunks,   \* the messages in each unit's chunks in the store
  gather,   \* the running gather: its host and its local variables
  begun     \* how many gathers were begun

local == <<marker, verified, disk>>
store == <<index, chunks>>
vars  == <<epoch, local, store, gather, begun>>

Stage == {"idle", "clearing", "hydrating", "restoring", "syncing", "moving", "searching",
          "downloading", "threads", "archiving", "listing", "uploading", "deleting"}
\* The stages with an open IMAP session, in which the folder keeps its UIDs.
Session == {"moving", "searching", "downloading"}

Run ==
  [pc     : Stage,
   host   : Host,
   cached : Epoch \cup {None}, \* the epoch its cache is in, as hydrate or persist read it
   unit   : Unit,              \* the stored unit it is dealing with ...
   into   : Unit,              \* ... and the local one
   stored : Index,             \* that unit's index, as it was read
   todo   : SUBSET Chunk,      \* the chunks of the unit still to do
   units  : SUBSET Unit,       \* the units still to do
   uids   : SUBSET Uid,        \* the new index, or the UIDs to download
   failed : BOOLEAN,           \* has a fetch from the store failed?
   tries  : 0..Retries]        \* IMAP attempts made before this one
NewRun(h) == [pc |-> "idle", host |-> h, cached |-> None, unit |-> Main, into |-> Main,
              stored |-> NoIndex, todo |-> {}, units |-> {}, uids |-> {}, failed |-> FALSE,
              tries |-> 0]

At(stage) == gather.pc = stage
me == gather.host
Goto(stage) == gather' = [gather EXCEPT !.pc = stage]
Ended == gather' = NewRun(me)

\* Both known and unequal: an unknown epoch matches anything.
Differ(d, e) == d # None /\ e # None /\ d # e

Init ==
  /\ epoch = 1
  /\ marker = [h \in Host |-> None] /\ verified = [h \in Host |-> None]
  /\ disk = [h \in Host |-> [n \in Unit |-> Empty]]
  /\ index = [n \in Unit |-> NoIndex]
  /\ chunks = [n \in Unit |-> Empty]
  /\ gather \in {NewRun(h) : h \in Host}
  /\ begun = 0

-----------------------------------------------------------------------------
(* A gather begins, with --clear-cache or without (run_gather, clear).     *)

Begin(h, clear) ==
  /\ At("idle") /\ begun < MaxGathers
  /\ begun' = begun + 1
  /\ gather' = [NewRun(h) EXCEPT !.pc = IF clear THEN "clearing" ELSE "hydrating",
                                 !.units = IF clear THEN Unit ELSE {}]
  /\ UNCHANGED <<epoch, local, store>>

\* clear: unit after unit, the index before the chunks it names ...
ClearIndex ==
  /\ At("clearing") /\ gather.units # {}
  /\ LET n == Least(gather.units) IN
     /\ index[n] # NoIndex
     /\ index' = [index EXCEPT ![n] = NoIndex]
  /\ UNCHANGED <<epoch, local, chunks, gather, begun>>

ClearChunks ==
  /\ At("clearing") /\ gather.units # {}
  /\ LET n == Least(gather.units) IN
     /\ index[n] = NoIndex
     /\ chunks' = [chunks EXCEPT ![n] = Empty]
     /\ gather' = [gather EXCEPT !.units = @ \ {n}]
  /\ UNCHANGED <<epoch, local, index, begun>>

\* ... and then clear_local_state.
ClearLocal ==
  /\ At("clearing") /\ gather.units = {}
  /\ marker' = [marker EXCEPT ![me] = None]
  /\ verified' = [verified EXCEPT ![me] = None]
  /\ disk' = [disk EXCEPT ![me] = [n \in Unit |-> Empty]]
  /\ Goto("hydrating")
  /\ UNCHANGED <<epoch, store, begun>>

-----------------------------------------------------------------------------
(* hydrate: the stored mail that this host lacks.                          *)

\* Mutant of LoadMain: the stored mail goes into the main unit, whatever its epoch.
LoadMainMixed ==
  /\ At("hydrating")
  /\ verified' = [verified EXCEPT ![me] = None]
  /\ marker' = [marker EXCEPT ![me] = IF @ = None THEN index[Main].epoch ELSE @]
  /\ gather' = [gather EXCEPT !.pc = "restoring", !.cached = marker[me], !.unit = Main,
       !.into = Main, !.stored = index[Main], !.todo = ChunksOf(index[Main].uids),
       !.units = {n \in Epoch \ {marker[me]} : index[n].uids # {}}]
  /\ UNCHANGED <<epoch, disk, store, begun>>

\* forget_verified, and the main unit's index: mail of another epoch than the
\* cache's goes into its archive's directory.  Archives are restored after it, but
\* for that of the cache's own epoch.
LoadMain ==
  /\ At("hydrating")
  /\ verified' = [verified EXCEPT ![me] = None]
  /\ marker' = [marker EXCEPT ![me] = IF @ = None THEN index[Main].epoch ELSE @]
  /\ gather' = [gather EXCEPT !.pc = "restoring", !.cached = marker[me], !.unit = Main,
       !.into = IF Differ(marker[me], index[Main].epoch) THEN index[Main].epoch ELSE Main,
       !.stored = index[Main], !.todo = ChunksOf(index[Main].uids),
       !.units = {n \in Epoch \ {marker[me]} : index[n].uids # {}}]
  /\ UNCHANGED <<epoch, disk, store, begun>>

\* One chunk: fetched unless all its mail is here, and only the files that are
\* missing are written.
RestoreChunk ==
  /\ gather.pc \in {"restoring", "archiving"}
  /\ gather.todo # {}
  /\ LET c    == Least(gather.todo)
         dir  == disk[me][gather.into]
         held == gather.stored.uids \cap Within(c) \subseteq Has(dir)
     IN
     \/ /\ disk' = [disk EXCEPT ![me][gather.into] =
              [u \in Uid |-> IF ~held /\ u \in Within(c) \ Has(dir)
                             THEN chunks[gather.unit][u] ELSE dir[u]]]
        /\ gather' = [gather EXCEPT !.todo = @ \ {c}]
     \/ /\ "store" \in Faults /\ ~held
        /\ gather' = [gather EXCEPT !.todo = @ \ {c}, !.failed = TRUE]
        /\ UNCHANGED disk
  /\ UNCHANGED <<epoch, marker, verified, store, begun>>

\* The next archive's index.
LoadArchive ==
  /\ At("restoring") /\ gather.todo = {} /\ gather.units # {}
  /\ LET n == Least(gather.units) IN
     \/ gather' = [gather EXCEPT !.unit = n, !.into = n, !.stored = index[n],
                                 !.todo = ChunksOf(index[n].uids), !.units = @ \ {n}]
     \/ "store" \in Faults /\ gather' = [gather EXCEPT !.units = @ \ {n}, !.failed = TRUE]
  /\ UNCHANGED <<epoch, local, store, begun>>

\* A failed fetch fails the gather, after everything else is restored
\* (GatherCacheRestoreError).
HydrateFails ==
  /\ At("restoring") /\ gather.todo = {} /\ gather.units = {} /\ gather.failed
  /\ Ended
  /\ UNCHANGED <<epoch, local, store, begun>>

\* Mutant of HydrateEnds: a failed fetch is a note.
HydrateEndsAnyway ==
  /\ At("restoring") /\ gather.todo = {} /\ gather.units = {}
  /\ Goto("syncing")
  /\ UNCHANGED <<epoch, local, store, begun>>

HydrateEnds ==
  /\ At("restoring") /\ gather.todo = {} /\ gather.units = {} /\ ~gather.failed
  /\ Goto("syncing")
  /\ UNCHANGED <<epoch, local, store, begun>>

-----------------------------------------------------------------------------
(* The sync with the folder (_sync_one_list, _imap_sync_attempt).          *)

\* _reconcile_uidvalidity: the cache is in the folder's epoch, or in none ...
Adopt ==
  /\ At("syncing") /\ ~Differ(marker[me], epoch)
  /\ marker' = [marker EXCEPT ![me] = epoch]
  /\ verified' = [verified EXCEPT ![me] = epoch]
  /\ Goto("searching")
  /\ UNCHANGED <<epoch, disk, store, begun>>

\* ... or the folder was renumbered, and file after file moves to the archive of
\* the epoch the cache was in ...
Reconcile ==
  /\ At("syncing") /\ Differ(marker[me], epoch)
  /\ Goto("moving")
  /\ UNCHANGED <<epoch, local, store, begun>>

Move(u) ==
  /\ At("moving") /\ u \in Has(disk[me][Main])
  /\ disk' = [disk EXCEPT ![me][Main][u] = None, ![me][marker[me]][u] = disk[me][Main][u]]
  /\ UNCHANGED <<epoch, marker, verified, store, gather, begun>>

\* ... before the new epoch is written, and recorded as confirmed.
Moved ==
  /\ At("moving") /\ Has(disk[me][Main]) = {}
  /\ marker' = [marker EXCEPT ![me] = epoch]
  /\ verified' = [verified EXCEPT ![me] = epoch]
  /\ Goto("searching")
  /\ UNCHANGED <<epoch, disk, store, begun>>

\* The search answers with the UIDs of the window, an interval.
Search(from, to) ==
  /\ At("searching")
  /\ gather' = [gather EXCEPT !.pc = "downloading",
                              !.uids = {u \in Uid : from <= u /\ u <= to} \ Has(disk[me][Main])]
  /\ UNCHANGED <<epoch, local, store, begun>>

\* An attempt failed: the next one, or what is cached has to do.
Retry == IF gather.tries < Retries
         THEN gather' = [gather EXCEPT !.pc = "syncing", !.uids = {}, !.tries = @ + 1]
         ELSE gather' = [gather EXCEPT !.pc = "threads", !.uids = {}, !.tries = 0]

\* What the server delivers is written; a short fetch is retried, and then noted.
Download(got) ==
  /\ At("downloading") /\ got \subseteq gather.uids
  /\ disk' = [disk EXCEPT ![me][Main] = [u \in Uid |-> IF u \in got THEN epoch ELSE @[u]]]
  /\ IF got = gather.uids THEN gather' = [gather EXCEPT !.pc = "threads", !.uids = {}, !.tries = 0]
                          ELSE "short" \in Faults /\ Retry
  /\ UNCHANGED <<epoch, marker, verified, store, begun>>

\* A connection fails, and a second one: no mail is gathered this time.
SyncFails ==
  /\ "imap" \in Faults
  /\ gather.pc \in {"syncing", "searching"}
  /\ Retry
  /\ UNCHANGED <<epoch, local, store, begun>>

-----------------------------------------------------------------------------
(* The threads are rebuilt and published; then persist.                    *)

\* The stored main unit is replaced only if this gather's sync confirmed the
\* cache's epoch ...
Unconfirmed ==
  /\ At("threads")
  /\ Differ(marker[me], index[Main].epoch) /\ verified[me] # marker[me]
  /\ Ended
  /\ UNCHANGED <<epoch, local, store, begun>>

\* ... and once its mail is on this host's disk, to be stored as an archive.
Persist ==
  LET old == index[Main].epoch IN
  /\ At("threads")
  /\ Differ(marker[me], old) => verified[me] = marker[me]
  /\ gather' = [gather EXCEPT !.pc = "archiving", !.cached = marker[me], !.unit = Main,
       !.into = IF Differ(marker[me], old) THEN old ELSE Main, !.stored = index[Main],
       !.todo = IF Differ(marker[me], old) THEN ChunksOf(index[Main].uids) ELSE {}]
  /\ UNCHANGED <<epoch, local, store, begun>>

\* A failure to fetch it abandons the list.
ListArchives ==
  /\ At("archiving") /\ gather.todo = {}
  /\ IF gather.failed THEN Ended
     ELSE gather' = [gather EXCEPT !.pc = "listing",
            !.units = {n \in Epoch \ {gather.cached} : Has(disk[me][n]) # {}}]
  /\ UNCHANGED <<epoch, local, store, begun>>

\* _persist_unit, for the unit as the store has it, or (no base) to replace it.
Upload(n, base) ==
  gather' = [gather EXCEPT !.pc = "uploading", !.unit = n, !.into = n, !.stored = index[n],
    !.uids = base, !.todo = ChunksOf(Has(disk[me][n])), !.units = @ \ {n}]

\* The archives come first ...
UploadArchive ==
  /\ At("listing") /\ gather.units # {}
  /\ LET n == Least(gather.units) IN Upload(n, index[n].uids)
  /\ UNCHANGED <<epoch, local, store, begun>>

\* ... and the main unit last.
UploadMain ==
  /\ At("listing") /\ gather.units = {} /\ ~Differ(gather.cached, index[Main].epoch)
  /\ IF Has(disk[me][Main]) = {} THEN Ended ELSE Upload(Main, index[Main].uids)
  /\ UNCHANGED <<epoch, local, store, begun>>

\* Mutant of ReplaceMain: the main unit does not wait for the archives.
ReplaceMainFirst ==
  /\ At("listing") /\ Differ(gather.cached, index[Main].epoch)
  /\ IF Has(disk[me][Main]) = {} THEN Ended /\ UNCHANGED index
     ELSE /\ Upload(Main, {})
          /\ index' = [index EXCEPT ![Main] = [epoch |-> gather.cached, uids |-> {}]]
  /\ UNCHANGED <<epoch, local, chunks, begun>>

\* An index of the old epoch is emptied before any of its chunks is touched.
ReplaceMain ==
  /\ At("listing") /\ gather.units = {} /\ Differ(gather.cached, index[Main].epoch)
  /\ IF Has(disk[me][Main]) = {} THEN Ended /\ UNCHANGED index
     ELSE /\ Upload(Main, {})
          /\ index' = [index EXCEPT ![Main] = [epoch |-> gather.cached, uids |-> {}]]
  /\ UNCHANGED <<epoch, local, chunks, begun>>

Replacing == gather.unit = Main /\ Differ(gather.cached, gather.stored.epoch)
Base      == IF Replacing THEN {} ELSE gather.stored.uids

\* A chunk that is not stored as it is here is put; stored mail that this host
\* lacks is folded into it.
PutChunk ==
  /\ At("uploading") /\ gather.todo # {}
  /\ LET c    == Least(gather.todo)
         dir  == disk[me][gather.unit]
         uids == Has(dir) \cap Within(c)
         have == Base \cap Within(c)
         fold == ~(have \subseteq uids)
         new  == [u \in Uid |-> IF u \notin Within(c) \/ (dir[u] = None /\ fold)
                                THEN chunks[gather.unit][u] ELSE dir[u]]
     IN IF uids = have
        THEN gather' = [gather EXCEPT !.todo = @ \ {c}] /\ UNCHANGED chunks
        ELSE /\ chunks' = [chunks EXCEPT ![gather.unit] = new]
             /\ gather' = [gather EXCEPT !.todo = @ \ {c},
                             !.uids = (@ \ Within(c)) \cup (Has(new) \cap Within(c))]
  /\ UNCHANGED <<epoch, local, index, begun>>

\* The index follows its chunks; an archive's names no epoch.
PutIndex ==
  LET n == gather.unit IN
  /\ At("uploading") /\ gather.todo = {}
  /\ index' = [index EXCEPT ![n] =
       [epoch |-> IF n = Main /\ gather.cached # None THEN gather.cached ELSE gather.stored.epoch,
        uids  |-> gather.uids]]
  /\ gather' = [gather EXCEPT !.pc = IF n = Main THEN "deleting" ELSE "listing",
       !.todo = IF Replacing THEN ChunksOf(gather.stored.uids) \ ChunksOf(gather.uids) ELSE {},
       !.uids = {}]
  /\ UNCHANGED <<epoch, local, chunks, begun>>

\* Chunks of the old epoch that the new one has not overwritten.
DeleteChunk ==
  /\ At("deleting") /\ gather.todo # {}
  /\ LET c == Least(gather.todo) IN
     /\ chunks' = [chunks EXCEPT ![Main] = [u \in Uid |-> IF u \in Within(c) THEN None ELSE @[u]]]
     /\ gather' = [gather EXCEPT !.todo = @ \ {c}]
  /\ UNCHANGED <<epoch, local, index, begun>>

Persisted ==
  /\ At("deleting") /\ gather.todo = {}
  /\ Ended
  /\ UNCHANGED <<epoch, local, store, begun>>

-----------------------------------------------------------------------------
(* The server, the hosts and what ends a gather.                           *)

Renumber ==
  /\ epoch < MaxEpoch /\ gather.pc \notin Session
  /\ epoch' = epoch + 1
  /\ UNCHANGED <<local, store, gather, begun>>

\* A gather ends early: its process dies, a stage or the publish fails, the lease
\* is lost, or a request to the store raises where nothing catches it.
Stop ==
  /\ ~At("idle")
  /\ Ended
  /\ UNCHANGED <<epoch, local, store, begun>>

\* An ephemeral host comes back with an empty disk (between gathers: only its own
\* host's disk matters to one, and a gather whose host goes has stopped).
Wipe(h) ==
  /\ "wipe" \in Faults /\ At("idle")
  /\ marker' = [marker EXCEPT ![h] = None] /\ verified' = [verified EXCEPT ![h] = None]
  /\ disk' = [disk EXCEPT ![h] = [n \in Unit |-> Empty]]
  /\ UNCHANGED <<epoch, store, gather, begun>>

Hydrating == LoadMain \/ RestoreChunk \/ LoadArchive \/ HydrateFails \/ HydrateEnds
Syncing ==
  \/ Adopt \/ Reconcile \/ Moved \/ SyncFails
  \/ \E u \in Uid : Move(u)
  \/ \E from, to \in Uid : Search(from, to)
  \/ \E got \in SUBSET Uid : Download(got)
Persisting ==
  \/ Unconfirmed \/ Persist \/ ListArchives \/ UploadArchive \/ UploadMain
  \/ ReplaceMain \/ PutChunk \/ PutIndex \/ DeleteChunk \/ Persisted

Next ==
  \/ \E h \in Host : (\E clear \in BOOLEAN : Begin(h, clear)) \/ Wipe(h)
  \/ ClearIndex \/ ClearChunks \/ ClearLocal
  \/ Hydrating \/ Syncing \/ Persisting
  \/ Renumber \/ Stop

Spec == Init /\ [][Next]_vars

-----------------------------------------------------------------------------
(* Properties.                                                             *)

\* Every variable stays within the values its comment gives.
TypeOK ==
  /\ epoch \in Epoch
  /\ marker \in [Host -> Epoch \cup {None}] /\ verified \in [Host -> Epoch \cup {None}]
  /\ disk \in [Host -> [Unit -> Mail]]
  /\ index \in [Unit -> Index]
  /\ chunks \in [Unit -> Mail]
  /\ gather \in Run
  /\ begun \in 0..MaxGathers

\* The messages that a restore onto an empty host brings back.
Listed(n) == {<<chunks[n][u], u>> : u \in index[n].uids}
Stored    == UNION {Listed(n) : n \in Unit}
OnDisk(h) == UNION {{<<disk[h][n][u], u>> : u \in Has(disk[h][n])} : n \in Unit}

\* Stored mail stays stored, unless it is being cleared: "it is real mail, and the
\* only copy of anything older than the window" (cache_sync.py), through
\* renumbering, stale hosts, partial restores and gathers that end anywhere.
StoredMailStays == [][At("clearing") \/ Stored \subseteq Stored']_vars

\* An index names only what its chunks hold ("never a chunk-less index claim",
\* _clear_imap_unit; "chunks first, index last", _persist_unit).
IndexedIsThere == \A n \in Unit : index[n].uids \subseteq Has(chunks[n])

\* A UID names the message of its unit's epoch: no unit of a host or of the store
\* mixes epochs ("never one naming chunks whose contents belong to another
\* epoch", _persist_unit; "rather than being skipped or mixed in",
\* _restore_imap_list).
EpochsApart ==
  /\ \A h \in Host, u \in Uid :
       /\ disk[h][Main][u] \in {None, marker[h]}
       /\ \A n \in Epoch : disk[h][n][u] \in {None, n}
  /\ \A u \in index[Main].uids : chunks[Main][u] = index[Main].epoch
  /\ \A n \in Epoch : \A u \in index[n].uids : chunks[n][u] = n

\* Hosts and store keep what their types say, no index claims too much, and no unit
\* holds another epoch's mail.
MailInv == TypeOK /\ IndexedIsThere /\ EpochsApart

\* When the threads are rebuilt, every stored message is on the host, since "the thread
\* writer deletes any thread file it doesn't regenerate", and what the restore leaves
\* out "would only duplicate" it.  The code breaks it (README.md): a host
\* that began the archive's epoch without that mail leaves out what it does not have ...
ThreadsWhole == At("threads") => Stored \subseteq OnDisk(me)

\* ... and only then: what is missing is of the archive of the epoch its cache was in.
ThreadsNearlyWhole ==
  At("threads") => \A m \in Stored \ OnDisk(me) : m[1] = gather.cached /\ m \notin Listed(Main)
=============================================================================
