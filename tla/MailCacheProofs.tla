--------------------------- MODULE MailCacheProofs ---------------------------
(***************************************************************************)
(* Proofs about MailCache, for any number of hosts, UIDs, renumberings,    *)
(* gathers and retries, any size of chunks and every fault: stored mail    *)
(* stays stored, an index names only what is there, no unit mixes epochs,  *)
(* and threads are rebuilt from all stored mail but one archive's.         *)
(*                                                                         *)
(* MailIInv is inductive.  It says of a stored chunk that some of its mail *)
(* is indexed that all of it is of the index's epoch (PureMain), whoever   *)
(* put it there and died; and of a gather, at each stage, how far the mail *)
(* of an epoch it is about to replace has come: on its disk, in the        *)
(* archive's chunks, in the archive's index (Rescued).  HydrateHolds says  *)
(* how far a gather is with restoring what is stored.                      *)
(***************************************************************************)
EXTENDS MailCache, WellFoundedInduction, TLAPS

\* A host's units hold the mail of their epochs.
PureHosts ==
  \A h \in Host, u \in Uid :
    /\ disk[h][Main][u] \in {None, marker[h]}
    /\ \A n \in Epoch : disk[h][n][u] \in {None, n}

\* The stored archives hold the mail of theirs, indexed or not ...
PureArchives == \A n \in Epoch, u \in Uid : chunks[n][u] \in {None, n}

\* ... and a chunk of the main unit that the index uses is of one epoch.
Pure(S, e) == \A u \in S, w \in Uid : ChunkOf(w) = ChunkOf(u) => chunks[Main][w] \in {None, e}
PureMain   == Pure(index[Main].uids, index[Main].epoch)

\* A gather that restores: the index as it read it, and where the mail goes.
Restoring ==
  At("restoring") =>
    /\ gather.stored = index[gather.unit]
    /\ gather.todo \subseteq ChunksOf(gather.stored.uids)
    /\ gather.units \subseteq Epoch
    /\ IF gather.unit # Main THEN gather.into = gather.unit
       ELSE \/ gather.into # Main /\ gather.into = index[Main].epoch
            \/ gather.into = Main /\ (index[Main].uids = {} \/ marker[me] = index[Main].epoch)

\* A gather that syncs.
Synced ==
  /\ At("moving") => Differ(marker[me], epoch)
  /\ gather.pc \in {"searching", "downloading"} => marker[me] = epoch

\* The main unit's stored mail is of another epoch than the cache's.
Stranded == Differ(gather.cached, index[Main].epoch)
\* It is on this host, in the directory of its archive.
Carried  == \A u \in index[Main].uids : disk[me][index[Main].epoch][u] # None
\* It is in that archive's index.
Rescued  == \A u \in index[Main].uids : u \in index[index[Main].epoch].uids

Archiving ==
  At("archiving") =>
    /\ gather.unit = Main /\ gather.stored = index[Main]
    /\ gather.cached = marker[me]
    /\ gather.todo \subseteq ChunksOf(gather.stored.uids)
    /\ gather.todo # {} => Stranded
    /\ Stranded =>
         /\ gather.into = index[Main].epoch
         /\ gather.failed \/ \A u \in index[Main].uids :
              disk[me][index[Main].epoch][u] # None \/ ChunkOf(u) \in gather.todo

Listing ==
  At("listing") =>
    /\ gather.cached = marker[me]
    /\ gather.units \subseteq Epoch
    /\ Stranded => Rescued \/ (Carried /\ index[Main].epoch \in gather.units)

Uploading ==
  At("uploading") =>
    LET n == gather.unit IN
    /\ gather.cached = marker[me]
    /\ gather.units \subseteq Epoch
    /\ gather.todo \subseteq Chunk
    /\ Replacing \/ gather.stored = index[n]
    /\ Replacing => index[Main].uids = {} /\ index[Main].epoch = gather.cached
    /\ n = Main => gather.cached # None /\ Pure(gather.uids, gather.cached)
    /\ index[n].uids \subseteq gather.uids
    /\ gather.uids \subseteq Has(chunks[n])
    /\ \A u \in Has(disk[me][n]) : u \in gather.uids \/ ChunkOf(u) \in gather.todo
    /\ n # Main /\ Stranded =>
         Rescued \/ (Carried /\ (index[Main].epoch \in gather.units \/ index[Main].epoch = n))

Deleting == At("deleting") => gather.todo \cap ChunksOf(index[Main].uids) = {}

Begun == At("clearing") => gather.units \subseteq Unit

StageHolds == Restoring /\ Synced /\ Archiving /\ Listing /\ Uploading /\ Deleting /\ Begun

StoreHolds == PureArchives /\ PureMain /\ IndexedIsThere

MailIInv == TypeOK /\ PureHosts /\ StoreHolds /\ StageHolds

(***************************************************************************)
(* Chunks and their order.                                                 *)
(***************************************************************************)

LEMMA LeastIn ==
  ASSUME NEW S, S \subseteq Nat, S # {}
  PROVE  Least(S) \in S
<1>1. IsWellFoundedOn(OpToRel(<, Nat), Nat)
  BY NatLessThanWellFounded
<1>2. PICK n \in S : \A m \in S : ~ (<<m, n>> \in OpToRel(<, Nat))
  BY <1>1, WFMin
<1>3. \A m \in S : ~(m < n)
  BY <1>2 DEF OpToRel
<1>4. \A m \in S : n <= m
  BY <1>3
<1> QED BY <1>4 DEF Least

LEMMA Naturals ==
  /\ Chunk \subseteq Nat /\ Unit \subseteq Nat
  /\ \A S \in SUBSET Uid : ChunksOf(S) \subseteq Chunk
  /\ \A u \in Uid : ChunkOf(u) \in Nat
<1>1. \A u \in Uid : ChunkOf(u) \in Nat
  BY ConstantsAssumption DEF ChunkOf
<1> QED BY <1>1, ConstantsAssumption DEF Chunk, ChunksOf, Unit, Main, Epoch

(***************************************************************************)
(* Steps that touch only the gather's own variables.                       *)
(***************************************************************************)

LEMMA NewRunTyped == \A h \in Host : NewRun(h) \in Run
  BY ConstantsAssumption DEF NewRun, Run, Stage, None, Main, Unit, NoIndex, Index

LEMMA InitHolds == Init => MailIInv
<1> SUFFICES ASSUME Init
             PROVE  MailIInv
  OBVIOUS
<1>1. Empty \in Mail /\ NoIndex \in Index
  BY DEF Empty, Mail, NoIndex, Index
<1>2. PICK h \in Host : gather = NewRun(h)
  BY DEF Init
<1>3. TypeOK
  BY <1>1, <1>2, NewRunTyped, ConstantsAssumption DEF Init, TypeOK, Epoch, None
<1>4. PureHosts /\ StoreHolds
  BY DEF Init, PureHosts, StoreHolds, PureArchives, PureMain, Pure, IndexedIsThere, Empty, NoIndex, Unit
<1>5. gather.pc = "idle"
  BY <1>2 DEF NewRun
<1>6. StageHolds
  BY <1>5 DEF StageHolds, Restoring, Synced, Archiving, Listing, Uploading, Deleting, Begun, At
<1> QED BY <1>3, <1>4, <1>6 DEF MailIInv

\* Between the stages that promise something nothing is promised.
Quiet == {"idle", "hydrating", "syncing", "threads"}

LEMMA QuietHolds ==
  ASSUME gather'.pc \in Quiet
  PROVE  StageHolds'
  BY DEF Quiet, StageHolds, Restoring, Synced, Archiving, Listing, Uploading, Deleting, Begun, At

LEMMA OwnStep ==
  ASSUME MailIInv, UNCHANGED <<epoch, local, store>>, begun' \in 0..MaxGathers,
         gather' \in Run, StageHolds'
  PROVE  MailIInv'
<1> USE DEF MailIInv, local, store
<1>1. TypeOK'
  BY DEF TypeOK
<1>2. PureHosts' /\ StoreHolds'
  BY DEF PureHosts, StoreHolds, PureArchives, PureMain, Pure, IndexedIsThere
<1> QED BY <1>1, <1>2

LEMMA EndStep ==
  ASSUME MailIInv, Ended, UNCHANGED <<epoch, local, store, begun>>
  PROVE  MailIInv'
<1>0. me \in Host
  BY DEF MailIInv, TypeOK, Run, me
<1>1. gather' \in Run /\ gather'.pc = "idle"
  BY <1>0, NewRunTyped DEF Ended, NewRun
<1> QED BY <1>1, OwnStep, QuietHolds DEF Quiet, MailIInv, TypeOK

LEMMA GotoStep ==
  ASSUME MailIInv, NEW stage \in Quiet, Goto(stage), UNCHANGED <<epoch, local, store, begun>>
  PROVE  MailIInv'
<1>0. gather \in Run
  BY DEF MailIInv, TypeOK
<1>1. gather' \in Run /\ gather'.pc = stage
  BY <1>0 DEF Goto, Run, Stage, Quiet
<1> QED BY <1>1, OwnStep, QuietHolds DEF MailIInv, TypeOK

LEMMA BeginStep ==
  ASSUME MailIInv, NEW h \in Host, NEW clear \in BOOLEAN, Begin(h, clear)
  PROVE  MailIInv'
<1> DEFINE n == NewRun(h)
           stage == IF clear THEN "clearing" ELSE "hydrating"
           units == IF clear THEN Unit ELSE {}
<1>0. n \in Run /\ stage \in {"clearing", "hydrating"} /\ units \subseteq Unit
  BY NewRunTyped
<1>1. gather' = [n EXCEPT !.pc = stage, !.units = units] /\ UNCHANGED <<epoch, local, store>>
  BY DEF Begin
<1> HIDE DEF n, stage, units
<1>2. gather' \in Run /\ gather'.pc = stage /\ gather'.units = units
  BY <1>0, <1>1 DEF Run, Stage
<1>3. begun' \in 0..MaxGathers
  BY ConstantsAssumption DEF Begin, MailIInv, TypeOK
<1>4. StageHolds'
  BY <1>0, <1>2 DEF StageHolds, Restoring, Synced, Archiving, Listing, Uploading, Deleting, Begun, At
<1> QED BY <1>1, <1>2, <1>3, <1>4, OwnStep

LEMMA RetryTyped ==
  ASSUME gather \in Run, Retry
  PROVE  gather' \in Run /\ gather'.pc \in Quiet
<1>1. CASE gather.tries < Retries
  <2>1. gather.tries + 1 \in 0..Retries
    BY <1>1, ConstantsAssumption DEF Run
  <2>2. gather' = [gather EXCEPT !.pc = "syncing", !.uids = {}, !.tries = @ + 1]
    BY <1>1 DEF Retry
  <2> QED BY <2>1, <2>2 DEF Run, Stage, Quiet
<1>2. CASE ~(gather.tries < Retries)
  <2>1. 0 \in 0..Retries
    BY ConstantsAssumption
  <2>2. gather' = [gather EXCEPT !.pc = "threads", !.uids = {}, !.tries = 0]
    BY <1>2 DEF Retry
  <2> QED BY <2>1, <2>2 DEF Run, Stage, Quiet
<1> QED BY <1>1, <1>2

\* The steps that lead to a stage that promises nothing.
LEMMA QuietSteps ==
  ASSUME MailIInv, \/ HydrateFails \/ HydrateEnds \/ SyncFails \/ Unconfirmed \/ Persisted \/ Stop
  PROVE  MailIInv'
<1>1. CASE HydrateFails \/ Unconfirmed \/ Persisted \/ Stop
  BY <1>1, EndStep DEF HydrateFails, Unconfirmed, Persisted, Stop
<1>2. CASE HydrateEnds
  BY <1>2, GotoStep DEF HydrateEnds, Quiet
<1>3. CASE SyncFails
  BY <1>3, RetryTyped, OwnStep, QuietHolds DEF SyncFails, MailIInv, TypeOK
<1> QED BY <1>1, <1>2, <1>3

LEMMA ReconcileStep ==
  ASSUME MailIInv, Reconcile
  PROVE  MailIInv'
<1>0. gather \in Run
  BY DEF MailIInv, TypeOK
<1>1. gather' \in Run /\ gather'.pc = "moving" /\ gather'.host = gather.host
  BY <1>0 DEF Reconcile, Goto, Run, Stage
<1>2. StageHolds'
  BY <1>1 DEF Reconcile, StageHolds, Restoring, Synced, Archiving, Listing, Uploading, Deleting, Begun, At,
              me, local
<1> QED BY <1>1, <1>2, OwnStep DEF Reconcile, MailIInv, TypeOK

LEMMA SearchStep ==
  ASSUME MailIInv, NEW from \in Uid, NEW to \in Uid, Search(from, to)
  PROVE  MailIInv'
<1> DEFINE uids == {u \in Uid : from <= u /\ u <= to} \ Has(disk[me][Main])
<1>0. gather \in Run /\ uids \subseteq Uid
  BY DEF MailIInv, TypeOK
<1>1. gather' = [gather EXCEPT !.pc = "downloading", !.uids = uids] /\ gather.pc = "searching"
  BY DEF Search, At
<1> HIDE DEF uids
<1>2. gather' \in Run /\ gather'.pc = "downloading" /\ gather'.host = gather.host
  BY <1>0, <1>1 DEF Run, Stage
<1>3. marker[me] = epoch
  BY <1>1 DEF MailIInv, StageHolds, Synced
<1>4. StageHolds'
  BY <1>2, <1>3 DEF Search, StageHolds, Restoring, Synced, Archiving, Listing, Uploading, Deleting, Begun,
                    At, me, local
<1> QED BY <1>2, <1>4, OwnStep DEF Search, MailIInv, TypeOK

(***************************************************************************)
(* Clearing.                                                               *)
(***************************************************************************)

LEMMA ClearSteps ==
  ASSUME MailIInv, ClearIndex \/ ClearChunks
  PROVE  MailIInv'
<1> USE DEF MailIInv, local
<1>0. gather \in Run /\ gather.pc = "clearing" /\ gather.units \subseteq Unit /\ gather.units # {}
  BY DEF TypeOK, StageHolds, Begun, ClearIndex, ClearChunks, At
<1>1. PICK n \in Unit : n = Least(gather.units)
  BY <1>0, LeastIn, Naturals
<1>2. CASE ClearIndex
  <2>1. index' = [index EXCEPT ![n] = NoIndex] /\ UNCHANGED <<epoch, marker, verified, disk, chunks, gather, begun>>
    BY <1>1, <1>2 DEF ClearIndex
  <2>2. TypeOK'
    BY <2>1 DEF TypeOK, NoIndex, Index
  <2>3. PureHosts' /\ StoreHolds'
    BY <2>1 DEF PureHosts, StoreHolds, PureArchives, PureMain, Pure, IndexedIsThere, TypeOK, NoIndex, Unit
  <2>4. StageHolds'
    BY <1>0, <2>1 DEF StageHolds, Restoring, Synced, Archiving, Listing, Uploading, Deleting, Begun, At
  <2> QED BY <2>2, <2>3, <2>4
<1>3. CASE ClearChunks
  <2>1. /\ chunks' = [chunks EXCEPT ![n] = Empty] /\ index[n] = NoIndex
        /\ gather' = [gather EXCEPT !.units = @ \ {n}]
        /\ UNCHANGED <<epoch, marker, verified, disk, index, begun>>
    BY <1>1, <1>3 DEF ClearChunks
  <2>2. gather' \in Run /\ gather'.pc = "clearing" /\ gather'.units \subseteq Unit
    BY <1>0, <2>1 DEF Run
  <2>3. TypeOK'
    <3>1. Empty \in Mail
      BY DEF Empty, Mail
    <3> QED BY <2>1, <2>2, <3>1 DEF TypeOK
  <2>4. PureHosts' /\ StoreHolds'
    BY <2>1 DEF PureHosts, StoreHolds, PureArchives, PureMain, Pure, IndexedIsThere, TypeOK, NoIndex, Empty,
                Unit, Has
  <2>5. StageHolds'
    BY <2>2 DEF StageHolds, Restoring, Synced, Archiving, Listing, Uploading, Deleting, Begun, At
  <2> QED BY <2>3, <2>4, <2>5
<1> QED BY <1>2, <1>3

\* A host whose disk is emptied.
LEMMA EmptyHost ==
  ASSUME TypeOK, PureHosts, NEW h \in Host,
         marker' = [marker EXCEPT ![h] = None], verified' = [verified EXCEPT ![h] = None],
         disk' = [disk EXCEPT ![h] = [n \in Unit |-> Empty]]
  PROVE  /\ PureHosts'
         /\ marker' \in [Host -> Epoch \cup {None}] /\ verified' \in [Host -> Epoch \cup {None}]
         /\ disk' \in [Host -> [Unit -> Mail]]
  BY DEF TypeOK, PureHosts, Empty, Mail, Unit

LEMMA EmptySteps ==
  ASSUME MailIInv, \/ ClearLocal
                   \/ \E h \in Host : Wipe(h)
  PROVE  MailIInv'
<1> USE DEF MailIInv, store
<1>0. gather \in Run /\ me \in Host
  BY DEF TypeOK, Run, me
<1>1. PICK h \in Host :
        /\ marker' = [marker EXCEPT ![h] = None] /\ verified' = [verified EXCEPT ![h] = None]
        /\ disk' = [disk EXCEPT ![h] = [n \in Unit |-> Empty]]
        /\ UNCHANGED <<epoch, index, chunks, begun>>
  BY <1>0 DEF ClearLocal, Wipe
<1>2. gather' \in Run /\ gather'.pc \in Quiet
  BY <1>0 DEF ClearLocal, Wipe, Goto, Run, Stage, Quiet, At
<1>3. TypeOK' /\ PureHosts'
  BY <1>1, <1>2, EmptyHost DEF TypeOK
<1>4. StoreHolds'
  BY <1>1 DEF StoreHolds, PureArchives, PureMain, Pure, IndexedIsThere
<1> QED BY <1>2, <1>3, <1>4, QuietHolds

(***************************************************************************)
(* Hydrating.                                                              *)
(***************************************************************************)

LEMMA LoadMainStep ==
  ASSUME MailIInv, LoadMain
  PROVE  MailIInv'
<1> USE DEF MailIInv, store, None, Main
<1> DEFINE units == {n \in Epoch \ {marker[me]} : index[n].uids # {}}
           into  == IF Differ(marker[me], index[Main].epoch) THEN index[Main].epoch ELSE Main
           todo  == ChunksOf(index[Main].uids)
           held  == marker[me]
           f == [gather EXCEPT !.pc = "restoring", !.cached = held, !.unit = Main, !.into = into,
                               !.stored = index[Main], !.todo = todo, !.units = units]
<1>0. /\ gather \in Run /\ me \in Host /\ index[Main] \in Index /\ held \in Epoch \cup {None}
      /\ units \subseteq Epoch /\ Main \in Unit /\ index[Main].uids \subseteq Uid
      /\ index[Main].epoch \in Epoch \cup {None}
  BY DEF TypeOK, Run, me, Unit, Index
<1>1. into \in Unit /\ todo \subseteq Chunk
  BY <1>0, Naturals DEF Unit
<1>2. /\ gather' = f
      /\ marker' = [marker EXCEPT ![me] = IF @ = None THEN index[Main].epoch ELSE @]
      /\ verified' = [verified EXCEPT ![me] = None]
      /\ UNCHANGED <<epoch, disk, index, chunks, begun>>
  BY DEF LoadMain
<1>3. index[Main].uids # {} => index[Main].epoch # None
  BY <1>0 DEF StoreHolds, PureMain, Pure, IndexedIsThere, Has
<1>4. /\ into # Main => into = index[Main].epoch
      /\ into = Main => index[Main].uids = {} \/ marker'[me] = index[Main].epoch
  BY <1>0, <1>2, <1>3 DEF Differ, TypeOK
<1> HIDE DEF units, into, todo, held
<1>5. /\ f \in Run /\ f.pc = "restoring" /\ f.unit = Main /\ f.into = into /\ f.stored = index[Main]
      /\ f.todo = todo /\ f.units = units /\ f.host = gather.host
  <2>1. units \subseteq Unit
    BY <1>0 DEF Unit
  <2> QED BY <1>0, <1>1, <2>1 DEF Run, Stage
<1> HIDE DEF f
<1>6. TypeOK'
  BY <1>0, <1>2, <1>5 DEF TypeOK
<1>7. PureHosts'
  BY <1>0, <1>2 DEF PureHosts, TypeOK
<1>8. StoreHolds'
  BY <1>2 DEF StoreHolds, PureArchives, PureMain, Pure, IndexedIsThere
<1>9. StageHolds'
  <2>1. Restoring'
    BY <1>0, <1>2, <1>4, <1>5 DEF Restoring, me, todo
  <2> QED BY <1>2, <1>5, <2>1 DEF StageHolds, Synced, Archiving, Listing, Uploading, Deleting, Begun, At
<1> QED BY <1>6, <1>7, <1>8, <1>9

LEMMA LoadArchiveStep ==
  ASSUME MailIInv, LoadArchive
  PROVE  MailIInv'
<1> USE DEF MailIInv
<1>0. gather \in Run /\ gather.pc = "restoring" /\ gather.units \subseteq Epoch /\ gather.units # {}
  BY DEF TypeOK, StageHolds, Restoring, LoadArchive, At
<1>1. PICK n \in gather.units : n = Least(gather.units)
  <2>1. gather.units \subseteq Nat
    BY <1>0, ConstantsAssumption DEF Epoch
  <2> QED BY <1>0, <2>1, LeastIn
<1>2. n \in Epoch /\ n \in Unit /\ n # Main /\ index[n] \in Index /\ index[n].uids \subseteq Uid
  BY <1>0, <1>1, ConstantsAssumption DEF Epoch, Unit, Main, TypeOK, Index
<1>3. UNCHANGED <<epoch, local, store, begun>>
  BY DEF LoadArchive
<1>4. CASE gather' = [gather EXCEPT !.unit = n, !.into = n, !.stored = index[n],
                                    !.todo = ChunksOf(index[n].uids), !.units = @ \ {n}]
  <2> DEFINE todo == ChunksOf(index[n].uids)
  <2>1. todo \subseteq Chunk
    BY <1>2, Naturals
  <2>2. gather' = [gather EXCEPT !.unit = n, !.into = n, !.stored = index[n], !.todo = todo, !.units = @ \ {n}]
    BY <1>4
  <2> HIDE DEF todo
  <2>3. /\ gather' \in Run /\ gather'.pc = "restoring" /\ gather'.unit = n /\ gather'.into = n
        /\ gather'.stored = index[n] /\ gather'.todo = todo /\ gather'.units \subseteq Epoch
    BY <1>0, <1>2, <2>1, <2>2 DEF Run
  <2>4. StageHolds'
    BY <1>2, <1>3, <2>3 DEF StageHolds, Restoring, Synced, Archiving, Listing, Uploading, Deleting, Begun, At,
                            todo, store
  <2> QED BY <1>3, <2>3, <2>4, OwnStep DEF TypeOK
<1>5. CASE gather' = [gather EXCEPT !.units = @ \ {n}, !.failed = TRUE]
  <2>1. /\ gather' \in Run /\ gather'.pc = "restoring" /\ gather'.unit = gather.unit /\ gather'.into = gather.into
        /\ gather'.stored = gather.stored /\ gather'.todo = gather.todo /\ gather'.units \subseteq Epoch
        /\ gather'.host = gather.host
    BY <1>0, <1>5 DEF Run
  <2>2. Restoring'
    BY <1>0, <1>3, <2>1 DEF StageHolds, Restoring, At, store, local, me
  <2>3. StageHolds'
    BY <2>1, <2>2 DEF StageHolds, Synced, Archiving, Listing, Uploading, Deleting, Begun, At
  <2> QED BY <1>3, <2>1, <2>3, OwnStep DEF TypeOK
<1> QED BY <1>1, <1>4, <1>5 DEF LoadArchive

\* Whatever a gather restores, a unit gets mail of its own epoch only.
LEMMA RestoreChunkStep ==
  ASSUME MailIInv, RestoreChunk
  PROVE  MailIInv'
<1> USE DEF MailIInv, None, Main
<1>0. /\ gather \in Run /\ me \in Host /\ gather.pc \in {"restoring", "archiving"} /\ gather.todo # {}
      /\ gather.into \in Unit /\ gather.unit \in Unit /\ gather.todo \subseteq Chunk
      /\ gather.todo \subseteq ChunksOf(gather.stored.uids) /\ gather.stored = index[gather.unit]
      /\ UNCHANGED <<epoch, marker, verified, store, begun>>
  BY DEF TypeOK, Run, me, RestoreChunk, StageHolds, Restoring, Archiving, At
<1>1. PICK c \in gather.todo : c = Least(gather.todo)
  BY <1>0, LeastIn, Naturals
<1> DEFINE tag == IF gather.into = Main THEN marker[me] ELSE gather.into
           dir == disk[me][gather.into]
           held == gather.stored.uids \cap Within(c) \subseteq Has(dir)
           new == [u \in Uid |-> IF ~held /\ u \in Within(c) \ Has(dir)
                                 THEN chunks[gather.unit][u] ELSE dir[u]]
<1>2. ASSUME NEW u \in Within(c)
      PROVE  u \in Uid /\ chunks[gather.unit][u] \in {None, tag}
  <2>1. u \in Uid /\ ChunkOf(u) = c
    BY DEF Within
  <2>2. PICK w \in gather.stored.uids : ChunkOf(w) = c
    BY <1>0, <1>1 DEF ChunksOf
  <2>3. CASE gather.unit # Main
    <3>1. gather.unit \in Epoch /\ gather.into = gather.unit
      BY <1>0, <2>3 DEF Unit, StageHolds, Restoring, Archiving, At
    <3> QED BY <2>1, <2>3, <3>1 DEF StoreHolds, PureArchives
  <2>4. CASE gather.unit = Main
    <3>1. chunks[Main][u] \in {None, index[Main].epoch}
      BY <1>0, <2>1, <2>2, <2>4 DEF StoreHolds, PureMain, Pure
    <3>2. tag = index[Main].epoch
      <4>1. CASE gather.pc = "restoring"
        BY <1>0, <2>2, <2>4, <4>1 DEF StageHolds, Restoring, At
      <4>2. CASE gather.pc = "archiving"
        BY <1>0, <4>2 DEF StageHolds, Archiving, At, Stranded, Differ
      <4> QED BY <1>0, <4>1, <4>2
    <3> QED BY <2>1, <2>4, <3>1, <3>2
  <2> QED BY <2>3, <2>4
<1>3. new \in Mail /\ dir \in Mail /\ tag \in Epoch \cup {None}
      /\ \A u \in Uid : new[u] \in {dir[u], None, tag}
  <2>1. dir \in Mail
    BY <1>0 DEF TypeOK
  <2>2. tag \in Epoch \cup {None}
    BY <1>0 DEF TypeOK, Unit
  <2> QED BY <1>2, <2>1, <2>2 DEF Mail
<1>4. \A u \in Uid : dir[u] # None => new[u] = dir[u]
  BY <1>3 DEF Mail, Has
<1>5. \A u \in gather.stored.uids : ChunkOf(u) = c => new[u] # None
  <2> SUFFICES ASSUME NEW u \in gather.stored.uids, ChunkOf(u) = c
               PROVE  new[u] # None
    OBVIOUS
  <2>1. u \in Uid /\ u \in Within(c) /\ chunks[gather.unit][u] # None
    BY <1>0 DEF StoreHolds, IndexedIsThere, TypeOK, Index, Within, Has
  <2> QED BY <2>1, <1>3 DEF Has, Mail
<1>6. \/ disk' = [disk EXCEPT ![me][gather.into] = new] /\ gather' = [gather EXCEPT !.todo = @ \ {c}]
      \/ disk' = disk /\ gather' = [gather EXCEPT !.todo = @ \ {c}, !.failed = TRUE]
  BY <1>1, Zenon DEF RestoreChunk
<1>7. /\ \A n \in Unit : disk'[me][n] = IF disk' # disk /\ n = gather.into THEN new ELSE disk[me][n]
      /\ \A h \in Host : h # me => disk'[h] = disk[h]
      /\ disk' \in [Host -> [Unit -> Mail]]
      /\ disk' = disk \/ disk'[me][gather.into] = new
  <2>1. disk \in [Host -> [Unit -> Mail]]
    BY DEF TypeOK
  <2> HIDE DEF new, dir, held, tag
  <2>2. CASE disk' = disk
    BY <2>1, <2>2
  <2>3. CASE disk' = [disk EXCEPT ![me][gather.into] = new]
    BY <1>0, <1>3, <2>1, <2>3
  <2> QED BY <1>6, <2>2, <2>3
<1>8. /\ gather' \in Run /\ gather'.pc = gather.pc /\ gather'.todo = gather.todo \ {c}
      /\ gather'.unit = gather.unit /\ gather'.into = gather.into /\ gather'.stored = gather.stored
      /\ gather'.units = gather.units /\ gather'.cached = gather.cached /\ gather'.host = gather.host
      /\ gather'.failed \/ (gather'.failed = gather.failed /\ disk'[me][gather.into] = new)
  <2> HIDE DEF new, dir, held, tag
  <2>1. CASE gather' = [gather EXCEPT !.todo = @ \ {c}] /\ disk' = [disk EXCEPT ![me][gather.into] = new]
    <3>1. disk'[me][gather.into] = new
      BY <1>0, <2>1 DEF TypeOK
    <3> QED BY <1>0, <2>1, <3>1 DEF Run
  <2>2. CASE gather' = [gather EXCEPT !.todo = @ \ {c}, !.failed = TRUE]
    BY <1>0, <2>2 DEF Run
  <2> QED BY <1>6, <2>1, <2>2
<1> HIDE DEF new, dir, held
<1>9. TypeOK'
  BY <1>0, <1>7, <1>8 DEF TypeOK, store
<1>10. PureHosts'
  <2> SUFFICES ASSUME NEW h \in Host, NEW u \in Uid, NEW n \in Unit
               PROVE  disk'[h][n][u] \in {None, IF n = Main THEN marker[h] ELSE n}
    BY <1>0, ConstantsAssumption DEF PureHosts, Unit, Epoch
  <2>1. disk[h][n][u] \in {None, IF n = Main THEN marker[h] ELSE n}
    BY DEF PureHosts, Unit
  <2>2. CASE h = me /\ n = gather.into /\ disk' # disk
    <3>1. disk'[h][n][u] = new[u]
      BY <1>7, <2>2
    <3> QED BY <1>3, <2>1, <2>2, <3>1 DEF dir
  <2>3. CASE ~(h = me /\ n = gather.into /\ disk' # disk)
    BY <1>7, <2>1, <2>3
  <2> QED BY <2>2, <2>3
<1>11. StoreHolds'
  BY <1>0 DEF StoreHolds, PureArchives, PureMain, Pure, IndexedIsThere, store
<1>12. StageHolds'
  <2>1. CASE gather.pc = "restoring"
    <3>1. Restoring'
      BY <1>0, <1>8, <2>1 DEF StageHolds, Restoring, At, store, me
    <3> QED BY <1>8, <2>1, <3>1 DEF StageHolds, Synced, Archiving, Listing, Uploading, Deleting, Begun, At
  <2>2. CASE gather.pc = "archiving"
    <3>1. Archiving
      BY DEF StageHolds
    <3>2. Stranded /\ gather.into = index[Main].epoch /\ gather.unit = Main /\ gather.stored = index[Main]
      BY <1>0, <2>2, <3>1 DEF Archiving, At
    <3>3. gather'.failed \/ \A u \in index[Main].uids :
                              disk'[me][index[Main].epoch][u] # None \/ ChunkOf(u) \in gather.todo \ {c}
      <4> SUFFICES ASSUME ~gather'.failed, NEW u \in index[Main].uids
                   PROVE  disk'[me][index[Main].epoch][u] # None \/ ChunkOf(u) \in gather.todo \ {c}
        OBVIOUS
      <4>1. u \in Uid /\ disk'[me][index[Main].epoch] = new /\ ~gather.failed
        BY <1>0, <1>8, <3>2 DEF TypeOK, Index
      <4>2. dir[u] # None \/ ChunkOf(u) \in gather.todo
        BY <2>2, <3>1, <3>2, <4>1 DEF Archiving, At, dir
      <4> QED BY <1>4, <1>5, <3>2, <4>1, <4>2
    <3>4. Archiving'
      BY <1>0, <1>8, <2>2, <3>1, <3>2, <3>3 DEF Archiving, At, store, me, Stranded, Differ
    <3> QED BY <1>8, <2>2, <3>4 DEF StageHolds, Restoring, Synced, Listing, Uploading, Deleting, Begun, At
  <2> QED BY <1>0, <2>1, <2>2
<1> QED BY <1>9, <1>10, <1>11, <1>12

(***************************************************************************)
(* The sync.                                                               *)
(***************************************************************************)

LEMMA AdoptSteps ==
  ASSUME MailIInv, Adopt \/ Moved
  PROVE  MailIInv'
<1> USE DEF MailIInv, None, Main
<1>0. gather \in Run /\ me \in Host /\ epoch \in Epoch /\ epoch # None
  BY ConstantsAssumption DEF TypeOK, Run, me, Epoch
<1>1. /\ marker' = [marker EXCEPT ![me] = epoch] /\ verified' = [verified EXCEPT ![me] = epoch]
      /\ gather' = [gather EXCEPT !.pc = "searching"]
      /\ UNCHANGED <<epoch, disk, store, begun>>
  BY DEF Adopt, Moved, Goto
<1>2. gather' \in Run /\ gather'.pc = "searching" /\ gather'.host = gather.host
  BY <1>0, <1>1 DEF Run, Stage
\* The main unit is in the folder's epoch, or empty.
<1>3. \A u \in Uid : disk[me][Main][u] \in {None, epoch}
  BY <1>0 DEF Adopt, Moved, Differ, PureHosts, Has
<1>4. TypeOK'
  BY <1>0, <1>1, <1>2 DEF TypeOK, store
<1>5. PureHosts'
  BY <1>0, <1>1, <1>3 DEF PureHosts, TypeOK
<1>6. StoreHolds'
  BY <1>1 DEF StoreHolds, PureArchives, PureMain, Pure, IndexedIsThere, store
<1>7. marker'[me] = epoch
  BY <1>0, <1>1 DEF TypeOK
<1>8. StageHolds'
  BY <1>1, <1>2, <1>7 DEF StageHolds, Restoring, Synced, Archiving, Listing, Uploading, Deleting, Begun, At, me
<1> QED BY <1>4, <1>5, <1>6, <1>8

LEMMA MoveStep ==
  ASSUME MailIInv, NEW u \in Uid, Move(u)
  PROVE  MailIInv'
<1> USE DEF MailIInv, None, Main
<1>0. /\ gather.pc = "moving" /\ me \in Host /\ marker[me] \in Epoch /\ marker[me] # Main
      /\ marker[me] \in Unit /\ Main \in Unit
  BY ConstantsAssumption DEF TypeOK, Run, me, Epoch, Move, At, StageHolds, Synced, Differ, Unit
<1>1. /\ disk' = [disk EXCEPT ![me][Main][u] = None, ![me][marker[me]][u] = disk[me][Main][u]]
      /\ UNCHANGED <<epoch, marker, verified, store, gather, begun>>
  BY DEF Move
<1>2. disk[me][Main][u] \in {None, marker[me]}
  BY <1>0 DEF PureHosts
<1>3. ASSUME NEW h \in Host, NEW n \in Unit
      PROVE  /\ disk'[h][n] \in Mail
             /\ \A w \in Uid : \/ disk'[h][n][w] = disk[h][n][w]
                               \/ h = me /\ n = Main /\ disk'[h][n][w] = None
                               \/ h = me /\ n = marker[me] /\ disk'[h][n][w] \in {None, n}
  <2>1. CASE h # me \/ n \notin {Main, marker[me]}
    BY <1>0, <1>1, <2>1 DEF TypeOK
  <2>2. CASE h = me /\ n = Main
    <3>1. disk'[h][n] = [disk[me][Main] EXCEPT ![u] = None]
      BY <1>0, <1>1, <2>2 DEF TypeOK
    <3> QED BY <1>0, <2>2, <3>1 DEF TypeOK, Mail
  <2>3. CASE h = me /\ n = marker[me]
    <3>1. disk'[h][n] = [disk[me][n] EXCEPT ![u] = disk[me][Main][u]]
      BY <1>0, <1>1, <2>3 DEF TypeOK
    <3> QED BY <1>0, <1>2, <2>3, <3>1 DEF TypeOK, Mail
  <2> QED BY <2>1, <2>2, <2>3
<1>4. disk' \in [Host -> [Unit -> Mail]]
  <2>1. /\ disk' \in [Host -> [Unit -> {disk'[h][n] : h \in Host, n \in Unit}]]
    BY <1>0, <1>1 DEF TypeOK
  <2> QED BY <1>3, <2>1
<1>5. TypeOK'
  BY <1>1, <1>4 DEF TypeOK, store
<1>6. PureHosts'
  <2> SUFFICES ASSUME NEW h \in Host, NEW w \in Uid, NEW n \in Unit
               PROVE  disk'[h][n][w] \in {None, IF n = Main THEN marker[h] ELSE n}
    <3>1. marker' = marker
      BY <1>1
    <3>2. \A n \in Epoch : n \in Unit /\ n # Main
      BY ConstantsAssumption DEF Unit, Epoch
    <3>3. Main \in Unit
      BY DEF Unit
    <3> QED BY <3>1, <3>2, <3>3 DEF PureHosts
  <2>1. disk[h][n][w] \in {None, IF n = Main THEN marker[h] ELSE n}
    BY DEF PureHosts, Unit
  <2> QED BY <1>0, <1>3, <2>1
<1>7. StoreHolds'
  BY <1>1 DEF StoreHolds, PureArchives, PureMain, Pure, IndexedIsThere, store
<1>8. StageHolds'
  BY <1>0, <1>1 DEF StageHolds, Restoring, Synced, Archiving, Listing, Uploading, Deleting, Begun, At, me
<1> QED BY <1>5, <1>6, <1>7, <1>8

LEMMA DownloadStep ==
  ASSUME MailIInv, NEW got \in SUBSET Uid, Download(got)
  PROVE  MailIInv'
<1> USE DEF MailIInv, None, Main
<1>0. gather \in Run /\ me \in Host /\ epoch \in Epoch /\ marker[me] = epoch /\ Main \in Unit
  BY DEF TypeOK, Run, me, Download, StageHolds, Synced, At, Unit
<1>1. /\ disk' = [disk EXCEPT ![me][Main] = [u \in Uid |-> IF u \in got THEN epoch ELSE @[u]]]
      /\ UNCHANGED <<epoch, marker, verified, store, begun>>
  BY DEF Download
<1>2. gather' \in Run /\ gather'.pc \in Quiet
  <2>1. CASE gather' = [gather EXCEPT !.pc = "threads", !.uids = {}, !.tries = 0]
    <3>1. 0 \in 0..Retries
      BY ConstantsAssumption
    <3> QED BY <1>0, <2>1, <3>1 DEF Run, Stage, Quiet
  <2>2. CASE Retry
    BY <1>0, <2>2, RetryTyped
  <2> QED BY <2>1, <2>2 DEF Download
<1>3. ASSUME NEW h \in Host, NEW n \in Unit
      PROVE  /\ disk'[h][n] \in Mail
             /\ \A u \in Uid : \/ disk'[h][n][u] = disk[h][n][u]
                               \/ h = me /\ n = Main /\ disk'[h][n][u] = epoch
  <2>1. CASE h # me \/ n # Main
    BY <1>0, <1>1, <2>1 DEF TypeOK
  <2>2. CASE h = me /\ n = Main
    <3>1. disk'[h][n] = [u \in Uid |-> IF u \in got THEN epoch ELSE disk[me][Main][u]]
      BY <1>0, <1>1, <2>2 DEF TypeOK
    <3> QED BY <1>0, <2>2, <3>1 DEF TypeOK, Mail
  <2> QED BY <2>1, <2>2
<1>4. disk' \in [Host -> [Unit -> Mail]]
  <2>1. /\ disk' \in [Host -> [Unit -> {disk'[h][n] : h \in Host, n \in Unit}]]
    BY <1>0, <1>1 DEF TypeOK
  <2> QED BY <1>3, <2>1
<1>5. TypeOK'
  BY <1>1, <1>2, <1>4 DEF TypeOK, store
<1>6. PureHosts'
  BY <1>0, <1>1, <1>3, ConstantsAssumption DEF PureHosts, Unit, Epoch
<1>7. StoreHolds'
  BY <1>1 DEF StoreHolds, PureArchives, PureMain, Pure, IndexedIsThere, store
<1> QED BY <1>2, <1>5, <1>6, <1>7, QuietHolds

LEMMA RenumberStep ==
  ASSUME MailIInv, Renumber
  PROVE  MailIInv'
<1> USE DEF MailIInv, local, store
<1>1. TypeOK'
  BY ConstantsAssumption DEF TypeOK, Renumber, Epoch
<1>2. PureHosts' /\ StoreHolds'
  BY DEF Renumber, PureHosts, StoreHolds, PureArchives, PureMain, Pure, IndexedIsThere
<1>3. gather.pc \notin Session /\ UNCHANGED <<marker, verified, disk, index, chunks, gather>>
  BY DEF Renumber
<1>4. Restoring' /\ Archiving' /\ Listing'
  BY <1>3 DEF StageHolds, Restoring, Archiving, Listing, At, me, Stranded, Carried, Rescued
<1>5. Uploading'
  <2>1. (Uploading)' <=> Uploading
    BY <1>3 DEF Uploading, At, me, Stranded, Carried, Rescued, Replacing, Pure
  <2> QED BY <2>1 DEF StageHolds
<1>6. Synced'
  BY <1>3 DEF Synced, At, Session
<1>7. Deleting' /\ Begun'
  BY <1>3 DEF StageHolds, Deleting, Begun, At
<1> QED BY <1>1, <1>2, <1>4, <1>5, <1>6, <1>7 DEF StageHolds

(***************************************************************************)
(* Persisting.                                                             *)
(***************************************************************************)

LEMMA PersistStep ==
  ASSUME MailIInv, Persist
  PROVE  MailIInv'
<1> USE DEF MailIInv, None, Main
<1> DEFINE old  == index[Main].epoch
           into == IF Differ(marker[me], old) THEN old ELSE Main
           todo == IF Differ(marker[me], old) THEN ChunksOf(index[Main].uids) ELSE {}
           held == marker[me]
<1>0. /\ gather \in Run /\ me \in Host /\ Main \in Unit /\ index[Main] \in Index
      /\ held \in Epoch \cup {None} /\ index[Main].uids \subseteq Uid /\ old \in Epoch \cup {None}
  BY DEF TypeOK, Run, me, Unit, Index
<1>1. into \in Unit /\ todo \subseteq Chunk
  BY <1>0, Naturals DEF Unit
<1>2. /\ gather' = [gather EXCEPT !.pc = "archiving", !.cached = held, !.unit = Main, !.into = into,
                                  !.stored = index[Main], !.todo = todo]
      /\ UNCHANGED <<epoch, local, store, begun>>
  BY DEF Persist
<1> HIDE DEF into, todo, held, old
<1>3. /\ gather' \in Run /\ gather'.pc = "archiving" /\ gather'.unit = Main /\ gather'.cached = held
      /\ gather'.into = into /\ gather'.stored = index[Main] /\ gather'.todo = todo
      /\ gather'.host = gather.host
  BY <1>0, <1>1, <1>2 DEF Run, Stage
<1>4. Archiving'
  BY <1>0, <1>2, <1>3 DEF Archiving, At, me, Stranded, into, todo, held, old, local, store, ChunksOf
<1>5. StageHolds'
  BY <1>3, <1>4 DEF StageHolds, Restoring, Synced, Listing, Uploading, Deleting, Begun, At
<1> QED BY <1>2, <1>3, <1>5, OwnStep DEF TypeOK

LEMMA ListArchivesStep ==
  ASSUME MailIInv, ListArchives
  PROVE  MailIInv'
<1> USE DEF MailIInv, None, Main
<1>1. CASE gather.failed
  BY <1>1, EndStep DEF ListArchives
<1>2. CASE ~gather.failed
  <2> DEFINE units == {n \in Epoch \ {gather.cached} : Has(disk[me][n]) # {}}
  <2>0. /\ gather \in Run /\ gather.pc = "archiving" /\ gather.todo = {} /\ units \subseteq Epoch
        /\ gather.cached = marker[me] /\ index[Main] \in Index /\ Archiving
    BY DEF TypeOK, ListArchives, At, StageHolds, Archiving, Unit
  <2>1. /\ gather' = [gather EXCEPT !.pc = "listing", !.units = units]
        /\ UNCHANGED <<epoch, local, store, begun>>
    BY <1>2 DEF ListArchives
  <2>2. Stranded => Rescued \/ (Carried /\ index[Main].epoch \in units)
    <3> SUFFICES ASSUME Stranded
                 PROVE  Rescued \/ (Carried /\ index[Main].epoch \in units)
      OBVIOUS
    <3>1. Carried
      BY <1>2, <2>0 DEF Archiving, At, Carried
    <3>2. CASE index[Main].uids = {}
      BY <3>2 DEF Rescued
    <3>3. CASE index[Main].uids # {}
      <4>1. PICK u \in index[Main].uids : disk[me][index[Main].epoch][u] # None
        BY <3>1, <3>3 DEF Carried
      <4>2. u \in Uid /\ index[Main].epoch \in Epoch /\ index[Main].epoch # gather.cached
        BY <2>0 DEF Index, Stranded, Differ
      <4>3. u \in Has(disk[me][index[Main].epoch])
        BY <4>1, <4>2 DEF Has
      <4> QED BY <3>1, <4>2, <4>3
    <3> QED BY <3>2, <3>3
  <2> HIDE DEF units
  <2>3. /\ gather' \in Run /\ gather'.pc = "listing" /\ gather'.units = units
        /\ gather'.cached = gather.cached /\ gather'.host = gather.host
    <3>1. units \subseteq Unit
      BY <2>0 DEF Unit
    <3> QED BY <2>0, <2>1, <3>1 DEF Run, Stage
  <2>4. Listing'
    BY <2>0, <2>1, <2>2, <2>3 DEF Listing, At, me, Stranded, Rescued, Carried, local, store
  <2>5. StageHolds'
    BY <2>3, <2>4 DEF StageHolds, Restoring, Synced, Archiving, Uploading, Deleting, Begun, At
  <2> QED BY <2>1, <2>3, <2>5, OwnStep DEF TypeOK
<1> QED BY <1>1, <1>2

\* What an upload begins with.
LEMMA UploadTyped ==
  ASSUME TypeOK, NEW n \in Unit, NEW base \in SUBSET Uid, Upload(n, base)
  PROVE  /\ gather' \in Run /\ gather'.pc = "uploading" /\ gather'.unit = n /\ gather'.stored = index[n]
         /\ gather'.uids = base /\ gather'.todo = ChunksOf(Has(disk[me][n]))
         /\ gather'.units = gather.units \ {n} /\ gather'.cached = gather.cached
         /\ gather'.host = gather.host /\ gather'.todo \subseteq Chunk
<1> DEFINE todo == ChunksOf(Has(disk[me][n]))
<1>1. gather \in Run /\ index[n] \in Index
  BY DEF TypeOK
<1>2. todo \subseteq Chunk
  BY Naturals DEF Has
<1>3. gather' = [gather EXCEPT !.pc = "uploading", !.unit = n, !.into = n, !.stored = index[n],
                               !.uids = base, !.todo = todo, !.units = @ \ {n}]
  BY DEF Upload
<1> HIDE DEF todo
<1>4. gather' \in Run /\ gather'.pc = "uploading" /\ gather'.unit = n /\ gather'.stored = index[n]
      /\ gather'.uids = base /\ gather'.todo = todo /\ gather'.units = gather.units \ {n}
      /\ gather'.cached = gather.cached /\ gather'.host = gather.host
  BY <1>1, <1>2, <1>3 DEF Run, Stage
<1> QED BY <1>2, <1>4 DEF todo

LEMMA UploadArchiveStep ==
  ASSUME MailIInv, UploadArchive
  PROVE  MailIInv'
<1> USE DEF MailIInv
<1>0. /\ gather.units \subseteq Epoch /\ gather.units # {} /\ Listing /\ gather.pc = "listing"
      /\ UNCHANGED <<epoch, local, store, begun>>
  BY DEF UploadArchive, StageHolds, Listing, At
<1>1. PICK n \in gather.units : n = Least(gather.units)
  <2>1. gather.units \subseteq Nat
    BY <1>0, ConstantsAssumption DEF Epoch
  <2> QED BY <1>0, <2>1, LeastIn
<1>2. /\ n \in Unit /\ n # Main /\ index[n].uids \in SUBSET Uid /\ index[n].uids \subseteq Has(chunks[n])
  BY <1>0, <1>1, ConstantsAssumption DEF Epoch, Unit, Main, TypeOK, Index, StoreHolds, IndexedIsThere
<1>3. Upload(n, index[n].uids)
  BY <1>1 DEF UploadArchive
<1>4. /\ gather' \in Run /\ gather'.pc = "uploading" /\ gather'.unit = n /\ gather'.stored = index[n]
      /\ gather'.uids = index[n].uids /\ gather'.todo = ChunksOf(Has(disk[me][n]))
      /\ gather'.units = gather.units \ {n} /\ gather'.cached = gather.cached
      /\ gather'.host = gather.host /\ gather'.todo \subseteq Chunk
  BY <1>2, <1>3, UploadTyped
<1>5. Uploading'
  <2>1. gather'.cached = marker'[me'] /\ gather'.units \subseteq Epoch /\ ~Replacing'
    BY <1>0, <1>2, <1>4 DEF Listing, At, me, local, Replacing
  <2>2. Stranded' => Rescued' \/ (Carried' /\ (index[Main].epoch \in gather'.units \/ index[Main].epoch = n))
    BY <1>0, <1>4 DEF Listing, At, Stranded, Rescued, Carried, me, local, store
  <2>3. \A u \in Has(disk[me][n]) : ChunkOf(u) \in gather'.todo
    BY <1>4 DEF ChunksOf
  <2> QED BY <1>0, <1>2, <1>4, <2>1, <2>2, <2>3 DEF Uploading, me, local, store
<1>6. StageHolds'
  BY <1>4, <1>5 DEF StageHolds, Restoring, Synced, Archiving, Listing, Deleting, Begun, At
<1> QED BY <1>0, <1>4, <1>6, OwnStep DEF TypeOK

\* An index that names anything names its epoch.
LEMMA EpochNamed ==
  ASSUME MailIInv, index[Main].uids # {}
  PROVE  index[Main].epoch # None
<1>1. PICK u \in index[Main].uids : TRUE
  OBVIOUS
<1>2. u \in Has(chunks[Main])
  BY <1>1 DEF MailIInv, StoreHolds, IndexedIsThere, Unit
<1>3. chunks[Main][u] \in {None, index[Main].epoch} /\ chunks[Main][u] # None
  BY <1>1, <1>2 DEF MailIInv, StoreHolds, PureMain, Pure, Has
<1> QED BY <1>3

LEMMA UploadMainStep ==
  ASSUME MailIInv, UploadMain
  PROVE  MailIInv'
<1> USE DEF MailIInv
<1>0. /\ Listing /\ gather.pc = "listing" /\ gather.cached = marker[me] /\ gather.units = {}
      /\ ~Differ(gather.cached, index[Main].epoch) /\ Main \in Unit
      /\ UNCHANGED <<epoch, local, store, begun>>
  BY DEF UploadMain, StageHolds, Listing, At, Unit
<1>1. CASE Has(disk[me][Main]) = {}
  BY <1>0, <1>1, EndStep DEF UploadMain
<1>2. CASE Has(disk[me][Main]) # {}
  <2>1. Upload(Main, index[Main].uids)
    BY <1>2 DEF UploadMain
  <2>2. index[Main].uids \in SUBSET Uid /\ index[Main].uids \subseteq Has(chunks[Main]) /\ me \in Host
    BY <1>0 DEF TypeOK, Index, StoreHolds, IndexedIsThere, me, Run
  <2>3. /\ gather' \in Run /\ gather'.pc = "uploading" /\ gather'.unit = Main /\ gather'.stored = index[Main]
        /\ gather'.uids = index[Main].uids /\ gather'.todo = ChunksOf(Has(disk[me][Main]))
        /\ gather'.units = gather.units \ {Main} /\ gather'.cached = gather.cached
        /\ gather'.host = gather.host /\ gather'.todo \subseteq Chunk
    BY <1>0, <2>1, <2>2, UploadTyped
  <2>4. gather.cached # None
    BY <1>0, <1>2, <2>2 DEF PureHosts, Has
  <2>5. Pure(index[Main].uids, gather.cached)
    <3>1. index[Main].uids # {} => index[Main].epoch = gather.cached
      BY <1>0, <2>4, EpochNamed DEF Differ
    <3> QED BY <3>1 DEF StoreHolds, PureMain, Pure
  <2>6. Uploading'
    <3>1. gather'.cached = marker'[me'] /\ gather'.units \subseteq Epoch /\ ~Replacing'
      BY <1>0, <2>3 DEF me, local, Replacing
    <3>2. \A u \in Has(disk[me][Main]) : ChunkOf(u) \in gather'.todo
      BY <2>3 DEF ChunksOf
    <3> QED BY <1>0, <2>2, <2>3, <2>4, <2>5, <3>1, <3>2 DEF Uploading, me, local, store, Pure
  <2>7. StageHolds'
    BY <2>3, <2>6 DEF StageHolds, Restoring, Synced, Archiving, Listing, Deleting, Begun, At
  <2> QED BY <1>0, <2>3, <2>7, OwnStep DEF TypeOK
<1> QED BY <1>1, <1>2

LEMMA ReplaceMainStep ==
  ASSUME MailIInv, ReplaceMain
  PROVE  MailIInv'
<1> USE DEF MailIInv
<1>0. /\ Listing /\ gather.pc = "listing" /\ gather.cached = marker[me] /\ gather.units = {}
      /\ Differ(gather.cached, index[Main].epoch) /\ Main \in Unit /\ gather \in Run
      /\ UNCHANGED <<epoch, local, chunks, begun>>
  BY DEF ReplaceMain, StageHolds, Listing, At, Unit, TypeOK
<1>1. CASE Has(disk[me][Main]) = {}
  BY <1>0, <1>1, EndStep DEF ReplaceMain, store
<1>2. CASE Has(disk[me][Main]) # {}
  <2>1. Upload(Main, {}) /\ index' = [index EXCEPT ![Main] = [epoch |-> gather.cached, uids |-> {}]]
    BY <1>2 DEF ReplaceMain
  <2>2. /\ gather' \in Run /\ gather'.pc = "uploading" /\ gather'.unit = Main /\ gather'.stored = index[Main]
        /\ gather'.uids = {} /\ gather'.todo = ChunksOf(Has(disk[me][Main]))
        /\ gather'.units = gather.units \ {Main} /\ gather'.cached = gather.cached
        /\ gather'.host = gather.host /\ gather'.todo \subseteq Chunk
    BY <1>0, <2>1, UploadTyped
  <2>3. /\ index' \in [Unit -> Index] /\ index'[Main].uids = {} /\ index'[Main].epoch = gather.cached
        /\ \A n \in Epoch : n # Main => index'[n] = index[n]
    <3>1. [epoch |-> gather.cached, uids |-> {}] \in Index
      BY <1>0 DEF Run, Index
    <3> QED BY <1>0, <2>1, <3>1 DEF TypeOK, Unit
  <2>4. TypeOK'
    BY <1>0, <2>2, <2>3 DEF TypeOK, local
  <2>5. PureHosts'
    BY <1>0 DEF PureHosts, local
  <2>6. StoreHolds'
    BY <1>0, <2>3 DEF StoreHolds, PureArchives, PureMain, Pure, IndexedIsThere, Unit
  <2>7. Uploading'
    <3>1. gather'.cached = marker'[me'] /\ gather'.units \subseteq Epoch
      BY <1>0, <2>2 DEF me, local
    <3>2. \A u \in Has(disk[me][Main]) : ChunkOf(u) \in gather'.todo
      BY <2>2 DEF ChunksOf
    <3>3. Replacing' /\ gather.cached # None
      BY <1>0, <2>2 DEF Replacing, Differ
    <3> QED BY <1>0, <2>2, <2>3, <3>1, <3>2, <3>3 DEF Uploading, me, local, Pure
  <2>8. StageHolds'
    BY <2>2, <2>7 DEF StageHolds, Restoring, Synced, Archiving, Listing, Deleting, Begun, At
  <2> QED BY <2>4, <2>5, <2>6, <2>8
<1> QED BY <1>1, <1>2

\* A chunk that is put holds all the mail it is to be indexed for, of one epoch.
LEMMA PutChunkStep ==
  ASSUME MailIInv, PutChunk
  PROVE  MailIInv'
<1> USE DEF MailIInv
<1> DEFINE n    == gather.unit
           c    == Least(gather.todo)
           dir  == disk[me][n]
           uids == Has(dir) \cap Within(c)
           have == Base \cap Within(c)
           fold == ~(have \subseteq uids)
           new  == [u \in Uid |-> IF u \notin Within(c) \/ (dir[u] = None /\ fold)
                                  THEN chunks[n][u] ELSE dir[u]]
           grown == (gather.uids \ Within(c)) \cup (Has(new) \cap Within(c))
           left == gather.todo \ {c}
<1>0. /\ gather \in Run /\ gather.pc = "uploading" /\ me \in Host /\ gather.todo # {}
      /\ n \in Unit /\ Main \in Unit /\ UNCHANGED <<epoch, local, index, begun>>
  BY DEF PutChunk, At, TypeOK, Run, me, Unit
<1>1. /\ gather.cached = marker[me]
      /\ gather.units \subseteq Epoch
      /\ gather.todo \subseteq Chunk
      /\ Replacing \/ gather.stored = index[n]
      /\ Replacing => index[Main].uids = {} /\ index[Main].epoch = gather.cached
      /\ n = Main => gather.cached # None /\ Pure(gather.uids, gather.cached)
      /\ index[n].uids \subseteq gather.uids
      /\ gather.uids \subseteq Has(chunks[n])
      /\ \A u \in Has(disk[me][n]) : u \in gather.uids \/ ChunkOf(u) \in gather.todo
      /\ n # Main /\ Stranded =>
           Rescued \/ (Carried /\ (index[Main].epoch \in gather.units \/ index[Main].epoch = n))
  BY <1>0 DEF StageHolds, Uploading, At
<1>2. c \in gather.todo
  BY <1>0, <1>1, Naturals, LeastIn
<1>3. /\ dir \in Mail /\ chunks[n] \in Mail /\ index[n].uids \subseteq Uid /\ gather.uids \subseteq Uid
      /\ Within(c) \subseteq Uid /\ \A u \in Uid : u \in Within(c) <=> ChunkOf(u) = c
  BY <1>0 DEF TypeOK, Index, Run, Within
<1>4. have = IF Replacing THEN {} ELSE index[n].uids \cap Within(c)
  BY <1>1 DEF Base
<1>5. left \subseteq Chunk
  BY <1>1
<1>6. IF uids = have
      THEN gather' = [gather EXCEPT !.todo = left] /\ UNCHANGED chunks
      ELSE /\ chunks' = [chunks EXCEPT ![n] = new]
           /\ gather' = [gather EXCEPT !.todo = left, !.uids = grown]
  BY DEF PutChunk
<1> HIDE DEF n, c, uids, have, fold, new, grown, left
<1>7. CASE uids = have
  <2>1. /\ gather' \in Run /\ gather'.todo = left /\ gather'.unit = n /\ gather'.stored = gather.stored
        /\ gather'.pc = "uploading" /\ gather'.cached = gather.cached /\ gather'.units = gather.units
        /\ gather'.uids = gather.uids /\ gather'.host = gather.host /\ UNCHANGED chunks
    BY <1>0, <1>5, <1>6, <1>7 DEF Run, n
  <2>2. \A u \in Has(dir) : u \in gather.uids \/ ChunkOf(u) \in left
    <3> SUFFICES ASSUME NEW u \in Has(dir), ChunkOf(u) \notin left
                 PROVE  u \in gather.uids
      OBVIOUS
    <3>1. CASE ChunkOf(u) = c
      <4>1. u \in have
        BY <1>3, <1>7, <3>1 DEF uids, Has
      <4> QED BY <1>1, <1>4, <4>1
    <3>2. CASE ChunkOf(u) # c
      BY <1>1, <3>2 DEF left
    <3> QED BY <3>1, <3>2
  <2>3. (Stranded' <=> Stranded) /\ (Rescued' <=> Rescued) /\ (Carried' <=> Carried)
        /\ (Replacing' <=> Replacing)
    BY <1>0, <2>1 DEF Stranded, Rescued, Carried, Replacing, me, local, n
  <2>4. Uploading'
    BY <1>0, <1>1, <1>5, <2>1, <2>2, <2>3 DEF Uploading, me, local, Pure
  <2>5. StageHolds'
    BY <2>1, <2>4 DEF StageHolds, Restoring, Synced, Archiving, Listing, Deleting, Begun, At
  <2> QED BY <1>0, <2>1, <2>5, OwnStep DEF TypeOK, store
<1>8. CASE uids # have
  <2>1. /\ new \in Mail
        /\ \A u \in Uid : new[u] = IF u \notin Within(c) \/ (dir[u] = None /\ fold)
                                   THEN chunks[n][u] ELSE dir[u]
    BY <1>3 DEF new, Mail
  <2>2. /\ chunks' \in [Unit -> Mail] /\ chunks'[n] = new
        /\ \A m \in Unit : m # n => chunks'[m] = chunks[m]
    BY <1>0, <1>6, <1>8, <2>1 DEF TypeOK
  <2>3. grown \subseteq Uid
    BY <1>3 DEF grown, Has
  <2>4. /\ gather' \in Run /\ gather'.todo = left /\ gather'.unit = n /\ gather'.stored = gather.stored
        /\ gather'.pc = "uploading" /\ gather'.cached = gather.cached /\ gather'.units = gather.units
        /\ gather'.uids = grown /\ gather'.host = gather.host
    BY <1>0, <1>5, <1>6, <1>8, <2>3 DEF Run, n
  <2>5. grown \subseteq Has(new)
    BY <1>1, <1>3, <2>1 DEF grown, Has
  <2>6. index[n].uids \subseteq grown
    <3> SUFFICES ASSUME NEW u \in index[n].uids
                 PROVE  u \in grown
      OBVIOUS
    <3>1. u \in gather.uids /\ u \in Uid /\ chunks[n][u] # None
      BY <1>1, <1>3 DEF Has
    <3>2. CASE u \notin Within(c)
      BY <3>1, <3>2 DEF grown
    <3>3. CASE u \in Within(c)
      <4>1. ~Replacing
        BY <1>1, <1>0 DEF Replacing, n
      <4>2. u \in have
        BY <1>4, <3>3, <4>1
      <4>3. fold \/ dir[u] # None
        BY <4>2 DEF fold, uids, Has
      <4>4. new[u] # None
        BY <2>1, <3>1, <3>3, <4>3
      <4> QED BY <3>1, <3>3, <4>4 DEF grown, Has
    <3> QED BY <3>2, <3>3
  <2>7. \A u \in Uid : dir[u] \in {None, IF n = Main THEN marker[me] ELSE n}
    BY <1>0 DEF PureHosts, Unit
  <2>8. PureArchives'
    <3> SUFFICES ASSUME NEW m \in Epoch, NEW u \in Uid
                 PROVE  chunks'[m][u] \in {None, m}
      BY DEF PureArchives
    <3>1. m \in Unit /\ m # Main /\ chunks[m][u] \in {None, m}
      BY ConstantsAssumption DEF Unit, Epoch, Main, StoreHolds, PureArchives
    <3>2. CASE m # n
      BY <2>2, <3>1, <3>2
    <3>3. CASE m = n
      BY <2>1, <2>2, <2>7, <3>1, <3>3
    <3> QED BY <3>2, <3>3
  <2>9. n = Main => \A u \in grown, w \in Uid : ChunkOf(w) = ChunkOf(u) => new[w] \in {None, gather.cached}
    <3> SUFFICES ASSUME n = Main, NEW u \in grown, NEW w \in Uid, ChunkOf(w) = ChunkOf(u)
                 PROVE  new[w] \in {None, gather.cached}
      OBVIOUS
    <3>0. u \in Uid
      BY <2>3
    <3>1. CASE ChunkOf(u) # c
      <4>1. u \in gather.uids /\ w \notin Within(c)
        BY <1>3, <3>0, <3>1 DEF grown
      <4>2. new[w] = chunks[n][w]
        BY <2>1, <4>1
      <4> QED BY <1>1, <4>1, <4>2 DEF Pure
    <3>2. CASE ChunkOf(u) = c
      <4>1. CASE dir[w] = None /\ fold
        <5>1. PICK x \in have : x \notin uids
          BY <4>1 DEF fold
        <5>2. x \in index[n].uids /\ x \in Within(c)
          BY <1>4, <5>1
        <5>3. x \in gather.uids /\ ChunkOf(w) = ChunkOf(x)
          BY <1>1, <1>3, <3>2, <5>2
        <5>4. chunks[Main][w] \in {None, gather.cached}
          BY <1>1, <5>3 DEF Pure
        <5> QED BY <2>1, <4>1, <5>4
      <4>2. CASE ~(dir[w] = None /\ fold)
        <5>1. new[w] = dir[w]
          BY <1>3, <2>1, <3>2, <4>2
        <5> QED BY <1>1, <2>7, <5>1
      <4> QED BY <4>1, <4>2
    <3> QED BY <3>1, <3>2
  <2>10. PureMain'
    <3>1. CASE n # Main
      BY <1>0, <2>2, <3>1 DEF StoreHolds, PureMain, Pure
    <3>2. CASE n = Main
      <4> SUFFICES ASSUME NEW u \in index[Main].uids, NEW w \in Uid, ChunkOf(w) = ChunkOf(u)
                   PROVE  new[w] \in {None, index[Main].epoch}
        BY <1>0, <2>2, <3>2 DEF PureMain, Pure
      <4>1. u \in grown /\ u \in gather.uids /\ u \in Uid /\ chunks[Main][u] # None
        BY <1>1, <1>3, <2>6, <3>2 DEF Has
      <4>2. chunks[Main][u] = index[Main].epoch
        BY <4>1 DEF StoreHolds, PureMain, Pure
      <4>3. chunks[Main][u] = gather.cached
        BY <1>1, <3>2, <4>1 DEF Pure
      <4> QED BY <2>9, <3>2, <4>1, <4>2, <4>3
    <3> QED BY <3>1, <3>2
  <2>11. IndexedIsThere'
    BY <1>0, <2>2, <2>5, <2>6 DEF StoreHolds, IndexedIsThere
  <2>12. TypeOK' /\ PureHosts'
    BY <1>0, <2>2, <2>4 DEF TypeOK, PureHosts, local
  <2>13. \A u \in Has(dir) : u \in grown \/ ChunkOf(u) \in left
    <3> SUFFICES ASSUME NEW u \in Has(dir), ChunkOf(u) \notin left
                 PROVE  u \in grown
      OBVIOUS
    <3>0. u \in Uid /\ dir[u] # None
      BY DEF Has
    <3>1. CASE ChunkOf(u) = c
      <4>1. u \in Within(c) /\ new[u] # None
        BY <1>3, <2>1, <3>0, <3>1
      <4> QED BY <3>0, <4>1 DEF grown, Has
    <3>2. CASE ChunkOf(u) # c
      BY <1>1, <1>3, <3>0, <3>2 DEF left, grown
    <3> QED BY <3>1, <3>2
  <2>14. (Stranded' <=> Stranded) /\ (Rescued' <=> Rescued) /\ (Carried' <=> Carried)
         /\ (Replacing' <=> Replacing)
    BY <1>0, <2>4 DEF Stranded, Rescued, Carried, Replacing, me, local, n
  <2>15. n = Main => Pure(gather.uids, gather.cached)'
    BY <2>2, <2>4, <2>9 DEF Pure
  <2>16. Uploading'
    BY <1>0, <1>1, <1>5, <2>2, <2>4, <2>5, <2>6, <2>13, <2>14, <2>15 DEF Uploading, me, local, Pure
  <2>17. StageHolds'
    BY <2>4, <2>16 DEF StageHolds, Restoring, Synced, Archiving, Listing, Deleting, Begun, At
  <2> QED BY <2>8, <2>10, <2>11, <2>12, <2>17 DEF StoreHolds
<1> QED BY <1>7, <1>8

\* An index that is put names no more than its chunks hold, and an archive's has all
\* the mail of the host's disk.
LEMMA PutIndexStep ==
  ASSUME MailIInv, PutIndex
  PROVE  MailIInv'
<1> USE DEF MailIInv
<1> DEFINE n == gather.unit
           e == IF n = Main /\ gather.cached # None THEN gather.cached ELSE gather.stored.epoch
           stage == IF n = Main THEN "deleting" ELSE "listing"
           todo  == IF Replacing THEN ChunksOf(gather.stored.uids) \ ChunksOf(gather.uids) ELSE {}
<1>0. /\ gather \in Run /\ gather.pc = "uploading" /\ me \in Host /\ gather.todo = {}
      /\ n \in Unit /\ Main \in Unit /\ UNCHANGED <<epoch, local, chunks, begun>>
  BY DEF PutIndex, At, TypeOK, Run, me, Unit
<1>1. /\ gather.cached = marker[me]
      /\ gather.units \subseteq Epoch
      /\ n = Main => gather.cached # None /\ Pure(gather.uids, gather.cached)
      /\ index[n].uids \subseteq gather.uids
      /\ gather.uids \subseteq Has(chunks[n])
      /\ \A u \in Has(disk[me][n]) : u \in gather.uids
      /\ n # Main /\ Stranded =>
           Rescued \/ (Carried /\ (index[Main].epoch \in gather.units \/ index[Main].epoch = n))
  BY <1>0 DEF StageHolds, Uploading, At
<1>2. /\ e \in Epoch \cup {None} /\ gather.uids \subseteq Uid /\ gather.stored.uids \subseteq Uid
      /\ gather.stored.epoch \in Epoch \cup {None}
  BY <1>0 DEF Run, Index
<1>3. todo \subseteq Chunk /\ todo \cap ChunksOf(gather.uids) = {} /\ (n # Main => todo = {})
  BY <1>2, Naturals DEF Replacing
<1>4. /\ index' = [index EXCEPT ![n] = [epoch |-> e, uids |-> gather.uids]]
      /\ gather' = [gather EXCEPT !.pc = stage, !.todo = todo, !.uids = {}]
  BY DEF PutIndex
<1>5. n = Main => e = gather.cached
  BY <1>1
<1>6. stage \in {"deleting", "listing"} /\ (stage = "deleting" <=> n = Main)
  OBVIOUS
<1> HIDE DEF e, n, stage, todo
<1>7. /\ gather' \in Run /\ gather'.pc = stage /\ gather'.todo = todo /\ gather'.cached = gather.cached
      /\ gather'.units = gather.units /\ gather'.host = gather.host
  BY <1>0, <1>3, <1>4, <1>6 DEF Run, Stage
<1>8. /\ index' \in [Unit -> Index] /\ index'[n].uids = gather.uids /\ index'[n].epoch = e
      /\ \A m \in Unit : m # n => index'[m] = index[m]
  <2>1. [epoch |-> e, uids |-> gather.uids] \in Index
    BY <1>2 DEF Index
  <2> QED BY <1>0, <1>4, <2>1 DEF TypeOK
<1>9. TypeOK' /\ PureHosts'
  BY <1>0, <1>7, <1>8 DEF TypeOK, PureHosts, local
<1>10. StoreHolds'
  <2>1. PureArchives' /\ IndexedIsThere'
    BY <1>0, <1>1, <1>8 DEF StoreHolds, PureArchives, IndexedIsThere
  <2>2. PureMain'
    <3>1. CASE n = Main
      BY <1>0, <1>1, <1>5, <1>8, <3>1 DEF PureMain, Pure
    <3>2. CASE n # Main
      BY <1>0, <1>8, <3>2 DEF StoreHolds, PureMain, Pure
    <3> QED BY <3>1, <3>2
  <2> QED BY <2>1, <2>2 DEF StoreHolds
<1>11. Listing' /\ Deleting'
  <2>1. CASE n = Main
    BY <1>3, <1>6, <1>7, <1>8, <2>1 DEF Listing, Deleting, At
  <2>2. CASE n # Main
    <3>1. index'[Main] = index[Main] /\ index[Main] \in Index
      BY <1>0, <1>8, <2>2 DEF TypeOK
    <3>2. gather'.cached = marker'[me'] /\ disk'[me'] = disk[me]
      BY <1>0, <1>1, <1>7 DEF me, local
    <3>3. ASSUME Stranded
          PROVE  Rescued' \/ (Carried' /\ index'[Main].epoch \in gather'.units)
      <4>1. index[Main].epoch \in Unit
        BY <3>1 DEF Index, Unit, None, Main
      <4>2. CASE Rescued
        BY <1>1, <1>8, <3>1, <4>1, <4>2 DEF Rescued
      <4>3. CASE Carried /\ index[Main].epoch \in gather.units
        BY <1>7, <3>1, <3>2, <4>3 DEF Carried
      <4>4. CASE Carried /\ index[Main].epoch = n
        <5>1. \A u \in index[Main].uids : u \in Has(disk[me][n])
          BY <3>1, <4>4 DEF Carried, Has, Index
        <5> QED BY <1>1, <1>8, <3>1, <4>4, <5>1 DEF Rescued
      <4> QED BY <1>1, <2>2, <3>3, <4>2, <4>3, <4>4
    <3>4. Stranded' <=> Stranded
      BY <1>7, <3>1 DEF Stranded
    <3> QED BY <1>1, <1>6, <1>7, <2>2, <3>2, <3>3, <3>4 DEF Listing, Deleting, At
  <2> QED BY <2>1, <2>2
<1>12. StageHolds'
  BY <1>6, <1>7, <1>11 DEF StageHolds, Restoring, Synced, Archiving, Uploading, Begun, At
<1> QED BY <1>9, <1>10, <1>12

LEMMA DeleteChunkStep ==
  ASSUME MailIInv, DeleteChunk
  PROVE  MailIInv'
<1> USE DEF MailIInv
<1> DEFINE c == Least(gather.todo)
           rest == [u \in Uid |-> IF u \in Within(c) THEN None ELSE chunks[Main][u]]
           left == gather.todo \ {c}
<1>0. /\ gather \in Run /\ gather.pc = "deleting" /\ gather.todo # {} /\ gather.todo \subseteq Chunk
      /\ gather.todo \cap ChunksOf(index[Main].uids) = {} /\ Main \in Unit
      /\ UNCHANGED <<epoch, local, index, begun>>
  BY DEF DeleteChunk, At, TypeOK, Run, StageHolds, Deleting, Unit
<1>1. c \in gather.todo
  BY <1>0, Naturals, LeastIn
<1>2. chunks' = [chunks EXCEPT ![Main] = rest] /\ gather' = [gather EXCEPT !.todo = left]
  BY DEF DeleteChunk
<1>3. left \subseteq gather.todo
  OBVIOUS
<1> HIDE DEF c, left
<1>4. gather' \in Run /\ gather'.pc = "deleting" /\ gather'.todo = left
  BY <1>0, <1>2, <1>3 DEF Run
<1>5. /\ rest \in Mail /\ chunks' \in [Unit -> Mail] /\ chunks'[Main] = rest
      /\ \A m \in Unit : m # Main => chunks'[m] = chunks[m]
  <2>1. rest \in Mail
    BY <1>0 DEF TypeOK, Mail
  <2> QED BY <1>0, <1>2, <2>1 DEF TypeOK
<1>6. TypeOK' /\ PureHosts'
  BY <1>0, <1>4, <1>5 DEF TypeOK, PureHosts, local
<1>7. index[Main].uids \subseteq Has(rest)
  <2>1. \A u \in index[Main].uids : u \in Uid /\ u \notin Within(c) /\ chunks[Main][u] # None
    BY <1>0, <1>1 DEF ChunksOf, Within, TypeOK, Index, StoreHolds, IndexedIsThere, Has
  <2> QED BY <2>1 DEF Has
<1>8. StoreHolds'
  <2>1. PureArchives'
    BY <1>0, <1>5, ConstantsAssumption DEF StoreHolds, PureArchives, Unit, Epoch, Main
  <2>2. PureMain'
    BY <1>0, <1>5 DEF StoreHolds, PureMain, Pure
  <2>3. IndexedIsThere'
    BY <1>0, <1>5, <1>7 DEF StoreHolds, IndexedIsThere
  <2> QED BY <2>1, <2>2, <2>3 DEF StoreHolds
<1>9. Deleting'
  BY <1>0, <1>3, <1>4 DEF Deleting, At
<1>10. StageHolds'
  BY <1>4, <1>9 DEF StageHolds, Restoring, Synced, Archiving, Listing, Uploading, Begun, At
<1> QED BY <1>6, <1>8, <1>10

(***************************************************************************)
(* The invariant.                                                          *)
(***************************************************************************)

LEMMA IInvStep == MailIInv /\ [Next]_vars => MailIInv'
<1> SUFFICES ASSUME MailIInv, [Next]_vars
             PROVE  MailIInv'
  OBVIOUS
<1>1. CASE \E h \in Host : \E clear \in BOOLEAN : Begin(h, clear)
  BY <1>1, BeginStep
<1>2. CASE ClearIndex \/ ClearChunks
  BY <1>2, ClearSteps
<1>3. CASE ClearLocal \/ \E h \in Host : Wipe(h)
  BY <1>3, EmptySteps
<1>4. CASE LoadMain
  BY <1>4, LoadMainStep
<1>5. CASE RestoreChunk
  BY <1>5, RestoreChunkStep
<1>6. CASE LoadArchive
  BY <1>6, LoadArchiveStep
<1>7. CASE HydrateFails \/ HydrateEnds \/ SyncFails \/ Unconfirmed \/ Persisted \/ Stop
  BY <1>7, QuietSteps
<1>8. CASE Adopt \/ Moved
  BY <1>8, AdoptSteps
<1>9. CASE Reconcile
  BY <1>9, ReconcileStep
<1>10. CASE \E u \in Uid : Move(u)
  BY <1>10, MoveStep
<1>11. CASE \E from, to \in Uid : Search(from, to)
  BY <1>11, SearchStep
<1>12. CASE \E got \in SUBSET Uid : Download(got)
  BY <1>12, DownloadStep
<1>13. CASE Persist
  BY <1>13, PersistStep
<1>14. CASE ListArchives
  BY <1>14, ListArchivesStep
<1>15. CASE UploadArchive \/ UploadMain \/ ReplaceMain
  BY <1>15, UploadArchiveStep, UploadMainStep, ReplaceMainStep
<1>16. CASE PutChunk \/ PutIndex \/ DeleteChunk
  BY <1>16, PutChunkStep, PutIndexStep, DeleteChunkStep
<1>17. CASE Renumber
  BY <1>17, RenumberStep
<1>18. CASE UNCHANGED vars
  <2>1. UNCHANGED <<epoch, local, store, begun, gather>>
    BY <1>18 DEF vars
  <2>2. (StageHolds)' <=> StageHolds
    BY <2>1 DEF StageHolds, Restoring, Synced, Archiving, Listing, Uploading, Deleting, Begun, At, me,
                Stranded, Carried, Rescued, Replacing, Pure, local, store
  <2> QED BY <2>1, <2>2, OwnStep DEF MailIInv, TypeOK
<1> QED BY <1>1, <1>2, <1>3, <1>4, <1>5, <1>6, <1>7, <1>8, <1>9, <1>10, <1>11, <1>12, <1>13, <1>14,
           <1>15, <1>16, <1>17, <1>18 DEF Next, Hydrating, Syncing, Persisting

LEMMA Inductive == Spec => []MailIInv
  BY InitHolds, IInvStep, PTL DEF Spec

\* Hosts and store stay well typed; an index names only what its chunks hold; and no
\* unit of a host or of the store mixes the mail of two epochs.
THEOREM MailSafe == Spec => []MailInv
<1>1. MailIInv => MailInv
  <2> SUFFICES ASSUME MailIInv
               PROVE  MailInv
    OBVIOUS
  <2>1. \A n \in Unit, u \in Uid : u \in index[n].uids => chunks[n][u] # None
    BY DEF MailIInv, StoreHolds, IndexedIsThere, Has
  <2>2. \A n \in Unit : index[n].uids \subseteq Uid
    BY DEF MailIInv, TypeOK, Index
  <2>3. \A u \in index[Main].uids : chunks[Main][u] = index[Main].epoch
    BY <2>1, <2>2 DEF MailIInv, StoreHolds, PureMain, Pure, Unit
  <2>4. \A n \in Epoch : \A u \in index[n].uids : chunks[n][u] = n
    BY <2>1, <2>2 DEF MailIInv, StoreHolds, PureArchives, Unit
  <2>5. EpochsApart
    BY <2>3, <2>4 DEF MailIInv, PureHosts, EpochsApart
  <2> QED BY <2>5 DEF MailIInv, StoreHolds, MailInv
<1> QED BY <1>1, Inductive, PTL

(***************************************************************************)
(* Stored mail stays.                                                      *)
(***************************************************************************)

\* The epoch of a unit's mail, by what the store says.
EpochOf(n) == IF n = Main THEN index[Main].epoch ELSE n

ListedAre == \A n \in Unit : \A u \in index[n].uids : chunks[n][u] = EpochOf(n)

LEMMA ListedMail == MailIInv => ListedAre
<1> SUFFICES ASSUME MailIInv, NEW n \in Unit, NEW u \in index[n].uids
             PROVE  chunks[n][u] = EpochOf(n)
  BY DEF ListedAre
<1>1. u \in Uid /\ chunks[n][u] # None
  BY DEF MailIInv, TypeOK, Index, StoreHolds, IndexedIsThere, Has
<1>2. CASE n = Main
  BY <1>1, <1>2 DEF MailIInv, StoreHolds, PureMain, Pure, EpochOf
<1>3. CASE n # Main
  <2>1. n \in Epoch
    BY <1>3 DEF Unit
  <2> QED BY <1>1, <1>3, <2>1 DEF MailIInv, StoreHolds, PureArchives, EpochOf
<1> QED BY <1>2, <1>3

\* A UID that an index names is named by the index of some unit of the same epoch after.
StillNamed == \A n \in Unit : \A u \in index[n].uids :
                \E m \in Unit : u \in index'[m].uids /\ EpochOf(m)' = EpochOf(n)

LEMMA NamedStays ==
  ASSUME ListedAre, ListedAre', StillNamed
  PROVE  Stored \subseteq Stored'
<1> SUFFICES ASSUME NEW x \in Stored
             PROVE  x \in Stored'
  OBVIOUS
<1>0. PICK n \in Unit : x \in Listed(n)
  BY DEF Stored
<1>1. PICK u \in index[n].uids : x = <<chunks[n][u], u>>
  BY <1>0 DEF Listed
<1>2. PICK m \in Unit : u \in index'[m].uids /\ EpochOf(m)' = EpochOf(n)
  BY <1>1 DEF StillNamed
<1>3. x = <<chunks'[m][u], u>>
  BY <1>1, <1>2 DEF ListedAre
<1>4. x \in Listed(m)'
  BY <1>2, <1>3 DEF Listed
<1> QED BY <1>4 DEF Stored

LEMMA OtherSteps ==
  ASSUME [Next]_vars, ~At("clearing"), ~ReplaceMain, ~PutIndex
  PROVE  UNCHANGED index
<1>1. CASE UNCHANGED vars
  BY <1>1 DEF vars, store
<1>2. CASE \E h \in Host : (\E clear \in BOOLEAN : Begin(h, clear)) \/ Wipe(h)
  BY <1>2 DEF Begin, Wipe, store
<1>3. CASE Hydrating
  BY <1>3 DEF Hydrating, LoadMain, RestoreChunk, LoadArchive, HydrateFails, HydrateEnds, store
<1>4. CASE Syncing
  BY <1>4 DEF Syncing, Adopt, Reconcile, Moved, SyncFails, Move, Search, Download, store
<1>5. CASE Persisting
  BY <1>5 DEF Persisting, Unconfirmed, Persist, ListArchives, UploadArchive, UploadMain, PutChunk,
              DeleteChunk, Persisted, store
<1>6. CASE Renumber \/ Stop
  BY <1>6 DEF Renumber, Stop, store
<1>7. CASE ClearIndex \/ ClearChunks \/ ClearLocal
  BY <1>7 DEF ClearIndex, ClearChunks, ClearLocal, At
<1> QED BY <1>1, <1>2, <1>3, <1>4, <1>5, <1>6, <1>7 DEF Next

\* The main index is emptied only when its mail is in an archive's.
LEMMA ReplacedIsNamed ==
  ASSUME MailIInv, ReplaceMain
  PROVE  StillNamed
<1> USE DEF MailIInv
<1>1. CASE Has(disk[me][Main]) = {}
  BY <1>1 DEF ReplaceMain, StillNamed, EpochOf
<1>2. CASE Has(disk[me][Main]) # {}
  <2>1. index' = [index EXCEPT ![Main] = [epoch |-> gather.cached, uids |-> {}]]
    BY <1>2 DEF ReplaceMain
  <2>2. Rescued /\ index[Main].epoch \in Epoch
    BY DEF ReplaceMain, StageHolds, Listing, Stranded, TypeOK, Index, Unit, Differ
  <2>3. \A n \in Epoch : n \in Unit /\ n # Main
    BY ConstantsAssumption DEF Unit, Epoch, Main
  <2>4. \A n \in Epoch : index'[n] = index[n] /\ EpochOf(n)' = n /\ EpochOf(n) = n
    BY <2>1, <2>3 DEF TypeOK, EpochOf
  <2>5. ASSUME NEW n \in Unit, NEW u \in index[n].uids
        PROVE  \E m \in Unit : u \in index'[m].uids /\ EpochOf(m)' = EpochOf(n)
    <3>1. CASE n = Main
      BY <2>2, <2>3, <2>4, <2>5, <3>1 DEF Rescued, EpochOf
    <3>2. CASE n # Main
      BY <2>4, <2>5, <3>2 DEF Unit
    <3> QED BY <3>1, <3>2
  <2> QED BY <2>5 DEF StillNamed
<1> QED BY <1>1, <1>2

\* An index that is put keeps its UIDs, and its epoch if it had any.
LEMMA PutIsNamed ==
  ASSUME MailIInv, PutIndex
  PROVE  StillNamed
<1> USE DEF MailIInv
<1> DEFINE k == gather.unit
           e == IF k = Main /\ gather.cached # None THEN gather.cached ELSE gather.stored.epoch
<1>1. /\ k \in Unit /\ index[k].uids \subseteq gather.uids
      /\ k = Main => gather.cached # None /\ Pure(gather.uids, gather.cached)
  BY DEF PutIndex, At, TypeOK, Run, StageHolds, Uploading
<1>2. index' = [index EXCEPT ![k] = [epoch |-> e, uids |-> gather.uids]]
  BY DEF PutIndex
<1>3. k = Main => e = gather.cached
  BY <1>1
<1> HIDE DEF k, e
<1>4. /\ index'[k].uids = gather.uids /\ index'[k].epoch = e
      /\ \A m \in Unit : m # k => index'[m] = index[m]
  BY <1>1, <1>2 DEF TypeOK
<1>5. ASSUME NEW n \in Unit, NEW u \in index[n].uids
      PROVE  u \in index'[n].uids /\ EpochOf(n)' = EpochOf(n)
  <2>1. u \in index'[n].uids
    BY <1>1, <1>4, <1>5
  <2>2. CASE n = Main /\ k = Main
    <3>1. u \in Uid /\ chunks[Main][u] # None
      BY <2>2 DEF TypeOK, Index, StoreHolds, IndexedIsThere, Has
    <3>2. chunks[Main][u] = index[Main].epoch /\ chunks[Main][u] = gather.cached
      BY <1>1, <2>2, <3>1 DEF StoreHolds, PureMain, Pure
    <3> QED BY <1>3, <1>4, <2>1, <2>2, <3>2 DEF EpochOf
  <2>3. CASE n # Main \/ k # Main
    BY <1>4, <2>1, <2>3 DEF EpochOf, Unit
  <2> QED BY <2>2, <2>3
<1> QED BY <1>5 DEF StillNamed

\* Stored mail stays stored but where it is cleared: through renumbering, stale hosts,
\* partial restores and gathers that end anywhere.
THEOREM MailStays == Spec => StoredMailStays
<1>1. ASSUME MailIInv, ListedAre, ListedAre', [Next]_vars
      PROVE  At("clearing") \/ Stored \subseteq Stored'
  <2>1. CASE ReplaceMain \/ PutIndex
    BY <1>1, <2>1, ReplacedIsNamed, PutIsNamed, NamedStays
  <2>2. CASE ~ReplaceMain /\ ~PutIndex /\ ~At("clearing")
    <3>1. UNCHANGED index
      BY <1>1, <2>2, OtherSteps
    <3>2. StillNamed
      BY <3>1 DEF StillNamed, EpochOf
    <3> QED BY <1>1, <3>2, NamedStays
  <2> QED BY <2>1, <2>2
<1>2. MailIInv /\ ListedAre /\ ListedAre' /\ [Next]_vars => [At("clearing") \/ Stored \subseteq Stored']_vars
  BY <1>1
<1>3. Spec => [](MailIInv /\ ListedAre)
  BY Inductive, ListedMail, PTL
<1> QED BY <1>2, <1>3, PTL DEF Spec, StoredMailStays

(***************************************************************************)
(* What the threads are rebuilt from.                                      *)
(***************************************************************************)

\* The mail of unit n that the store names under u is on the gather's disk.
Back(n, u) == \E k \in Unit : disk[me][k][u] = EpochOf(n)

\* The units that a gather restores: all but the archive of its cache's epoch.
Wanted == {n \in Unit : n = Main \/ n # gather.cached}

\* The stages from the end of the restoring to the rebuilding.
Hydrated == {"syncing", "moving", "searching", "downloading", "threads"}

\* What a gather has restored so far, if all its fetches have gone well.
HydrateHolds ==
  /\ At("restoring") /\ ~gather.failed =>
       \A n \in Wanted : \A u \in index[n].uids :
          \/ n \in gather.units
          \/ n = gather.unit /\ ChunkOf(u) \in gather.todo
          \/ Back(n, u)
  /\ gather.pc \in Hydrated => \A n \in Wanted : \A u \in index[n].uids : Back(n, u)

\* No step of a gather takes mail off its disk, wherever it moves it.
DiskKeeps == \A u \in Uid, e \in Epoch : (\E k \in Unit : disk[me][k][u] = e)
                                          => \E k \in Unit : disk'[me][k][u] = e

LEMMA ListedIs ==
  ASSUME MailIInv, NEW n \in Unit, NEW u \in index[n].uids
  PROVE  u \in Uid /\ EpochOf(n) \in Epoch
<1>1. u \in Uid /\ chunks[n][u] # None /\ chunks[n][u] \in Epoch \cup {None}
  BY DEF MailIInv, TypeOK, Index, StoreHolds, IndexedIsThere, Has, Mail
<1> QED BY <1>1, ListedMail DEF ListedAre

LEMMA BackStays ==
  ASSUME MailIInv, DiskKeeps, index' = index, gather'.host = gather.host,
         NEW n \in Unit, NEW u \in index[n].uids, Back(n, u)
  PROVE  Back(n, u)'
<1>1. EpochOf(n)' = EpochOf(n) /\ me' = me
  BY DEF EpochOf, me
<1> QED BY <1>1, ListedIs DEF Back, DiskKeeps

\* A step from one of these stages to another.
LEMMA KeepsStep ==
  ASSUME MailIInv, HydrateHolds, gather.pc \in Hydrated, DiskKeeps, index' = index,
         gather'.host = gather.host, gather'.cached = gather.cached, ~At("restoring")'
  PROVE  HydrateHolds'
<1>1. Wanted' = Wanted
  BY DEF Wanted
<1> QED BY <1>1, BackStays DEF HydrateHolds, Wanted

LEMMA SameDisk ==
  ASSUME disk' = disk
  PROVE  DiskKeeps
BY DEF DiskKeeps

LEMMA RetryIs ==
  ASSUME gather \in Run, Retry
  PROVE  gather'.pc \in {"syncing", "threads"} /\ gather'.host = gather.host /\ gather'.cached = gather.cached
BY DEF Retry, Run

LEMMA SyncKeeps ==
  ASSUME MailIInv, HydrateHolds, Syncing
  PROVE  HydrateHolds'
<1>0. gather \in Run
  BY DEF MailIInv, TypeOK
<1>1. CASE Adopt \/ Reconcile \/ Moved \/ SyncFails \/ \E from, to \in Uid : Search(from, to)
  <2>1. /\ gather.pc \in Hydrated /\ disk' = disk /\ index' = index
    BY <1>1 DEF Adopt, Reconcile, Moved, SyncFails, Search, At, Hydrated, store, local
  <2>2. gather'.host = gather.host /\ gather'.cached = gather.cached /\ ~At("restoring")'
    <3>1. CASE SyncFails
      BY <1>0, <3>1, RetryIs DEF SyncFails, At
    <3>2. CASE ~SyncFails
      BY <1>0, <1>1, <3>2 DEF Adopt, Reconcile, Moved, Search, At, Goto, Run
    <3> QED BY <3>1, <3>2
  <2> QED BY <2>1, <2>2, SameDisk, KeepsStep
<1>2. ASSUME NEW u \in Uid, Move(u)
      PROVE  HydrateHolds'
  <2>1. /\ gather.pc = "moving" /\ gather' = gather /\ index' = index /\ me \in Host
        /\ marker[me] \in Unit /\ Main \in Unit /\ marker[me] # Main
        /\ disk[me][Main][u] = marker[me] /\ disk[me][marker[me]] \in Mail
    BY <1>2, ConstantsAssumption DEF Move, At, MailIInv, TypeOK, Run, me, PureHosts, StageHolds, Synced, Differ,
       Has, None, Main, Unit, Epoch, store
  <2>2. /\ disk' = [disk EXCEPT ![me][Main][u] = None, ![me][marker[me]][u] = disk[me][Main][u]]
        /\ disk \in [Host -> [Unit -> Mail]]
    BY <1>2 DEF Move, MailIInv, TypeOK
  <2>3. /\ disk'[me][marker[me]][u] = marker[me]
        /\ \A k \in Unit, w \in Uid : w # u => disk'[me][k][w] = disk[me][k][w]
        /\ \A k \in Unit \ {Main, marker[me]} : disk'[me][k] = disk[me][k]
    <3>1. disk'[me] = [disk[me] EXCEPT ![Main] = [@ EXCEPT ![u] = None],
                                       ![marker[me]] = [@ EXCEPT ![u] = disk[me][Main][u]]]
      BY <2>1, <2>2
    <3> QED BY <2>1, <2>2, <3>1 DEF Mail
  <2>4. \A k \in Unit : disk[me][k][u] \in Epoch => disk[me][k][u] = IF k = Main THEN marker[me] ELSE k
    BY <2>1, ConstantsAssumption DEF MailIInv, PureHosts, Unit, Epoch, None, Main
  <2>5. DiskKeeps
    <3> SUFFICES ASSUME NEW w \in Uid, NEW e \in Epoch, NEW k \in Unit, disk[me][k][w] = e
                 PROVE  \E j \in Unit : disk'[me][j][w] = e
      BY DEF DiskKeeps
    <3>1. CASE w # u
      BY <2>3, <3>1
    <3>2. CASE w = u /\ k \in {Main, marker[me]}
      BY <2>1, <2>3, <2>4, <3>2
    <3>3. CASE w = u /\ k \notin {Main, marker[me]}
      BY <2>3, <3>3
    <3> QED BY <3>1, <3>2, <3>3
  <2> QED BY <2>1, <2>5, KeepsStep DEF Hydrated, At
<1>3. ASSUME NEW got \in SUBSET Uid, Download(got)
      PROVE  HydrateHolds'
  <2>1. /\ gather.pc = "downloading" /\ index' = index /\ me \in Host /\ marker[me] = epoch /\ Main \in Unit
        /\ disk' = [disk EXCEPT ![me][Main] = [u \in Uid |-> IF u \in got THEN epoch ELSE @[u]]]
        /\ disk \in [Host -> [Unit -> Mail]]
    BY <1>3 DEF Download, At, MailIInv, TypeOK, Run, me, StageHolds, Synced, store, Unit
  <2>2. gather'.host = gather.host /\ gather'.cached = gather.cached /\ ~At("restoring")'
    <3>1. CASE Retry
      BY <1>0, <3>1, RetryIs DEF At
    <3>2. CASE ~Retry
      BY <1>0, <1>3, <3>2 DEF Download, At, Run
    <3> QED BY <3>1, <3>2
  <2>3. /\ \A u \in Uid : disk'[me][Main][u] \in {disk[me][Main][u], epoch}
        /\ \A k \in Unit \ {Main} : disk'[me][k] = disk[me][k]
    BY <2>1
  <2>4. \A u \in Uid : disk[me][Main][u] \in {None, epoch}
    BY <2>1 DEF MailIInv, PureHosts
  <2>5. DiskKeeps
    <3> SUFFICES ASSUME NEW w \in Uid, NEW e \in Epoch, NEW k \in Unit, disk[me][k][w] = e
                 PROVE  \E j \in Unit : disk'[me][j][w] = e
      BY DEF DiskKeeps
    <3>1. e # None
      BY ConstantsAssumption DEF Epoch, None
    <3> QED BY <2>3, <2>4, <3>1
  <2> QED BY <2>1, <2>2, <2>5, KeepsStep DEF Hydrated
<1> QED BY <1>1, <1>2, <1>3 DEF Syncing

LEMMA LoadMainRestores ==
  ASSUME MailIInv, LoadMain
  PROVE  HydrateHolds'
<1>1. /\ gather \in Run /\ me \in Host /\ index' = index /\ disk' = disk
      /\ gather' = [gather EXCEPT !.pc = "restoring", !.cached = marker[me], !.unit = Main,
           !.into = IF Differ(marker[me], index[Main].epoch) THEN index[Main].epoch ELSE Main,
           !.stored = index[Main], !.todo = ChunksOf(index[Main].uids),
           !.units = {n \in Epoch \ {marker[me]} : index[n].uids # {}}]
  BY DEF LoadMain, MailIInv, TypeOK, Run, me, store
<1>2. /\ gather'.pc = "restoring" /\ gather'.cached = marker[me] /\ gather'.unit = Main
      /\ gather'.todo = ChunksOf(index[Main].uids)
      /\ gather'.units = {n \in Epoch \ {marker[me]} : index[n].uids # {}}
  BY <1>1 DEF Run
<1>3. ASSUME NEW n \in Wanted', NEW u \in index'[n].uids
      PROVE  n \in gather'.units \/ (n = gather'.unit /\ ChunkOf(u) \in gather'.todo)
  <2>1. CASE n = Main
    BY <1>1, <1>2, <2>1 DEF ChunksOf
  <2>2. CASE n # Main
    BY <1>1, <1>2, <2>2 DEF Wanted, Unit
  <2> QED BY <2>1, <2>2
<1> QED BY <1>2, <1>3 DEF HydrateHolds, At, Hydrated

LEMMA LoadArchiveRestores ==
  ASSUME MailIInv, HydrateHolds, LoadArchive
  PROVE  HydrateHolds'
<1>0. /\ gather \in Run /\ gather.pc = "restoring" /\ gather.todo = {} /\ index' = index /\ disk' = disk
  BY DEF LoadArchive, MailIInv, TypeOK, At, store, local
<1> DEFINE n == Least(gather.units)
<1>1. CASE gather' = [gather EXCEPT !.unit = n, !.into = n, !.stored = index[n],
                                    !.todo = ChunksOf(index[n].uids), !.units = @ \ {n}]
  <2>1. /\ gather'.pc = "restoring" /\ gather'.cached = gather.cached /\ gather'.unit = n
        /\ gather'.todo = ChunksOf(index[n].uids) /\ gather'.units = gather.units \ {n}
        /\ gather'.failed = gather.failed /\ gather'.host = gather.host
    BY <1>0, <1>1 DEF Run
  <2> HIDE DEF n
  <2>2. Wanted' = Wanted /\ Wanted \subseteq Unit
    BY <2>1 DEF Wanted
  <2>3. ASSUME NEW k \in Wanted, NEW u \in index[k].uids, ~gather.failed
        PROVE  \/ k \in gather'.units
               \/ k = gather'.unit /\ ChunkOf(u) \in gather'.todo
               \/ Back(k, u)'
    <3>1. k \in gather.units \/ Back(k, u)
      BY <1>0, <2>3 DEF HydrateHolds, At
    <3>2. CASE k = n
      BY <2>1, <3>2 DEF ChunksOf
    <3>3. CASE k # n /\ k \in gather.units
      BY <2>1, <3>3
    <3>4. CASE Back(k, u)
      <4>1. Back(k, u)'
        BY <1>0, <2>1, <2>2, <3>4, SameDisk, BackStays
      <4> QED BY <4>1
    <3> QED BY <3>1, <3>2, <3>3, <3>4
  <2> QED BY <1>0, <2>1, <2>2, <2>3 DEF HydrateHolds, At, Hydrated
<1>2. CASE gather' = [gather EXCEPT !.units = @ \ {n}, !.failed = TRUE]
  <2>1. gather'.pc = "restoring" /\ gather'.failed
    BY <1>0, <1>2 DEF Run
  <2> QED BY <2>1 DEF HydrateHolds, At, Hydrated
<1> QED BY <1>1, <1>2 DEF LoadArchive

\* A chunk that was fetched well leaves none of its mail behind.
LEMMA RestoreChunkRestores ==
  ASSUME MailIInv, MailIInv', HydrateHolds, RestoreChunk, At("restoring")
  PROVE  HydrateHolds'
<1> USE DEF None, Main
<1>0. /\ gather \in Run /\ me \in Host /\ gather.pc = "restoring" /\ gather.todo # {}
      /\ gather.into \in Unit /\ gather.unit \in Unit /\ gather.todo \subseteq Chunk
      /\ gather.stored = index[gather.unit] /\ index' = index /\ marker' = marker
      /\ disk \in [Host -> [Unit -> Mail]]
  BY DEF MailIInv, TypeOK, Run, me, RestoreChunk, StageHolds, Restoring, At, store
<1>1. PICK c \in gather.todo : c = Least(gather.todo)
  BY <1>0, LeastIn, Naturals
<1> DEFINE dir == disk[me][gather.into]
           held == gather.stored.uids \cap Within(c) \subseteq Has(dir)
           new == [u \in Uid |-> IF ~held /\ u \in Within(c) \ Has(dir)
                                 THEN chunks[gather.unit][u] ELSE dir[u]]
<1>2. \/ disk' = [disk EXCEPT ![me][gather.into] = new] /\ gather' = [gather EXCEPT !.todo = @ \ {c}]
      \/ disk' = disk /\ gather' = [gather EXCEPT !.todo = @ \ {c}, !.failed = TRUE]
  BY <1>1, Zenon DEF RestoreChunk
<1>3. CASE gather' = [gather EXCEPT !.todo = @ \ {c}, !.failed = TRUE]
  <2>1. gather'.pc = "restoring" /\ gather'.failed
    BY <1>0, <1>3 DEF Run
  <2> QED BY <2>1 DEF HydrateHolds, At, Hydrated
<1>4. CASE disk' = [disk EXCEPT ![me][gather.into] = new] /\ gather' = [gather EXCEPT !.todo = @ \ {c}]
  <2>1. /\ gather'.pc = "restoring" /\ gather'.cached = gather.cached /\ gather'.unit = gather.unit
        /\ gather'.todo = gather.todo \ {c} /\ gather'.units = gather.units /\ gather'.into = gather.into
        /\ gather'.failed = gather.failed /\ gather'.host = gather.host
    BY <1>0, <1>4 DEF Run
  <2>2. \A u \in Uid : dir[u] # None => new[u] = dir[u]
    BY <1>0 DEF Mail, Has
  <2>3. \A u \in gather.stored.uids : ChunkOf(u) = c => new[u] # None
    <3> SUFFICES ASSUME NEW u \in gather.stored.uids, ChunkOf(u) = c
                 PROVE  new[u] # None
      OBVIOUS
    <3>1. u \in Uid /\ u \in Within(c) /\ chunks[gather.unit][u] # None
      BY <1>0 DEF MailIInv, StoreHolds, IndexedIsThere, TypeOK, Index, Within, Has
    <3> QED BY <1>0, <3>1 DEF Has, Mail
  <2> HIDE DEF held, new
  <2>4. disk'[me][gather.into] = new /\ \A k \in Unit : k # gather.into => disk'[me][k] = disk[me][k]
    BY <1>0, <1>4
  <2>5. DiskKeeps
    <3> SUFFICES ASSUME NEW w \in Uid, NEW e \in Epoch, NEW k \in Unit, disk[me][k][w] = e
                 PROVE  disk'[me][k][w] = e
      BY DEF DiskKeeps
    <3>1. e # None
      BY ConstantsAssumption DEF Epoch
    <3> QED BY <2>2, <2>4, <3>1
  <2>6. Wanted' = Wanted /\ Wanted \subseteq Unit
    BY <2>1 DEF Wanted
  <2>7. ASSUME NEW k \in Wanted, NEW u \in index[k].uids, ~gather.failed
        PROVE  \/ k \in gather'.units
               \/ k = gather'.unit /\ ChunkOf(u) \in gather'.todo
               \/ Back(k, u)'
    <3>1. k \in gather.units \/ (k = gather.unit /\ ChunkOf(u) \in gather.todo) \/ Back(k, u)
      BY <1>0, <2>7 DEF HydrateHolds, At
    <3>2. CASE k \in gather.units \/ (k = gather.unit /\ ChunkOf(u) \in gather.todo \ {c})
      BY <2>1, <3>2
    <3>3. CASE k = gather.unit /\ ChunkOf(u) = c
      <4>1. u \in Uid /\ disk'[me][gather.into][u] # None
        BY <1>0, <2>3, <2>4, <2>6, <3>3, ListedIs
      <4>2. me' = me /\ EpochOf(k)' = EpochOf(k)
        BY <1>0, <2>1 DEF me, EpochOf
      <4>3. disk'[me][gather.into][u] = EpochOf(k)
        <5>1. \A n \in Epoch : disk'[me][n][u] \in {None, n}
          BY <1>0, <4>1 DEF MailIInv, PureHosts
        <5>2. disk'[me][Main][u] \in {None, marker[me]}
          BY <1>0, <4>1 DEF MailIInv, PureHosts
        <5>3. IF gather.unit # Main THEN gather.into = gather.unit
              ELSE \/ gather.into # Main /\ gather.into = index[Main].epoch
                   \/ gather.into = Main /\ (index[Main].uids = {} \/ marker[me] = index[Main].epoch)
          BY <1>0 DEF MailIInv, StageHolds, Restoring, At
        <5>4. CASE gather.into # Main
          <6>1. gather.into \in Epoch /\ EpochOf(k) = gather.into
            BY <1>0, <3>3, <5>3, <5>4 DEF Unit, EpochOf
          <6> QED BY <4>1, <5>1, <6>1
        <5>5. CASE gather.into = Main
          <6>1. k = Main /\ marker[me] = index[Main].epoch
            BY <1>0, <3>3, <5>3, <5>5, <2>7
          <6> QED BY <4>1, <5>2, <5>5, <6>1 DEF EpochOf
        <5> QED BY <5>4, <5>5
      <4>4. Back(k, u)'
        BY <1>0, <4>2, <4>3 DEF Back
      <4> QED BY <4>4
    <3>4. CASE Back(k, u)
      <4>1. Back(k, u)'
        BY <1>0, <2>1, <2>5, <2>6, <3>4, BackStays
      <4> QED BY <4>1
    <3> QED BY <3>1, <3>2, <3>3, <3>4
  <2> QED BY <1>0, <2>1, <2>6, <2>7 DEF HydrateHolds, At, Hydrated
<1> QED BY <1>2, <1>3, <1>4

LEMMA HydratingRestores ==
  ASSUME MailIInv, MailIInv', HydrateHolds, Hydrating
  PROVE  HydrateHolds'
<1>0. gather \in Run
  BY DEF MailIInv, TypeOK
<1>1. CASE RestoreChunk /\ ~At("restoring")
  <2>1. gather'.pc = "archiving"
    <3>1. gather.pc = "archiving"
      BY <1>1 DEF RestoreChunk, At
    <3>2. gather'.pc = gather.pc
      BY <1>0, <1>1 DEF RestoreChunk, Run
    <3> QED BY <3>1, <3>2
  <2> QED BY <2>1 DEF HydrateHolds, At, Hydrated
<1>2. CASE HydrateFails
  <2>1. gather'.pc = "idle"
    BY <1>2 DEF HydrateFails, Ended, NewRun
  <2> QED BY <2>1 DEF HydrateHolds, At, Hydrated
<1>3. CASE HydrateEnds
  <2>1. /\ gather'.pc = "syncing" /\ gather'.cached = gather.cached /\ gather'.host = gather.host
        /\ gather.todo = {} /\ gather.units = {} /\ ~gather.failed /\ gather.pc = "restoring"
        /\ index' = index /\ disk' = disk
    BY <1>0, <1>3 DEF HydrateEnds, Goto, Run, At, store, local
  <2>2. \A n \in Wanted : \A u \in index[n].uids : Back(n, u)
    BY <2>1 DEF HydrateHolds, At
  <2>3. Wanted' = Wanted /\ Wanted \subseteq Unit
    BY <2>1 DEF Wanted
  <2>4. \A n \in Wanted : \A u \in index[n].uids : Back(n, u)'
    BY <2>1, <2>2, <2>3, SameDisk, BackStays
  <2> QED BY <2>1, <2>3, <2>4 DEF HydrateHolds, At
<1> QED BY <1>1, <1>2, <1>3, LoadMainRestores, LoadArchiveRestores, RestoreChunkRestores DEF Hydrating

LEMMA ElsewhereHolds ==
  ASSUME ~At("restoring")', gather'.pc \notin Hydrated
  PROVE  HydrateHolds'
BY DEF HydrateHolds, At

LEMMA HydrateStep == MailIInv /\ MailIInv' /\ HydrateHolds /\ [Next]_vars => HydrateHolds'
<1> SUFFICES ASSUME MailIInv, MailIInv', HydrateHolds, [Next]_vars
             PROVE  HydrateHolds'
  OBVIOUS
<1>0. gather \in Run
  BY DEF MailIInv, TypeOK
<1>1. CASE UNCHANGED <<index, disk, gather>>
  BY <1>1 DEF HydrateHolds, At, Wanted, Back, EpochOf, me
<1>2. CASE \E h \in Host : (\E clear \in BOOLEAN : Begin(h, clear)) \/ Wipe(h)
  <2>1. ASSUME NEW h \in Host, NEW clear \in BOOLEAN, Begin(h, clear)
        PROVE  gather'.pc \in {"clearing", "hydrating"}
    <3>1. gather' = [NewRun(h) EXCEPT !.pc = IF clear THEN "clearing" ELSE "hydrating",
                                      !.units = IF clear THEN Unit ELSE {}]
      BY <2>1 DEF Begin
    <3> QED BY <3>1 DEF NewRun
  <2>2. ASSUME NEW h \in Host, Wipe(h)
        PROVE  gather'.pc = "idle"
    BY <2>2 DEF Wipe, At
  <2>3. gather'.pc \in {"clearing", "hydrating", "idle"}
    BY <1>2, <2>1, <2>2
  <2> QED BY <2>3, ElsewhereHolds DEF At, Hydrated
<1>3. CASE ClearIndex \/ ClearChunks \/ ClearLocal
  <2>1. gather'.pc \in {"clearing", "hydrating"}
    BY <1>0, <1>3 DEF ClearIndex, ClearChunks, ClearLocal, At, Goto, Run
  <2> QED BY <2>1, ElsewhereHolds DEF At, Hydrated
<1>4. CASE Persisting
  <2>1. ASSUME NEW n, NEW base, Upload(n, base)
        PROVE  gather'.pc = "uploading"
    BY <1>0, <2>1 DEF Upload, Run
  <2>2. ASSUME Ended
        PROVE  gather'.pc = "idle"
    BY <2>2 DEF Ended, NewRun
  <2>3. CASE Unconfirmed \/ Persisted
    BY <2>2, <2>3, ElsewhereHolds DEF Unconfirmed, Persisted, At, Hydrated
  <2>4. CASE Persist
    <3>1. gather'.pc = "archiving"
      BY <1>0, <2>4 DEF Persist, Run
    <3> QED BY <3>1, ElsewhereHolds DEF At, Hydrated
  <2>5. CASE ListArchives
    <3>1. gather'.pc \in {"idle", "listing"}
      BY <1>0, <2>2, <2>5 DEF ListArchives, Run
    <3> QED BY <3>1, ElsewhereHolds DEF At, Hydrated
  <2>6. CASE UploadArchive \/ UploadMain \/ ReplaceMain
    <3>1. Ended \/ \E n, base : Upload(n, base)
      BY <2>6, Zenon DEF UploadArchive, UploadMain, ReplaceMain
    <3> QED BY <2>1, <2>2, <3>1, ElsewhereHolds DEF At, Hydrated
  <2>7. CASE PutChunk \/ DeleteChunk
    <3>1. gather.pc \in {"uploading", "deleting"}
      BY <2>7 DEF PutChunk, DeleteChunk, At
    <3>2. gather'.pc = gather.pc
      <4>1. CASE PutChunk
        BY <1>0, <4>1 DEF PutChunk, Run
      <4>2. CASE DeleteChunk
        BY <1>0, <4>2 DEF DeleteChunk, Run
      <4> QED BY <2>7, <4>1, <4>2
    <3> QED BY <3>1, <3>2, ElsewhereHolds DEF At, Hydrated
  <2>8. CASE PutIndex
    <3>1. gather'.pc \in {"deleting", "listing"}
      BY <1>0, <2>8 DEF PutIndex, Run
    <3> QED BY <3>1, ElsewhereHolds DEF At, Hydrated
  <2> QED BY <1>4, <2>3, <2>4, <2>5, <2>6, <2>7, <2>8 DEF Persisting
<1>5. CASE Renumber
  BY <1>1, <1>5 DEF Renumber, local, store
<1>6. CASE Stop
  <2>1. gather'.pc = "idle"
    BY <1>6 DEF Stop, Ended, NewRun
  <2> QED BY <2>1, ElsewhereHolds DEF At, Hydrated
<1>7. CASE UNCHANGED vars
  BY <1>1, <1>7 DEF vars, local, store
<1> QED BY <1>2, <1>3, <1>4, <1>5, <1>6, <1>7, HydratingRestores, SyncKeeps DEF Next

\* When the threads are rebuilt, all stored mail is on the gather's disk, but for the
\* archive of the epoch its cache was already in.
THEOREM ThreadsHaveTheMail == Spec => []ThreadsNearlyWhole
<1>1. Init => HydrateHolds
  BY DEF Init, HydrateHolds, NewRun, At, Hydrated
<1>2. MailIInv /\ HydrateHolds => ThreadsNearlyWhole
  <2> SUFFICES ASSUME MailIInv, HydrateHolds, At("threads"), NEW m \in Stored, m \notin OnDisk(me)
               PROVE  m[1] = gather.cached /\ m \notin Listed(Main)
    BY DEF ThreadsNearlyWhole
  <2>1. ASSUME NEW n \in Wanted, m \in Listed(n)
        PROVE  FALSE
    <3>1. PICK u \in index[n].uids : m = <<chunks[n][u], u>>
      BY <2>1 DEF Listed
    <3>2. n \in Unit /\ u \in Uid /\ chunks[n][u] = EpochOf(n) /\ EpochOf(n) \in Epoch
      BY ListedIs, ListedMail DEF ListedAre, Wanted
    <3>3. PICK k \in Unit : disk[me][k][u] = EpochOf(n)
      BY DEF HydrateHolds, At, Hydrated, Back
    <3>4. u \in Has(disk[me][k])
      BY <3>2, <3>3, ConstantsAssumption DEF Has, Epoch, None
    <3>5. m \in {<<disk[me][k][w], w>> : w \in Has(disk[me][k])}
      BY <3>1, <3>2, <3>3, <3>4
    <3>6. m \in OnDisk(me)
      BY <3>5 DEF OnDisk
    <3> QED BY <3>6
  <2>2. m \notin Listed(Main)
    <3>1. Main \in Wanted
      BY DEF Wanted, Unit
    <3> QED BY <2>1, <3>1
  <2>3. PICK n \in Unit : m \in Listed(n)
    BY DEF Stored
  <2>4. n # Main /\ n = gather.cached
    BY <2>1, <2>2, <2>3 DEF Wanted
  <2>5. PICK u \in index[n].uids : m = <<chunks[n][u], u>>
    BY <2>3 DEF Listed
  <2>6. chunks[n][u] = n
    BY <2>3, <2>4, ListedMail DEF ListedAre, EpochOf
  <2> QED BY <2>2, <2>4, <2>5, <2>6
<1>3. Spec => []HydrateHolds
  <2>1. Spec => []MailIInv
    BY Inductive
  <2> QED BY <1>1, <2>1, HydrateStep, PTL DEF Spec
<1> QED BY <1>2, <1>3, Inductive, PTL

==============================================================================
