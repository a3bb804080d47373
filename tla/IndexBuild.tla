----------------------------- MODULE IndexBuild -----------------------------
(***************************************************************************)
(* The embedding index of one corpus on one host: the incremental build    *)
(* into a scratch database, its promotion over the live one, the upgrade   *)
(* of an old schema by a build or by a reader, and the topic map derived   *)
(* from the promoted index.                                                *)
(*                                                                         *)
(* Sources: ietf_llm/embeddings/search.py (build_index), storage.py (the   *)
(* scratch database, the migration), topics.py, and the last stages of     *)
(* gather/sequencer.py.  Gathers of one corpus exclude each other          *)
(* (GatherRunner), so there is one builder; readers come at any time.      *)
(*                                                                         *)
(* A file's content is the set of texts it is cut into.  A row is one of   *)
(* them with its vector: what was embedded (the whole text, or its first   *)
(* window), by which backend, and the hash it can be reused by.            *)
(***************************************************************************)
EXTENDS Integers, FiniteSets

CONSTANTS
  File,       \* paths of the gather cache
  Text,       \* texts a file is cut into
  Long,       \* the texts that chunker 1 splits into windows and chunker 2 does not
  Model,      \* ids of embedding models
  Width,      \* the dimensions a model's vectors may have
  MinDocs,    \* _MIN_DOCS: files a topic map needs
  MaxChanges, \* bound: changes to the files and to the configuration
  None,       \* "not recorded"
  Faults      \* a subset of FaultKinds

FaultKinds == {"embed", "short", "twin", "limit", "cancel", "crash", "probe", "topics", "model"}

ASSUME ConstantsAssumption ==
  /\ Long \subseteq Text
  /\ None \notin Model \cup Width
  /\ MinDocs \in Nat \ {0} /\ MaxChanges \in Nat
  /\ Faults \subseteq FaultKinds

Chunker == 1..2
NoChunker == 0
NoId == 0
\* Schemas: before chunk_hash, one a reader may add to (9 or 10), and the current one.
Schema  == {8, 9, 11}
Current == 11
AutoUpgradeFrom == 9
HashesFrom      == 9

\* `twin`: two chunks of the file have the same key, which the table refuses.
Content == [texts : SUBSET Text, twin : BOOLEAN]
Gone    == [texts |-> {}, twin |-> TRUE]     \* not there, or not eligible
NoStamp == Gone
Backend == [model : Model, width : Width]
Form    == {"whole", "window"}
Row     == [text : Text, form : Form, hash : Form \cup {"none"}, by : Backend]

VARIABLES
  disk,     \* the contents of the gather cache
  env,      \* the backend that embeds, and the code's chunker
  live,     \* embeddings.db
  scratch,  \* embeddings.db.building
  topics,   \* topics.json: is it there, the build it names, and (history) is it still
            \*   what the live index would give?
  pc,       \* the gather: no build, in build_index with the lock, or at the topic map
  build,    \* the build's local variables
  changes,  \* changes so far, up to MaxChanges
  settled,  \* history: the last build embedded all it planned, and nothing changed since
  mapped,   \* history: the last gather came past the topic map without an error
  cut       \* history: files whose live rows are the rest of a refused write

db   == <<live, scratch>>
past == <<settled, mapped, cut>>
vars == <<disk, env, db, topics, pc, build, changes, past>>

Index == [rows : [File -> SUBSET Row], stamp : [File -> Content], model : Model \cup {None},
          width : Width \cup {None}, chunker : Chunker \cup {NoChunker}, schema : Schema, id : 0..3]
Empty == [rows |-> [f \in File |-> {}], stamp |-> [f \in File |-> NoStamp], model |-> None,
          width |-> None, chunker |-> NoChunker, schema |-> Current, id |-> NoId]

\* todo: the files planned and not yet written; whole (history): nothing failed.
NoBuild == [todo |-> {}, changed |-> FALSE, limited |-> FALSE, rebuilt |-> FALSE,
            whole |-> TRUE, cut |-> {}]

\* What a topic map is made of.
Vectors(index) ==
  [f \in File |-> {[text |-> r.text, form |-> r.form, by |-> r.by] : r \in index.rows[f]}]
NoTopics == [there |-> FALSE, id |-> NoId, apt |-> FALSE]

FormOf(chunker, t) == IF chunker = 1 /\ t \in Long THEN "window" ELSE "whole"
Indexed(index) == {f \in File : index.rows[f] # {}}

\* An index that an older release left, complete, with no hashes before schema 9.
Legacy(schema, b, d) ==
  [rows |-> [f \in File |-> {[text |-> t, form |-> FormOf(1, t), by |-> b,
                              hash |-> IF schema < HashesFrom THEN "none" ELSE FormOf(1, t)]
                             : t \in d[f].texts}],
   stamp |-> d, model |-> b.model, width |-> b.width, chunker |-> 1, schema |-> schema,
   id |-> NoId]

Init ==
  /\ disk \in [File -> {Gone, [texts |-> Text, twin |-> FALSE]}]
  /\ env \in [backend : Backend, chunker : Chunker]
  /\ live \in {Empty} \cup {Legacy(s, env.backend, disk) : s \in Schema \ {Current}}
  /\ scratch = Empty
  /\ topics = IF live = Empty THEN NoTopics ELSE [there |-> TRUE, id |-> NoId, apt |-> TRUE]
  /\ pc = "idle" /\ build = NoBuild
  /\ changes = 0
  /\ settled = FALSE /\ mapped = FALSE /\ cut = {}

-----------------------------------------------------------------------------
(* Between builds.                                                         *)

\* A gather fetches a file anew, or drops it.
Change(f, c) ==
  /\ pc = "idle" /\ changes < MaxChanges /\ c # disk[f]
  /\ c.twin => c = Gone \/ ("twin" \in Faults /\ c.texts # {})
  /\ disk' = [disk EXCEPT ![f] = c]
  /\ changes' = changes + 1
  /\ settled' = FALSE
  /\ UNCHANGED <<env, db, topics, pc, build, mapped, cut>>

\* Another model is configured, the backend behind an unchanged id changes its
\* dimension, or a release brings another chunker.
Reconfigure(e) ==
  /\ pc = "idle" /\ changes < MaxChanges
  /\ e # env /\ e.chunker >= env.chunker
  /\ env' = e
  /\ changes' = changes + 1
  /\ settled' = FALSE
  /\ UNCHANGED <<disk, db, topics, pc, build, mapped, cut>>

-----------------------------------------------------------------------------
(* The schema (_open_db, _migrate).                                        *)

\* _backfill_chunk_hash: the text of a split section is not what was embedded.
Backfill(rows) ==
  [f \in File |-> {[r EXCEPT !.hash = IF @ = "none" /\ r.form = "whole" THEN "whole" ELSE @]
                   : r \in rows[f]}]

Migrated(index) ==
  [index EXCEPT !.schema = Current,
                !.rows = IF index.schema < HashesFrom THEN Backfill(@) ELSE @]

\* try_upgrade_schema: a query finds an older index and upgrades it in place,
\* under the lock that a build holds, when that only adds columns.
ReaderUpgrade ==
  /\ pc # "embedding"
  /\ live.schema \in AutoUpgradeFrom..(Current - 1)
  /\ live' = Migrated(live)
  /\ UNCHANGED <<disk, env, scratch, topics, pc, build, changes, past>>

-----------------------------------------------------------------------------
(* build_index.                                                            *)

\* Mutant of Dropped: another chunker empties the table as another model does.
DroppedAll(index, rebuild, rechunk) == IF rebuild \/ rechunk THEN Empty ELSE index

\* A rebuild clears rows and meta; another chunker only the stamps.
Dropped(index, rebuild, rechunk) ==
  IF rebuild THEN Empty
  ELSE IF rechunk THEN [index EXCEPT !.stamp = [f \in File |-> NoStamp]]
  ELSE index

\* Mutant of WidthChanged: the dimension is only recorded.
WidthNotCompared(index, probed) == FALSE

\* The dimension a probe finds is compared with the one recorded.
WidthChanged(index, probed) ==
  probed /\ index.model # None /\ index.width \notin {None, env.backend.width}

\* Mutant of UpToDate: the stamp alone decides.
StampMatches(index, f) == index.stamp[f] = disk[f]

\* _plan_file skips a file that has rows and the stamp of its content.
UpToDate(index, f) == index.rows[f] # {} /\ index.stamp[f] = disk[f]

\* Mutant of MarksChanged: rows that were pruned do not count.
MarksChangedButPrune(rebuild, rechunk, orphans) == rebuild \/ rechunk

MarksChanged(rebuild, rechunk, orphans) == rebuild \/ rechunk \/ orphans # {}

\* The prelude: the lock, a scratch copy of the live index, the checks of model,
\* chunker and dimension, the pruning of files that are gone, and the plan.  A
\* file with no chunks is not planned.
Begin(rebuildAsked, probed) ==
  LET base    == Migrated(live)
      rebuild == \/ rebuildAsked
                 \/ base.model \notin {None, env.backend.model}
                 \/ WidthChanged(base, probed)
      rechunk == base.model # None /\ base.chunker # env.chunker
      kept    == Dropped(base, rebuild, rechunk)
      orphans == {f \in Indexed(kept) : disk[f] = Gone}
      ready   == [kept EXCEPT !.rows = [f \in File |-> IF f \in orphans THEN {} ELSE @[f]],
                              !.model = env.backend.model, !.chunker = env.chunker,
                              !.schema = Current,
                              !.width = IF probed THEN env.backend.width ELSE @]
  IN
  /\ pc = "idle"
  /\ probed \/ "probe" \in Faults
  /\ scratch' = ready
  /\ build' = [NoBuild EXCEPT
                 !.todo = {f \in File : disk[f].texts # {} /\ ~UpToDate(ready, f)},
                 !.changed = MarksChanged(rebuild, rechunk, orphans),
                 !.rebuilt = rebuild,
                 !.cut = IF rebuild THEN {} ELSE cut \ orphans]
  /\ pc' = "embedding"
  /\ mapped' = FALSE
  /\ UNCHANGED <<disk, env, live, topics, changes, settled, cut>>

\* No model can be loaded: build_index reports no change, and the gather goes on.
NoModel ==
  /\ pc = "idle" /\ "model" \in Faults
  /\ pc' = "topics" /\ build' = NoBuild
  /\ mapped' = FALSE
  /\ UNCHANGED <<disk, env, db, topics, changes, settled, cut>>

\* The rows of f as its content wants them: a stored vector is kept when the
\* text that was embedded is the same.
Wanted(f) ==
  {[text |-> t, form |-> FormOf(env.chunker, t), hash |-> FormOf(env.chunker, t),
    by |-> LET same == {r \in scratch.rows[f] : r.text = t /\ r.hash = FormOf(env.chunker, t)}
           IN IF same = {} THEN env.backend ELSE (CHOOSE r \in same : TRUE).by]
   : t \in disk[f].texts}

InBuild(f) == pc = "embedding" /\ f \in build.todo

\* _write_file: the rows are replaced and the file stamped.
Embed(f) ==
  /\ InBuild(f) /\ ~disk[f].twin
  /\ scratch' = [scratch EXCEPT !.rows[f] = Wanted(f), !.stamp[f] = disk[f]]
  /\ build' = [build EXCEPT !.todo = @ \ {f}, !.changed = TRUE, !.cut = @ \ {f}]
  /\ UNCHANGED <<disk, env, live, topics, pc, changes, past>>

\* The second chunk of one key is refused: the file is skipped, its old rows are
\* deleted, the new ones before that chunk stay, and so does the old stamp.
EmbedTwin(f, before) ==
  /\ InBuild(f) /\ disk[f].twin /\ before # {}
  /\ scratch' = [scratch EXCEPT !.rows[f] = before]
  /\ build' = [build EXCEPT !.todo = @ \ {f}, !.changed = TRUE, !.whole = FALSE,
                           !.cut = @ \cup {f}]
  /\ UNCHANGED <<disk, env, live, topics, pc, changes, past>>

\* The embedder fails for f, or answers with too few vectors, which counts as a
\* change although nothing is written.
EmbedFails(f, short) ==
  /\ InBuild(f)
  /\ IF short THEN "short" \in Faults ELSE "embed" \in Faults
  /\ build' = [build EXCEPT !.todo = @ \ {f}, !.changed = @ \/ short, !.whole = FALSE]
  /\ UNCHANGED <<disk, env, db, topics, pc, changes, past>>

\* The remote embedder refuses any more: only the requests under way may end.
Limit(running) ==
  /\ pc = "embedding" /\ build.todo # {} /\ ~build.limited /\ "limit" \in Faults
  /\ running \subseteq build.todo
  /\ build' = [build EXCEPT !.todo = running, !.limited = TRUE, !.whole = FALSE]
  /\ UNCHANGED <<disk, env, db, topics, pc, changes, past>>

\* META_BUILD_ID: a fresh one.
FreshId == CHOOSE i \in 1..3 : i \notin {live.id, topics.id}

\* The scratch database becomes the live one.  A build stopped by a rate limit
\* keeps what it did, and fails the gather.
Promote ==
  /\ pc = "embedding" /\ build.todo = {}
  /\ live' = IF build.changed THEN [scratch EXCEPT !.id = FreshId] ELSE scratch
  /\ scratch' = Empty
  /\ pc' = IF build.limited THEN "idle" ELSE "topics"
  /\ topics' = [topics EXCEPT !.apt = @ /\ Vectors(scratch) = Vectors(live)]
  /\ settled' = build.whole /\ cut' = build.cut
  /\ UNCHANGED <<disk, env, build, changes, mapped>>

\* The gather is cancelled, or fails, inside the build: the scratch is removed.
Cancel ==
  /\ pc = "embedding" /\ "cancel" \in Faults
  /\ scratch' = Empty
  /\ pc' = "idle" /\ build' = NoBuild
  /\ UNCHANGED <<disk, env, live, topics, changes, past>>

\* The process dies.  The scratch it leaves is removed by the next build before
\* anything else, and is not told apart from none.
Crash ==
  /\ pc # "idle" /\ "crash" \in Faults
  /\ scratch' = Empty
  /\ pc' = "idle" /\ build' = NoBuild
  /\ UNCHANGED <<disk, env, live, topics, changes, past>>

-----------------------------------------------------------------------------
(* The topic map (sequencer.py, topics.py).                                *)

\* has_topics, topics_stale: an index with no build id is not judged.
TopicsDue ==
  build.changed \/ ~topics.there \/ (live.id # NoId /\ topics.id # live.id)

TooFew == live.model = None \/ Cardinality(Indexed(live)) < MinDocs

EndGather ==
  /\ pc' = "idle" /\ build' = NoBuild
  /\ UNCHANGED <<disk, env, db, changes, settled, cut>>

MapTopics ==
  /\ pc = "topics" /\ TopicsDue /\ ~TooFew
  /\ topics' = [there |-> TRUE, id |-> live.id, apt |-> TRUE]
  /\ mapped' = TRUE
  /\ EndGather

\* Nothing to do, or too few files for a map: an old one stays.
SkipTopics ==
  /\ pc = "topics" /\ (~TopicsDue \/ TooFew)
  /\ mapped' = TRUE
  /\ UNCHANGED topics
  /\ EndGather

TopicsFail ==
  /\ pc = "topics" /\ TopicsDue /\ "topics" \in Faults
  /\ UNCHANGED <<topics, mapped>>
  /\ EndGather
-----------------------------------------------------------------------------

Next ==
  \/ \E f \in File, c \in Content : Change(f, c)
  \/ \E e \in [backend : Backend, chunker : Chunker] : Reconfigure(e)
  \/ \E rebuildAsked, probed \in BOOLEAN : Begin(rebuildAsked, probed)
  \/ \E f \in File : Embed(f) \/ (\E before \in SUBSET Wanted(f) : EmbedTwin(f, before))
  \/ \E f \in File, short \in BOOLEAN : EmbedFails(f, short)
  \/ \E running \in SUBSET File : Limit(running)
  \/ NoModel \/ Promote \/ Cancel \/ Crash
  \/ MapTopics \/ SkipTopics \/ TopicsFail
  \/ ReaderUpgrade

Spec == Init /\ [][Next]_vars

-----------------------------------------------------------------------------
(* Properties.                                                             *)

\* Every variable stays within the values its comment gives.
TypeOK ==
  /\ disk \in [File -> Content]
  /\ env \in [backend : Backend, chunker : Chunker]
  /\ live \in Index /\ scratch \in Index
  /\ topics \in [there : BOOLEAN, id : 0..3, apt : BOOLEAN]
  /\ pc \in {"idle", "embedding", "topics"}
  /\ build.todo \subseteq File /\ build.cut \subseteq File
  /\ changes \in 0..MaxChanges
  /\ cut \subseteq File

\* The rows of one index never mix models or dimensions ("mixing widths would
\* corrupt the packed matrix"): a model or a dimension that changed between two
\* builds is found before any vector is reused.
OneSpace ==
  \A f, g \in File : \A r \in live.rows[f], s \in live.rows[g] : r.by = s.by

\* The index, live or under way, is of its type and of one vector space.
IndexInv == TypeOK /\ OneSpace

\* A row is reused by the hash of the text that its vector is of ("two chunks with
\* the same embedded text yield the same vector"), across migrations, another
\* chunker and interrupted builds.
HashesTrue == \A f \in File : \A r \in live.rows[f] : r.hash \in {"none", r.form}

\* After a build in which nothing failed, every file with chunks has the rows of
\* its present content and files that are gone have none, whatever failed in
\* earlier builds.  Left out are the files whose rows a refused write cut short:
\* their old stamp stays, so that they count as done when the old content is back.
CurrentWhenSettled ==
  settled => \A f \in File \ cut :
    IF disk[f] = Gone THEN live.rows[f] = {}
    ELSE disk[f].texts # {} =>
           {<<r.text, r.form>> : r \in live.rows[f]}
             = {<<t, FormOf(env.chunker, t)>> : t \in disk[f].texts}

\* The rows are those of the present texts, and their hashes say so.
RowsTrue == HashesTrue /\ CurrentWhenSettled

\* _write_file, of a file whose write is refused: "its partial rows carry no hash
\* stamp, so it retries".
PartialRowsRetried ==
  settled => \A f \in File : disk[f].texts # {} /\ ~disk[f].twin =>
    {r.text : r \in live.rows[f]} = disk[f].texts

\* A build that is not a rebuild never empties a file that is still there: it
\* stays searchable, as it was, when the embedder fails.
StaysSearchable ==
  [][(pc = "embedding" /\ live' # live /\ ~build.rebuilt)
       => \A f \in Indexed(live) : disk[f] # Gone => live'.rows[f] # {}]_vars

\* A topic map that carries the id of the live index was made of its vectors.
TopicsOfTheirIndex ==
  topics.there /\ topics.id = live.id => topics.apt

\* Once a gather has come past the topic map without an error, the map is that of
\* the live index, unless the index is too small to have one ("Covers a crash
\* between promoting a build and writing the sidecar").
TopicsCaughtUp == mapped /\ pc = "idle" /\ ~TooFew => topics.apt

\* The topic map is never taken for another index's, and does not stay behind.
TopicsTrue == TopicsOfTheirIndex /\ TopicsCaughtUp
=============================================================================
