-------------------------- MODULE IndexBuildProofs --------------------------
(***************************************************************************)
(* Proofs about IndexBuild, for any files, texts, models and any number of *)
(* changes: whatever fails, is cancelled or dies in between, the rows of   *)
(* the promoted index are of the contents their stamps name, are reused by *)
(* honest hashes and, when every probe of the embedder succeeds, are of    *)
(* one vector space; a failing embedder empties no file; and the topic map *)
(* is taken for no other index's.                                          *)
(***************************************************************************)
EXTENDS IndexBuild, TLAPS

\* The texts of rows with what was embedded of each, and those that a content wants.
Pairs(rows)         == {<<r.text, r.form>> : r \in rows}
PairsOf(chunker, c) == {<<t, FormOf(chunker, t)>> : t \in c.texts}

BuildState == [todo : SUBSET File, changed : BOOLEAN, limited : BOOLEAN, rebuilt : BOOLEAN,
               whole : BOOLEAN, cut : SUBSET File]

Typed == TypeOK /\ build \in BuildState /\ settled \in BOOLEAN /\ mapped \in BOOLEAN

\* The stamp of a file with rows is of the content that its rows are of, but for the
\* files that are torn.
StampsTrue(index, torn) ==
  \A f \in File \ torn : index.rows[f] # {} /\ index.stamp[f] # NoStamp =>
    Pairs(index.rows[f]) = PairsOf(index.chunker, index.stamp[f])

Honest(index)  == \A f \in File : \A r \in index.rows[f] : r.hash \in {"none", r.form}
OfModel(index) == \A f \in File : \A r \in index.rows[f] : r.by.model = index.model

\* A file is done when its rows are of its present content.
Done(index, f) ==
  IF disk[f] = Gone THEN index.rows[f] = {}
  ELSE disk[f].texts # {} => Pairs(index.rows[f]) = PairsOf(env.chunker, disk[f])

LiveInv == OfModel(live) /\ Honest(live) /\ StampsTrue(live, cut)

\* What is so of the scratch database while a build goes on: files are planned, done,
\* or torn, and nothing that was not replaced is gone.
BuildInv ==
  pc = "embedding" =>
    /\ scratch.model = env.backend.model /\ scratch.chunker = env.chunker
    /\ OfModel(scratch) /\ Honest(scratch) /\ StampsTrue(scratch, build.cut)
    /\ \A f \in build.todo : disk[f].texts # {}
    /\ \A f \in File : disk[f] = Gone => scratch.rows[f] = {} /\ f \notin build.todo
    /\ build.whole => \A f \in File \ (build.todo \cup build.cut) : Done(scratch, f)
    /\ ~build.rebuilt => \A f \in Indexed(live) : disk[f] # Gone => scratch.rows[f] # {}
    /\ ~build.changed => Vectors(scratch) = Vectors(live) /\ scratch.id = live.id

\* An index that has no id yet has no other index's topic map, and a gather is counted
\* as past the map when it is.
TopicsInv ==
  /\ live.id = NoId => topics.id = NoId
  /\ pc # "idle" => ~mapped

IndexIInv == Typed /\ LiveInv /\ BuildInv /\ CurrentWhenSettled /\ TopicsInv /\ TopicsTrue

(***************************************************************************)
(* Rows, and the records they are in.                                      *)
(***************************************************************************)

LEMMA Fields ==
  /\ \A r \in Row : /\ r.text \in Text /\ r.form \in Form /\ r.hash \in Form \cup {"none"}
                    /\ r.by \in Backend /\ r.by.model \in Model /\ r.by.width \in Width
                    /\ r.by.model # None /\ r.by.width # None
  /\ \A i \in Index : /\ i.rows \in [File -> SUBSET Row] /\ i.stamp \in [File -> Content]
                      /\ i.model \in Model \cup {None} /\ i.width \in Width \cup {None}
                      /\ i.chunker \in Chunker \cup {NoChunker} /\ i.schema \in Schema /\ i.id \in 0..3
  /\ \A c \in Content : c.texts \in SUBSET Text /\ c.twin \in BOOLEAN
  /\ \A e \in [backend : Backend, chunker : Chunker] :
       /\ e.backend \in Backend /\ e.chunker \in Chunker
       /\ e.backend.model \in Model /\ e.backend.width \in Width
       /\ e.backend.model # None /\ e.backend.width # None
  /\ \A b \in BuildState : /\ b.todo \in SUBSET File /\ b.cut \in SUBSET File
                           /\ b.changed \in BOOLEAN /\ b.limited \in BOOLEAN
                           /\ b.rebuilt \in BOOLEAN /\ b.whole \in BOOLEAN
<1>1. \A b \in Backend : b.model \in Model /\ b.width \in Width /\ b.model # None /\ b.width # None
  BY ConstantsAssumption DEF Backend
<1>2. \A r \in Row : /\ r.text \in Text /\ r.form \in Form /\ r.hash \in Form \cup {"none"}
                     /\ r.by \in Backend
  BY DEF Row
<1>3. \A i \in Index : /\ i.rows \in [File -> SUBSET Row] /\ i.stamp \in [File -> Content]
                      /\ i.model \in Model \cup {None} /\ i.width \in Width \cup {None}
                      /\ i.chunker \in Chunker \cup {NoChunker} /\ i.schema \in Schema /\ i.id \in 0..3
  BY DEF Index
<1>4. \A c \in Content : c.texts \in SUBSET Text /\ c.twin \in BOOLEAN
  BY DEF Content
<1>5. \A b \in BuildState : /\ b.todo \in SUBSET File /\ b.cut \in SUBSET File
                            /\ b.changed \in BOOLEAN /\ b.limited \in BOOLEAN
                            /\ b.rebuilt \in BOOLEAN /\ b.whole \in BOOLEAN
  BY DEF BuildState
<1>6. \A e \in [backend : Backend, chunker : Chunker] : e.backend \in Backend /\ e.chunker \in Chunker
  OBVIOUS
<1> QED BY <1>1, <1>2, <1>3, <1>4, <1>5, <1>6

LEMMA EmptyFields ==
  /\ Empty \in Index /\ Empty.rows = [f \in File |-> {}] /\ Empty.stamp = [f \in File |-> NoStamp]
  /\ Empty.model = None /\ Empty.width = None /\ Empty.id = NoId
  /\ NoBuild \in BuildState /\ NoStamp \in Content /\ NoStamp.texts = {}
<1>1. NoStamp \in Content /\ NoStamp.texts = {}
  BY DEF NoStamp, Gone, Content
<1>2. Empty \in Index
  BY <1>1 DEF Empty, Index, Schema, Current, NoChunker, NoId
<1>3. NoBuild \in BuildState
  BY DEF NoBuild, BuildState
<1> QED BY <1>1, <1>2, <1>3 DEF Empty

\* A row whose hash is filled in if it can be.
Hashed(r) == [r EXCEPT !.hash = IF r.hash = "none" /\ r.form = "whole" THEN "whole" ELSE r.hash]

LEMMA HashedRow ==
  \A r \in Row : /\ Hashed(r) \in Row /\ Hashed(r).text = r.text /\ Hashed(r).form = r.form
                 /\ Hashed(r).by = r.by
                 /\ Hashed(r).hash \in {r.hash, r.form}
  BY DEF Hashed, Row, Form

\* What does not change when hashes are filled in.
SameRows(rows, old) ==
  /\ rows = {} <=> old = {}
  /\ Pairs(rows) = Pairs(old)
  /\ {[text |-> r.text, form |-> r.form, by |-> r.by] : r \in rows}
       = {[text |-> r.text, form |-> r.form, by |-> r.by] : r \in old}
  /\ \A r \in rows : \E q \in old : r.by = q.by /\ r.form = q.form /\ r.hash \in {q.hash, q.form}

LEMMA BackfillRows ==
  ASSUME NEW rows \in [File -> SUBSET Row]
  PROVE  /\ Backfill(rows) \in [File -> SUBSET Row]
         /\ \A f \in File : SameRows(Backfill(rows)[f], rows[f])
<1>1. Backfill(rows) = [f \in File |-> {Hashed(r) : r \in rows[f]}]
  BY DEF Backfill, Hashed
<1>2. \A f \in File : \A r \in rows[f] : r \in Row
  OBVIOUS
<1>3. Backfill(rows) \in [File -> SUBSET Row]
  BY <1>1, <1>2, HashedRow
<1>4. ASSUME NEW f \in File
      PROVE  SameRows(Backfill(rows)[f], rows[f])
  <2> DEFINE new == Backfill(rows)[f]
             old == rows[f]
             V(r) == [text |-> r.text, form |-> r.form, by |-> r.by]
  <2>1. new = {Hashed(r) : r \in old}
    BY <1>1
  <2>2. \A r \in old : r \in Row
    BY <1>2
  <2> HIDE DEF new, old
  <2>3. \A r \in old : Hashed(r).text = r.text /\ Hashed(r).form = r.form /\ Hashed(r).by = r.by
                       /\ Hashed(r).hash \in {r.hash, r.form}
    BY <2>2, HashedRow
  <2>4. \A r \in old : Hashed(r) \in new
    BY <2>1
  <2>5. \A r \in new : \E q \in old : r = Hashed(q)
    BY <2>1
  <2>6. new = {} <=> old = {}
    BY <2>4, <2>5
  <2>7. Pairs(new) = Pairs(old)
    BY <2>3, <2>4, <2>5 DEF Pairs
  <2>8. {V(r) : r \in new} = {V(r) : r \in old}
    <3>1. \A r \in old : V(Hashed(r)) = V(r)
      BY <2>3
    <3> HIDE DEF V
    <3> QED BY <2>4, <2>5, <3>1
  <2>9. \A r \in new : \E q \in old : r.by = q.by /\ r.form = q.form /\ r.hash \in {q.hash, q.form}
    BY <2>3, <2>5
  <2> QED BY <2>6, <2>7, <2>8, <2>9 DEF SameRows, new, old
<1> QED BY <1>3, <1>4

LEMMA MigratedFields ==
  ASSUME NEW i \in Index
  PROVE  /\ Migrated(i) \in Index
         /\ Migrated(i).stamp = i.stamp /\ Migrated(i).model = i.model /\ Migrated(i).width = i.width
         /\ Migrated(i).chunker = i.chunker /\ Migrated(i).id = i.id
         /\ \A f \in File : SameRows(Migrated(i).rows[f], i.rows[f])
         /\ Indexed(Migrated(i)) = Indexed(i) /\ Vectors(Migrated(i)) = Vectors(i)
<1> DEFINE rows == IF i.schema < HashesFrom THEN Backfill(i.rows) ELSE i.rows
           m == Migrated(i)
<1>1. i.rows \in [File -> SUBSET Row]
  BY Fields
<1>2. rows \in [File -> SUBSET Row] /\ \A f \in File : SameRows(rows[f], i.rows[f])
  <2>1. \A f \in File : SameRows(i.rows[f], i.rows[f])
    BY DEF SameRows
  <2> QED BY <1>1, <2>1, BackfillRows
<1>3. m = [i EXCEPT !.schema = Current, !.rows = rows]
  BY DEF Migrated
<1>4. Current \in Schema
  BY DEF Current, Schema
<1>5. /\ m \in Index /\ m.rows = rows /\ m.stamp = i.stamp /\ m.model = i.model /\ m.width = i.width
      /\ m.chunker = i.chunker /\ m.id = i.id
  <2> HIDE DEF rows, m
  <2> QED BY <1>2, <1>3, <1>4 DEF Index
<1> HIDE DEF rows, m
<1>6. Indexed(m) = Indexed(i) /\ Vectors(m) = Vectors(i)
  BY <1>2, <1>5 DEF Indexed, Vectors, SameRows
<1> QED BY <1>2, <1>5, <1>6 DEF m

\* Filling in hashes keeps what is so of an index.
LEMMA MigratedTrue ==
  ASSUME NEW i \in Index
  PROVE  /\ OfModel(i) => OfModel(Migrated(i))
         /\ Honest(i) => Honest(Migrated(i))
         /\ \A torn \in SUBSET File : StampsTrue(i, torn) => StampsTrue(Migrated(i), torn)
         /\ \A f \in File : Done(i, f) => Done(Migrated(i), f)
<1> DEFINE m == Migrated(i)
<1>1. /\ m.stamp = i.stamp /\ m.model = i.model /\ m.chunker = i.chunker
      /\ \A f \in File : SameRows(m.rows[f], i.rows[f])
  BY MigratedFields
<1> HIDE DEF m
<1>2. OfModel(i) => OfModel(m)
  BY <1>1 DEF OfModel, SameRows
<1>3. Honest(i) => Honest(m)
  BY <1>1 DEF Honest, SameRows
<1>4. \A torn \in SUBSET File : StampsTrue(i, torn) => StampsTrue(m, torn)
  BY <1>1 DEF StampsTrue, SameRows
<1>5. \A f \in File : Done(i, f) => Done(m, f)
  BY <1>1 DEF Done, SameRows
<1> QED BY <1>2, <1>3, <1>4, <1>5 DEF m

LEMMA FormIn == \A c \in Chunker, t \in Text : FormOf(c, t) \in Form
  BY DEF FormOf, Form

\* An index that an older release left is true to the files it was built from.
LEMMA LegacyTrue ==
  ASSUME NEW s \in Schema, NEW b \in Backend, NEW d \in [File -> Content]
  PROVE  /\ Legacy(s, b, d) \in Index /\ Legacy(s, b, d).id = NoId
         /\ Legacy(s, b, d).width = b.width
         /\ \A f \in File : \A r \in Legacy(s, b, d).rows[f] : r.by = b
         /\ OfModel(Legacy(s, b, d)) /\ Honest(Legacy(s, b, d)) /\ StampsTrue(Legacy(s, b, d), {})
<1> DEFINE hash(t) == IF s < HashesFrom THEN "none" ELSE FormOf(1, t)
           row(t) == [text |-> t, form |-> FormOf(1, t), by |-> b, hash |-> hash(t)]
           rows == [f \in File |-> {row(t) : t \in d[f].texts}]
           l == Legacy(s, b, d)
<1>1. /\ l = [rows |-> rows, stamp |-> d, model |-> b.model, width |-> b.width, chunker |-> 1,
              schema |-> s, id |-> NoId]
  BY DEF Legacy
<1>2. \A t \in Text : row(t) \in Row /\ row(t).text = t /\ row(t).form = FormOf(1, t) /\ row(t).by = b
                      /\ row(t).hash \in {"none", row(t).form}
  <2>1. \A t \in Text : FormOf(1, t) \in Form /\ hash(t) \in Form \cup {"none"}
                        /\ hash(t) \in {"none", FormOf(1, t)}
    BY FormIn DEF Chunker
  <2> HIDE DEF hash
  <2> QED BY <2>1 DEF Row
<1>3. \A f \in File : d[f].texts \in SUBSET Text
  BY Fields
<1> HIDE DEF row
<1>4. rows \in [File -> SUBSET Row]
  BY <1>2, <1>3
<1>5. \A f \in File : \A r \in rows[f] : \E t \in d[f].texts : r = row(t) /\ t \in Text
  BY <1>3
<1>6. \A f \in File : Pairs(rows[f]) = PairsOf(1, d[f])
  <2> SUFFICES ASSUME NEW f \in File
               PROVE  Pairs(rows[f]) = PairsOf(1, d[f])
    OBVIOUS
  <2>1. rows[f] = {row(t) : t \in d[f].texts}
    OBVIOUS
  <2>2. \A t \in d[f].texts : row(t).text = t /\ row(t).form = FormOf(1, t)
    BY <1>2, <1>3
  <2> QED BY <2>1, <2>2 DEF Pairs, PairsOf
<1>7. \A f \in File : \A r \in rows[f] : r.by = b /\ r.hash \in {"none", r.form}
  BY <1>2, <1>5
<1>8. /\ l.rows = rows /\ l.stamp = d /\ l.model = b.model /\ l.width = b.width /\ l.chunker = 1
      /\ l.schema = s /\ l.id = NoId
  BY <1>1
<1>9. l \in Index
  <2>1. b.model \in Model \cup {None} /\ b.width \in Width \cup {None}
    BY DEF Backend
  <2> HIDE DEF rows
  <2> QED BY <1>1, <1>4, <2>1 DEF Index, Chunker, NoChunker, NoId
<1> HIDE DEF rows, l
<1>10. OfModel(l) /\ Honest(l) /\ StampsTrue(l, {})
  BY <1>6, <1>7, <1>8 DEF OfModel, Honest, StampsTrue
<1> QED BY <1>7, <1>8, <1>9, <1>10 DEF l

\* The rows a build writes: one for each text, with the vector of a row that has the
\* same hash, or with one of the backend's.
LEMMA WantedRows ==
  ASSUME Typed, NEW f \in File
  PROVE  /\ Wanted(f) \in SUBSET Row
         /\ Pairs(Wanted(f)) = PairsOf(env.chunker, disk[f])
         /\ Wanted(f) = {} <=> disk[f].texts = {}
         /\ \A r \in Wanted(f) : /\ r.hash = r.form
                                 /\ r.by = env.backend \/ \E q \in scratch.rows[f] : r.by = q.by
<1> DEFINE same(t) == {r \in scratch.rows[f] : r.text = t /\ r.hash = FormOf(env.chunker, t)}
           by(t) == IF same(t) = {} THEN env.backend ELSE (CHOOSE r \in same(t) : TRUE).by
           row(t) == [text |-> t, form |-> FormOf(env.chunker, t), hash |-> FormOf(env.chunker, t),
                      by |-> by(t)]
<1>0. /\ scratch.rows[f] \in SUBSET Row /\ disk[f].texts \in SUBSET Text
      /\ env.backend \in Backend /\ env.chunker \in Chunker
  BY Fields DEF Typed, TypeOK
<1>1. Wanted(f) = {row(t) : t \in disk[f].texts}
  BY DEF Wanted
<1>2. \A t \in Text : by(t) \in Backend /\ (by(t) = env.backend \/ \E q \in scratch.rows[f] : by(t) = q.by)
  <2> SUFFICES ASSUME NEW t \in Text
               PROVE  by(t) \in Backend /\ (by(t) = env.backend \/ \E q \in scratch.rows[f] : by(t) = q.by)
    OBVIOUS
  <2>1. CASE same(t) = {}
    BY <1>0, <2>1
  <2>2. CASE same(t) # {}
    <3>1. (CHOOSE r \in same(t) : TRUE) \in scratch.rows[f]
      BY <2>2
    <3>2. by(t) = (CHOOSE r \in same(t) : TRUE).by
      BY <2>2
    <3> HIDE DEF same, by
    <3> QED BY <1>0, <3>1, <3>2, Fields
  <2> QED BY <2>1, <2>2
<1> HIDE DEF by
<1>3. \A t \in Text : /\ row(t) \in Row /\ row(t).text = t /\ row(t).form = FormOf(env.chunker, t)
                      /\ row(t).hash = row(t).form /\ row(t).by = by(t)
  BY <1>0, <1>2, FormIn DEF Row
<1> HIDE DEF row
<1>4. Wanted(f) \in SUBSET Row
  BY <1>0, <1>1, <1>3
<1>5. Pairs(Wanted(f)) = PairsOf(env.chunker, disk[f])
  <2>1. \A t \in disk[f].texts : row(t).text = t /\ row(t).form = FormOf(env.chunker, t)
    BY <1>0, <1>3
  <2> QED BY <1>1, <2>1 DEF Pairs, PairsOf
<1>6. Wanted(f) = {} <=> disk[f].texts = {}
  BY <1>1
<1>7. \A r \in Wanted(f) : \E t \in Text : r = row(t)
  BY <1>0, <1>1
<1> QED BY <1>2, <1>3, <1>4, <1>5, <1>6, <1>7

LEMMA FreshIdNew == FreshId \in 1..3 /\ FreshId # live.id /\ FreshId # topics.id
<1>1. \E i \in 1..3 : i \notin {live.id, topics.id}
  <2>1. 1 \in 1..3 /\ 2 \in 1..3 /\ 3 \in 1..3
    OBVIOUS
  <2>2. 1 # 2 /\ 1 # 3 /\ 2 # 3
    OBVIOUS
  <2> QED BY <2>1, <2>2
<1> QED BY <1>1 DEF FreshId

(***************************************************************************)
(* What the prelude of a build leaves of the index.                        *)
(***************************************************************************)

LEMMA BeginFields ==
  ASSUME Typed, NEW rebuildAsked \in BOOLEAN, NEW probed \in BOOLEAN, Begin(rebuildAsked, probed)
  PROVE  /\ Typed' /\ pc = "idle" /\ pc' = "embedding" /\ (probed \/ "probe" \in Faults) /\ ~mapped'
         /\ UNCHANGED <<disk, env, live, topics, changes, settled, cut>>
         /\ scratch'.model = env.backend.model /\ scratch'.chunker = env.chunker
         /\ probed => scratch'.width = env.backend.width
         /\ build'.todo = {f \in File : disk[f].texts # {} /\ ~UpToDate(scratch', f)}
         /\ \/ /\ build'.rebuilt /\ build'.changed /\ \A f \in File : scratch'.rows[f] = {}
            \/ /\ ~build'.rebuilt /\ build'.cut = {f \in cut : f \notin Indexed(live) \/ disk[f] # Gone}
               /\ live.model \in {None, env.backend.model} /\ ~WidthChanged(live, probed)
               /\ \A f \in File : IF disk[f] = Gone THEN scratch'.rows[f] = {}
                                  ELSE scratch'.rows[f] = Migrated(live).rows[f]
               /\ \A f \in File : scratch'.stamp[f] \in {live.stamp[f], NoStamp}
               /\ live.model # None /\ live.chunker # env.chunker
                    => build'.changed /\ \A f \in File : scratch'.stamp[f] = NoStamp
               /\ ~build'.changed => /\ scratch'.rows = Migrated(live).rows
                                     /\ scratch'.id = live.id
<1> DEFINE base    == Migrated(live)
           rebuild == \/ rebuildAsked
                      \/ base.model \notin {None, env.backend.model}
                      \/ WidthChanged(base, probed)
           rechunk == base.model # None /\ base.chunker # env.chunker
           kept    == Dropped(base, rebuild, rechunk)
           orphans == {f \in Indexed(kept) : disk[f] = Gone}
           rows    == [f \in File |-> IF f \in orphans THEN {} ELSE kept.rows[f]]
           width   == IF probed THEN env.backend.width ELSE kept.width
           model   == env.backend.model
           chunker == env.chunker
           schema  == Current
           ready   == [kept EXCEPT !.rows = rows, !.model = model, !.chunker = chunker,
                                   !.schema = schema, !.width = width]
           todo    == {f \in File : disk[f].texts # {} /\ ~UpToDate(ready, f)}
           changed == MarksChanged(rebuild, rechunk, orphans)
           torn    == IF rebuild THEN {} ELSE cut \ orphans
           n       == [NoBuild EXCEPT !.todo = todo, !.changed = changed, !.rebuilt = rebuild,
                                      !.cut = torn]
<1>1. /\ pc = "idle" /\ pc' = "embedding" /\ (probed \/ "probe" \in Faults)
      /\ scratch' = ready /\ build' = n /\ mapped' = FALSE
      /\ UNCHANGED <<disk, env, live, topics, changes, settled, cut>>
  BY DEF Begin
<1>2. /\ live \in Index /\ env \in [backend : Backend, chunker : Chunker]
      /\ cut \in SUBSET File /\ disk \in [File -> Content]
  BY DEF Typed, TypeOK
<1>3. /\ base \in Index /\ base.model = live.model /\ base.width = live.width
      /\ base.chunker = live.chunker /\ base.id = live.id /\ base.stamp = live.stamp
      /\ Indexed(base) = Indexed(live)
  BY <1>2, MigratedFields
<1>4. WidthChanged(base, probed) <=> WidthChanged(live, probed)
  BY <1>3 DEF WidthChanged
<1> HIDE DEF base
<1>5. /\ kept \in Index
      /\ rebuild => kept = Empty
      /\ ~rebuild => /\ kept.rows = base.rows /\ kept.id = base.id /\ Indexed(kept) = Indexed(base)
                     /\ \A f \in File : kept.stamp[f] \in {live.stamp[f], NoStamp}
                     /\ rechunk => \A f \in File : kept.stamp[f] = NoStamp
  <2>1. CASE rebuild
    BY <2>1, EmptyFields DEF Dropped
  <2>2. CASE ~rebuild /\ ~rechunk
    BY <1>3, <2>2 DEF Dropped
  <2>3. CASE ~rebuild /\ rechunk
    <3> DEFINE stamp == [f \in File |-> NoStamp]
    <3>1. stamp \in [File -> Content] /\ \A f \in File : stamp[f] = NoStamp
      BY EmptyFields
    <3>2. kept = [base EXCEPT !.stamp = stamp]
      BY <2>3 DEF Dropped
    <3> HIDE DEF stamp, rebuild, rechunk, kept
    <3>3. kept \in Index /\ kept.rows = base.rows /\ kept.id = base.id /\ kept.stamp = stamp
      BY <1>3, <3>1, <3>2 DEF Index
    <3> QED BY <2>3, <3>1, <3>3 DEF Indexed
  <2> QED BY <2>1, <2>2, <2>3
<1> HIDE DEF kept
<1>6. /\ rows \in [File -> SUBSET Row] /\ width \in Width \cup {None} /\ model \in Model \cup {None}
      /\ chunker \in Chunker \cup {NoChunker} /\ schema \in Schema
  <2>1. kept.rows \in [File -> SUBSET Row] /\ kept.width \in Width \cup {None}
    BY <1>5, Fields
  <2> QED BY <1>2, <2>1, Fields DEF Current, Schema
<1>7. /\ ready \in Index /\ ready.rows = rows /\ ready.stamp = kept.stamp /\ ready.id = kept.id
      /\ ready.model = model /\ ready.chunker = chunker /\ ready.width = width
  <2> HIDE DEF rows, width, model, chunker, schema
  <2> QED BY <1>5, <1>6 DEF Index
<1> HIDE DEF ready
<1>8. n \in BuildState /\ n.todo = todo /\ n.changed = changed /\ n.rebuilt = rebuild /\ n.cut = torn
  <2>1. todo \in SUBSET File /\ changed \in BOOLEAN /\ rebuild \in BOOLEAN /\ torn \in SUBSET File
    BY <1>2 DEF MarksChanged
  <2>2. NoBuild \in BuildState
    BY EmptyFields
  <2> HIDE DEF todo, changed, rebuild, torn
  <2> QED BY <2>1, <2>2 DEF BuildState
<1>9. Typed'
  <2>1. build'.todo \in SUBSET File /\ build'.cut \in SUBSET File
    BY <1>1, <1>8, Fields
  <2> QED BY <1>1, <1>7, <1>8, <2>1 DEF Typed, TypeOK
<1>10. \A f \in File : rows[f] = IF f \in orphans THEN {} ELSE kept.rows[f]
  OBVIOUS
<1>11. CASE rebuild
  <2>1. \A f \in File : rows[f] = {}
    BY <1>5, <1>10, <1>11, EmptyFields
  <2>2. changed
    BY <1>11 DEF MarksChanged
  <2> HIDE DEF rows, rebuild, changed
  <2> QED BY <1>1, <1>7, <1>8, <1>9, <1>11, <2>1, <2>2
<1>12. CASE ~rebuild
  <2>1. \A f \in File : IF disk[f] = Gone THEN rows[f] = {} ELSE rows[f] = base.rows[f]
    BY <1>5, <1>10, <1>12 DEF Indexed
  <2>2. torn = {f \in cut : f \notin Indexed(live) \/ disk[f] # Gone}
    BY <1>2, <1>3, <1>5, <1>12
  <2>3. live.model \in {None, env.backend.model} /\ ~WidthChanged(live, probed)
    BY <1>3, <1>4, <1>12
  <2>4. ~changed => rows = base.rows
    <3>1. base.rows \in [File -> SUBSET Row]
      BY <1>3, Fields
    <3>2. ~changed => orphans = {}
      BY DEF MarksChanged
    <3> QED BY <1>5, <1>12, <3>1, <3>2
  <2>5. live.model # None /\ live.chunker # env.chunker => rechunk /\ changed
    BY <1>3 DEF MarksChanged
  <2> HIDE DEF rows, rebuild, changed, torn, rechunk
  <2> QED BY <1>1, <1>3, <1>5, <1>7, <1>8, <1>9, <1>12, <2>1, <2>2, <2>3, <2>4, <2>5 DEF base
<1> QED BY <1>11, <1>12

(***************************************************************************)
(* What the other steps of a build do.                                     *)
(***************************************************************************)

\* What they all leave alone.
Apart == UNCHANGED <<disk, env, live, topics, pc, changes, settled, mapped, cut>>

LEMMA EmbedFields ==
  ASSUME Typed, NEW f \in File, Embed(f)
  PROVE  /\ Typed' /\ Apart /\ pc = "embedding" /\ f \in build.todo
         /\ \A g \in File : scratch'.rows[g] = IF g = f THEN Wanted(f) ELSE scratch.rows[g]
         /\ \A g \in File : scratch'.stamp[g] = IF g = f THEN disk[f] ELSE scratch.stamp[g]
         /\ scratch'.model = scratch.model /\ scratch'.chunker = scratch.chunker
         /\ scratch'.width = scratch.width
         /\ build'.todo = build.todo \ {f} /\ build'.cut = build.cut \ {f}
         /\ build'.whole = build.whole /\ build'.rebuilt = build.rebuilt /\ build'.changed
<1> DEFINE rows  == [scratch.rows EXCEPT ![f] = Wanted(f)]
           stamp == [scratch.stamp EXCEPT ![f] = disk[f]]
           todo  == build.todo \ {f}
           torn  == build.cut \ {f}
           yes   == TRUE
           b     == [build EXCEPT !.todo = todo, !.changed = yes, !.cut = torn]
           n     == [scratch EXCEPT !.rows = rows, !.stamp = stamp]
<1>1. /\ pc = "embedding" /\ f \in build.todo /\ Apart
      /\ build' = b /\ scratch' = [scratch EXCEPT !.rows[f] = Wanted(f), !.stamp[f] = disk[f]]
  BY DEF Embed, InBuild, Apart, past
<1>2. scratch' = n
  BY <1>1
<1>3. /\ scratch \in Index /\ build \in BuildState /\ disk[f] \in Content
      /\ scratch.rows \in [File -> SUBSET Row] /\ scratch.stamp \in [File -> Content]
      /\ build.todo \in SUBSET File /\ build.cut \in SUBSET File
  BY Fields DEF Typed, TypeOK
<1>4. /\ rows \in [File -> SUBSET Row] /\ stamp \in [File -> Content]
      /\ \A g \in File : rows[g] = IF g = f THEN Wanted(f) ELSE scratch.rows[g]
      /\ \A g \in File : stamp[g] = IF g = f THEN disk[f] ELSE scratch.stamp[g]
  BY <1>3, WantedRows
<1>5. /\ n \in Index /\ n.rows = rows /\ n.stamp = stamp /\ n.model = scratch.model
      /\ n.width = scratch.width /\ n.chunker = scratch.chunker
  <2> HIDE DEF rows, stamp
  <2> QED BY <1>3, <1>4 DEF Index
<1>6. b \in BuildState /\ b.todo = todo /\ b.cut = torn /\ b.whole = build.whole
      /\ b.rebuilt = build.rebuilt /\ b.changed
  <2>1. todo \in SUBSET File /\ torn \in SUBSET File /\ yes \in BOOLEAN /\ yes
    BY <1>3
  <2> HIDE DEF todo, torn, yes
  <2> QED BY <1>3, <2>1 DEF BuildState
<1> HIDE DEF b, n, rows, stamp
<1>7. Typed'
  <2>1. build'.todo \in SUBSET File /\ build'.cut \in SUBSET File
    BY <1>1, <1>3, <1>6
  <2> QED BY <1>1, <1>2, <1>5, <1>6, <2>1 DEF Typed, TypeOK, Apart
<1> QED BY <1>1, <1>2, <1>4, <1>5, <1>6, <1>7

LEMMA TwinFields ==
  ASSUME Typed, NEW f \in File, NEW before \in SUBSET Wanted(f), EmbedTwin(f, before)
  PROVE  /\ Typed' /\ Apart /\ pc = "embedding" /\ f \in build.todo /\ before # {}
         /\ \A g \in File : scratch'.rows[g] = IF g = f THEN before ELSE scratch.rows[g]
         /\ scratch'.stamp = scratch.stamp
         /\ scratch'.model = scratch.model /\ scratch'.chunker = scratch.chunker
         /\ scratch'.width = scratch.width
         /\ build'.todo = build.todo \ {f} /\ build'.cut = build.cut \cup {f}
         /\ ~build'.whole /\ build'.rebuilt = build.rebuilt /\ build'.changed
<1> DEFINE rows  == [scratch.rows EXCEPT ![f] = before]
           todo  == build.todo \ {f}
           torn  == build.cut \cup {f}
           yes   == TRUE
           no    == FALSE
           b     == [build EXCEPT !.todo = todo, !.changed = yes, !.whole = no, !.cut = torn]
           n     == [scratch EXCEPT !.rows = rows]
<1>1. /\ pc = "embedding" /\ f \in build.todo /\ Apart /\ before # {}
      /\ build' = b /\ scratch' = [scratch EXCEPT !.rows[f] = before]
  BY DEF EmbedTwin, InBuild, Apart, past
<1>2. scratch' = n
  BY <1>1
<1>3. /\ scratch \in Index /\ build \in BuildState
      /\ scratch.rows \in [File -> SUBSET Row]
      /\ build.todo \in SUBSET File /\ build.cut \in SUBSET File
  BY Fields DEF Typed, TypeOK
<1>4. /\ rows \in [File -> SUBSET Row]
      /\ \A g \in File : rows[g] = IF g = f THEN before ELSE scratch.rows[g]
  <2>1. before \in SUBSET Row
    BY WantedRows
  <2> QED BY <1>3, <2>1
<1>5. /\ n \in Index /\ n.rows = rows /\ n.stamp = scratch.stamp /\ n.model = scratch.model
      /\ n.width = scratch.width /\ n.chunker = scratch.chunker
  <2> HIDE DEF rows
  <2> QED BY <1>3, <1>4 DEF Index
<1>6. b \in BuildState /\ b.todo = todo /\ b.cut = torn /\ ~b.whole
      /\ b.rebuilt = build.rebuilt /\ b.changed
  <2>1. todo \in SUBSET File /\ torn \in SUBSET File /\ yes \in BOOLEAN /\ yes /\ no \in BOOLEAN /\ ~no
    BY <1>3
  <2> HIDE DEF todo, torn, yes, no
  <2> QED BY <1>3, <2>1 DEF BuildState
<1> HIDE DEF b, n, rows
<1>7. Typed'
  <2>1. build'.todo \in SUBSET File /\ build'.cut \in SUBSET File
    BY <1>1, <1>3, <1>6
  <2> QED BY <1>1, <1>2, <1>5, <1>6, <2>1 DEF Typed, TypeOK, Apart
<1> QED BY <1>1, <1>2, <1>4, <1>5, <1>6, <1>7

\* The embedder fails, for a file or for good.
LEMMA FailFields ==
  ASSUME Typed, \/ \E f \in File, short \in BOOLEAN : EmbedFails(f, short)
                \/ \E running \in SUBSET File : Limit(running)
  PROVE  /\ Typed' /\ Apart /\ UNCHANGED scratch /\ pc = "embedding"
         /\ build'.todo \subseteq build.todo /\ build'.cut = build.cut /\ ~build'.whole
         /\ build'.rebuilt = build.rebuilt /\ (build.changed => build'.changed)
<1>1. PICK todo \in SUBSET build.todo, changed \in BOOLEAN, limited \in BOOLEAN :
        /\ build' = [build EXCEPT !.todo = todo, !.changed = changed, !.limited = limited, !.whole = FALSE]
        /\ build.changed => changed
        /\ pc = "embedding" /\ Apart /\ UNCHANGED scratch
  <2>0. build \in BuildState /\ build.changed \in BOOLEAN /\ build.limited \in BOOLEAN
    BY Fields DEF Typed
  <2>1. ASSUME NEW f \in File, NEW short \in BOOLEAN, EmbedFails(f, short)
        PROVE  \E todo \in SUBSET build.todo, changed \in BOOLEAN, limited \in BOOLEAN :
                 /\ build' = [build EXCEPT !.todo = todo, !.changed = changed, !.limited = limited, !.whole = FALSE]
                 /\ build.changed => changed
                 /\ pc = "embedding" /\ Apart /\ UNCHANGED scratch
    <3> DEFINE todo == build.todo \ {f}
               changed == build.changed \/ short
    <3>1. /\ build' = [build EXCEPT !.todo = todo, !.changed = changed, !.whole = FALSE]
          /\ pc = "embedding" /\ Apart /\ UNCHANGED scratch
      BY <2>1 DEF EmbedFails, InBuild, Apart, db, past
    <3>2. build' = [build EXCEPT !.todo = todo, !.changed = changed, !.limited = build.limited, !.whole = FALSE]
      <4> HIDE DEF todo, changed
      <4> QED BY <2>0, <3>1 DEF BuildState
    <3>3. todo \in SUBSET build.todo /\ changed \in BOOLEAN /\ (build.changed => changed)
      BY <2>0
    <3> HIDE DEF todo, changed
    <3> QED BY <2>0, <3>1, <3>2, <3>3
  <2>2. ASSUME NEW running \in SUBSET File, Limit(running)
        PROVE  \E todo \in SUBSET build.todo, changed \in BOOLEAN, limited \in BOOLEAN :
                 /\ build' = [build EXCEPT !.todo = todo, !.changed = changed, !.limited = limited, !.whole = FALSE]
                 /\ build.changed => changed
                 /\ pc = "embedding" /\ Apart /\ UNCHANGED scratch
    <3>1. /\ build' = [build EXCEPT !.todo = running, !.limited = TRUE, !.whole = FALSE]
          /\ pc = "embedding" /\ Apart /\ UNCHANGED scratch /\ running \in SUBSET build.todo
      BY <2>2 DEF Limit, Apart, db, past
    <3>2. build' = [build EXCEPT !.todo = running, !.changed = build.changed, !.limited = TRUE, !.whole = FALSE]
      BY <2>0, <3>1 DEF BuildState
    <3> QED BY <2>0, <3>1, <3>2
  <2> QED BY <2>1, <2>2
<1> DEFINE no == FALSE
           b == [build EXCEPT !.todo = todo, !.changed = changed, !.limited = limited, !.whole = no]
<1>2. /\ b \in BuildState /\ b.todo = todo /\ b.cut = build.cut /\ ~b.whole
      /\ b.rebuilt = build.rebuilt /\ b.changed = changed
  <2>1. build \in BuildState /\ todo \in SUBSET File /\ no \in BOOLEAN /\ ~no
    BY Fields DEF Typed
  <2> HIDE DEF no
  <2> QED BY <2>1 DEF BuildState
<1>3. build' = b
  BY <1>1
<1> HIDE DEF b
<1>4. Typed'
  <2>1. build'.todo \in SUBSET File /\ build'.cut \in SUBSET File
    BY <1>2, <1>3, Fields
  <2> QED BY <1>1, <1>2, <1>3, <2>1 DEF Typed, TypeOK, Apart
<1> QED BY <1>1, <1>2, <1>3, <1>4

LEMMA PromoteFields ==
  ASSUME Typed, Promote
  PROVE  /\ Typed' /\ UNCHANGED <<disk, env, build, changes, mapped>>
         /\ pc = "embedding" /\ pc' \in {"idle", "topics"} /\ build.todo = {}
         /\ live'.rows = scratch.rows /\ live'.stamp = scratch.stamp /\ live'.model = scratch.model
         /\ live'.chunker = scratch.chunker /\ live'.width = scratch.width
         /\ IF build.changed THEN live'.id # NoId /\ live'.id # topics.id ELSE live'.id = scratch.id
         /\ topics'.there = topics.there /\ topics'.id = topics.id
         /\ topics'.apt = (topics.apt /\ Vectors(scratch) = Vectors(live))
         /\ settled' = build.whole /\ cut' = build.cut
<1> DEFINE id == FreshId
           n == [scratch EXCEPT !.id = id]
           apt == topics.apt /\ Vectors(scratch) = Vectors(live)
           t == [topics EXCEPT !.apt = apt]
<1>1. /\ pc = "embedding" /\ pc' \in {"idle", "topics"} /\ build.todo = {}
      /\ live' = IF build.changed THEN n ELSE scratch
      /\ scratch' = Empty /\ topics' = t /\ settled' = build.whole /\ cut' = build.cut
      /\ UNCHANGED <<disk, env, build, changes, mapped>>
  BY DEF Promote
<1>2. /\ scratch \in Index /\ topics \in [there : BOOLEAN, id : 0..3, apt : BOOLEAN]
      /\ build \in BuildState /\ build.whole \in BOOLEAN /\ build.cut \in SUBSET File
  BY Fields DEF Typed, TypeOK
<1>3. id \in 0..3 /\ id # NoId /\ id # topics.id
  BY FreshIdNew DEF NoId
<1> HIDE DEF id
<1>4. /\ n \in Index /\ n.rows = scratch.rows /\ n.stamp = scratch.stamp /\ n.model = scratch.model
      /\ n.chunker = scratch.chunker /\ n.width = scratch.width /\ n.id = id
  BY <1>2, <1>3 DEF Index
<1>5. t \in [there : BOOLEAN, id : 0..3, apt : BOOLEAN] /\ t.there = topics.there /\ t.id = topics.id
      /\ t.apt = apt
  <2>1. apt \in BOOLEAN
    OBVIOUS
  <2> HIDE DEF apt
  <2> QED BY <1>2, <2>1
<1> HIDE DEF n, t
<1>6. Typed'
  BY <1>1, <1>2, <1>4, <1>5, EmptyFields DEF Typed, TypeOK
<1> QED BY <1>1, <1>3, <1>4, <1>5, <1>6

(***************************************************************************)
(* The invariant.                                                          *)
(***************************************************************************)

LEMMA SettledDone == CurrentWhenSettled <=> (settled => \A f \in File \ cut : Done(live, f))
  BY DEF CurrentWhenSettled, Done, Pairs, PairsOf

LEMMA SettledDoneNext ==
  CurrentWhenSettled' <=> (settled' => \A f \in File \ cut' : Done(live, f)')
  BY DEF CurrentWhenSettled, Done, Pairs, PairsOf

LEMMA IndexInit == Init => IndexIInv
<1> SUFFICES ASSUME Init
             PROVE  IndexIInv
  OBVIOUS
<1>1. /\ disk \in [File -> Content] /\ env \in [backend : Backend, chunker : Chunker]
      /\ pc = "idle" /\ build = NoBuild /\ settled = FALSE /\ mapped = FALSE /\ cut = {}
      /\ changes \in 0..MaxChanges /\ scratch = Empty
  <2>1. {Gone, [texts |-> Text, twin |-> FALSE]} \subseteq Content
    BY DEF Gone, Content
  <2>2. disk \in [File -> Content]
    <3>1. disk \in [File -> {Gone, [texts |-> Text, twin |-> FALSE]}]
      BY DEF Init
    <3> HIDE DEF Gone
    <3> QED BY <2>1, <3>1
  <2> QED BY <2>2, ConstantsAssumption DEF Init
<1>2. live \in Index /\ live.id = NoId /\ OfModel(live) /\ Honest(live) /\ StampsTrue(live, {})
  <2>1. CASE live = Empty
    BY <2>1, EmptyFields DEF OfModel, Honest, StampsTrue
  <2>2. CASE \E s \in Schema \ {Current} : live = Legacy(s, env.backend, disk)
    BY <1>1, <2>2, LegacyTrue, Fields
  <2> QED BY <2>1, <2>2 DEF Init
<1>3. topics \in [there : BOOLEAN, id : 0..3, apt : BOOLEAN] /\ topics.id = NoId
      /\ (topics.there => topics.apt)
  BY DEF Init, NoTopics, NoId
<1>4. Typed
  BY <1>1, <1>2, <1>3, EmptyFields, Fields DEF Typed, TypeOK
<1> QED BY <1>1, <1>2, <1>3, <1>4
        DEF IndexIInv, LiveInv, BuildInv, CurrentWhenSettled, TopicsInv, TopicsTrue,
            TopicsOfTheirIndex, TopicsCaughtUp

\* The prelude leaves a scratch database that is true to its stamps, and plans every
\* file whose rows are not of its content.
LEMMA BeginKeeps ==
  ASSUME IndexIInv, NEW rebuildAsked \in BOOLEAN, NEW probed \in BOOLEAN, Begin(rebuildAsked, probed)
  PROVE  IndexIInv'
<1> DEFINE base == Migrated(live)
<1>0. /\ Typed /\ Typed' /\ pc' = "embedding" /\ ~mapped'
      /\ UNCHANGED <<disk, env, live, topics, settled, cut>>
      /\ scratch'.model = env.backend.model /\ scratch'.chunker = env.chunker
      /\ build'.todo = {f \in File : disk[f].texts # {} /\ ~UpToDate(scratch', f)}
  BY BeginFields DEF IndexIInv
<1>1. /\ LiveInv' /\ CurrentWhenSettled' /\ TopicsInv' /\ TopicsTrue'
  BY <1>0 DEF IndexIInv, LiveInv, CurrentWhenSettled, TopicsInv, TopicsTrue, TopicsOfTheirIndex,
              TopicsCaughtUp, TooFew, OfModel, Honest, StampsTrue
<1>2. /\ live \in Index /\ scratch' \in Index /\ disk \in [File -> Content] /\ cut \in SUBSET File
  BY <1>0 DEF Typed, TypeOK
<1>3. /\ \A f \in build'.todo : disk[f].texts # {}
      /\ \A f \in File : disk[f] = Gone => f \notin build'.todo
  BY <1>0, EmptyFields DEF NoStamp
<1>4. CASE build'.rebuilt /\ build'.changed /\ \A f \in File : scratch'.rows[f] = {}
  <2>1. OfModel(scratch') /\ Honest(scratch') /\ StampsTrue(scratch', build'.cut)
    BY <1>4 DEF OfModel, Honest, StampsTrue
  <2>2. \A f \in File \ build'.todo : Done(scratch', f)
    BY <1>0, <1>4 DEF Done, UpToDate
  <2>3. \A f \in File \ (build'.todo \cup build'.cut) : Done(scratch, f)'
    BY <1>0, <2>2 DEF Done
  <2>4. BuildInv'
    BY <1>0, <1>3, <1>4, <2>1, <2>3 DEF BuildInv
  <2> QED BY <1>0, <1>1, <2>4 DEF IndexIInv
<1>5. CASE /\ ~build'.rebuilt /\ build'.cut = {f \in cut : f \notin Indexed(live) \/ disk[f] # Gone}
           /\ live.model \in {None, env.backend.model}
           /\ \A f \in File : IF disk[f] = Gone THEN scratch'.rows[f] = {}
                              ELSE scratch'.rows[f] = base.rows[f]
           /\ \A f \in File : scratch'.stamp[f] \in {live.stamp[f], NoStamp}
           /\ live.model # None /\ live.chunker # env.chunker
                => \A f \in File : scratch'.stamp[f] = NoStamp
           /\ ~build'.changed => scratch'.rows = base.rows /\ scratch'.id = live.id
  <2>1. /\ \A f \in File : SameRows(base.rows[f], live.rows[f])
        /\ base.model = live.model /\ OfModel(base) /\ Honest(base) /\ Vectors(base) = Vectors(live)
    BY <1>2, MigratedFields, MigratedTrue DEF IndexIInv, LiveInv
  <2> HIDE DEF base
  <2>2. \A f \in File : \A r \in scratch'.rows[f] : r \in base.rows[f] /\ r.by.model # None
    <3>1. \A f \in File : \A r \in scratch'.rows[f] : r \in Row
      BY <1>2, Fields
    <3> QED BY <1>5, <3>1, Fields
  <2>3. OfModel(scratch')
    BY <1>0, <1>5, <2>1, <2>2 DEF OfModel
  <2>4. Honest(scratch')
    BY <2>1, <2>2 DEF Honest
  <2>5. ASSUME NEW f \in File \ build'.cut, scratch'.rows[f] # {}, scratch'.stamp[f] # NoStamp
        PROVE  Pairs(scratch'.rows[f]) = PairsOf(env.chunker, scratch'.stamp[f])
    <3>1. disk[f] # Gone /\ scratch'.rows[f] = base.rows[f] /\ scratch'.stamp[f] = live.stamp[f]
      BY <1>5, <2>5
    <3>2. f \notin cut
      BY <1>5, <3>1
    <3>3. live.rows[f] # {} /\ Pairs(base.rows[f]) = Pairs(live.rows[f])
      BY <2>1, <2>5, <3>1 DEF SameRows
    <3>4. live.model # None
      BY <2>1, <2>2, <2>5 DEF OfModel
    <3>5. live.chunker = env.chunker
      BY <1>5, <2>5, <3>4
    <3> QED BY <2>5, <3>1, <3>2, <3>3, <3>5 DEF IndexIInv, LiveInv, StampsTrue
  <2>6. StampsTrue(scratch', build'.cut)
    BY <1>0, <2>5 DEF StampsTrue
  <2>7. ASSUME NEW f \in File \ (build'.todo \cup build'.cut)
        PROVE  Done(scratch, f)'
    <3>1. CASE disk[f] = Gone
      BY <1>0, <1>5, <3>1 DEF Done
    <3>2. CASE disk[f] # Gone /\ disk[f].texts # {}
      <4>1. UpToDate(scratch', f)
        BY <1>0, <2>7, <3>2
      <4>2. scratch'.rows[f] # {} /\ scratch'.stamp[f] = disk[f] /\ disk[f] # NoStamp
        BY <1>0, <3>2, <4>1 DEF UpToDate, NoStamp
      <4> QED BY <1>0, <2>5, <2>7, <3>2, <4>2 DEF Done
    <3>3. CASE disk[f] # Gone /\ disk[f].texts = {}
      BY <1>0, <3>3 DEF Done
    <3> QED BY <3>1, <3>2, <3>3
  <2>8. \A f \in Indexed(live) : disk[f] # Gone => scratch'.rows[f] # {}
    BY <1>5, <2>1 DEF Indexed, SameRows
  <2>9. ~build'.changed => Vectors(scratch') = Vectors(live) /\ scratch'.id = live.id
    BY <1>5, <2>1 DEF Vectors
  <2>10. BuildInv'
    <3>1. Indexed(live)' = Indexed(live) /\ Vectors(live)' = Vectors(live)
      BY <1>0
    <3> QED BY <1>0, <1>3, <1>5, <2>3, <2>4, <2>6, <2>7, <2>8, <2>9, <3>1
            DEF BuildInv, OfModel, Honest, StampsTrue
  <2> QED BY <1>0, <1>1, <2>10 DEF IndexIInv
<1> QED BY <1>0, <1>4, <1>5, BeginFields

\* A step inside a build leaves what it does not write as it was.
LEMMA ApartKeeps ==
  ASSUME IndexIInv, Apart
  PROVE  LiveInv' /\ CurrentWhenSettled' /\ TopicsInv' /\ TopicsTrue'
  BY DEF IndexIInv, Apart, LiveInv, CurrentWhenSettled, TopicsInv, TopicsTrue, TopicsOfTheirIndex,
         TopicsCaughtUp, TooFew, OfModel, Honest, StampsTrue

LEMMA EmbedKeeps ==
  ASSUME IndexIInv, NEW f \in File, Embed(f)
  PROVE  IndexIInv'
<1>1. /\ Typed /\ Typed' /\ Apart /\ pc = "embedding" /\ f \in build.todo
      /\ \A g \in File : scratch'.rows[g] = IF g = f THEN Wanted(f) ELSE scratch.rows[g]
      /\ \A g \in File : scratch'.stamp[g] = IF g = f THEN disk[f] ELSE scratch.stamp[g]
      /\ scratch'.model = scratch.model /\ scratch'.chunker = scratch.chunker
      /\ build'.todo = build.todo \ {f} /\ build'.cut = build.cut \ {f}
      /\ build'.whole = build.whole /\ build'.rebuilt = build.rebuilt /\ build'.changed
  BY EmbedFields DEF IndexIInv
<1>2. /\ Pairs(Wanted(f)) = PairsOf(env.chunker, disk[f]) /\ (Wanted(f) = {} <=> disk[f].texts = {})
      /\ \A r \in Wanted(f) : /\ r.hash = r.form
                              /\ r.by = env.backend \/ \E q \in scratch.rows[f] : r.by = q.by
  BY <1>1, WantedRows
<1>3. BuildInv /\ UNCHANGED <<disk, env, live, pc>>
  BY <1>1 DEF IndexIInv, Apart
<1>4. OfModel(scratch)'
  BY <1>1, <1>2, <1>3 DEF BuildInv, OfModel
<1>5. Honest(scratch)'
  BY <1>1, <1>2, <1>3 DEF BuildInv, Honest
<1>6. StampsTrue(scratch, build.cut)'
  <2> SUFFICES ASSUME NEW g \in File \ build'.cut, scratch'.rows[g] # {}, scratch'.stamp[g] # NoStamp
               PROVE  Pairs(scratch'.rows[g]) = PairsOf(scratch'.chunker, scratch'.stamp[g])
    BY DEF StampsTrue
  <2> QED BY <1>1, <1>2, <1>3 DEF BuildInv, StampsTrue
<1>7. build'.whole => \A g \in File \ (build'.todo \cup build'.cut) : Done(scratch, g)'
  <2> SUFFICES ASSUME build'.whole, NEW g \in File \ (build'.todo \cup build'.cut)
               PROVE  Done(scratch, g)'
    OBVIOUS
  <2>1. CASE g = f
    BY <1>1, <1>2, <1>3, <2>1 DEF BuildInv, Done
  <2>2. CASE g # f
    BY <1>1, <1>3, <2>2 DEF BuildInv, Done
  <2> QED BY <2>1, <2>2
<1>8. BuildInv'
  BY <1>1, <1>2, <1>3, <1>4, <1>5, <1>6, <1>7 DEF BuildInv, Indexed
<1> QED BY <1>1, <1>8, ApartKeeps DEF IndexIInv

LEMMA TwinKeeps ==
  ASSUME IndexIInv, NEW f \in File, NEW before \in SUBSET Wanted(f), EmbedTwin(f, before)
  PROVE  IndexIInv'
<1>1. /\ Typed /\ Typed' /\ Apart /\ pc = "embedding" /\ f \in build.todo /\ before # {}
      /\ \A g \in File : scratch'.rows[g] = IF g = f THEN before ELSE scratch.rows[g]
      /\ scratch'.stamp = scratch.stamp
      /\ scratch'.model = scratch.model /\ scratch'.chunker = scratch.chunker
      /\ build'.todo = build.todo \ {f} /\ build'.cut = build.cut \cup {f}
      /\ ~build'.whole /\ build'.rebuilt = build.rebuilt /\ build'.changed
  BY TwinFields DEF IndexIInv
<1>2. \A r \in Wanted(f) : /\ r.hash = r.form
                           /\ r.by = env.backend \/ \E q \in scratch.rows[f] : r.by = q.by
  BY <1>1, WantedRows
<1>3. BuildInv /\ UNCHANGED <<disk, env, live, pc>>
  BY <1>1 DEF IndexIInv, Apart
<1>4. OfModel(scratch)'
  BY <1>1, <1>2, <1>3 DEF BuildInv, OfModel
<1>5. Honest(scratch)'
  BY <1>1, <1>2, <1>3 DEF BuildInv, Honest
<1>6. StampsTrue(scratch, build.cut)'
  BY <1>1, <1>3 DEF BuildInv, StampsTrue
<1>7. BuildInv'
  BY <1>1, <1>3, <1>4, <1>5, <1>6 DEF BuildInv, Indexed
<1> QED BY <1>1, <1>7, ApartKeeps DEF IndexIInv

LEMMA FailKeeps ==
  ASSUME IndexIInv, \/ \E f \in File, short \in BOOLEAN : EmbedFails(f, short)
                    \/ \E running \in SUBSET File : Limit(running)
  PROVE  IndexIInv'
<1>1. /\ Typed' /\ Apart /\ UNCHANGED scratch /\ pc = "embedding"
      /\ build'.todo \subseteq build.todo /\ build'.cut = build.cut /\ ~build'.whole
      /\ build'.rebuilt = build.rebuilt /\ (build.changed => build'.changed)
  BY FailFields DEF IndexIInv
<1>2. BuildInv /\ UNCHANGED <<disk, env, live, pc>>
  BY <1>1 DEF IndexIInv, Apart
<1>3. BuildInv'
  BY <1>1, <1>2 DEF BuildInv, OfModel, Honest, StampsTrue
<1> QED BY <1>1, <1>3, ApartKeeps DEF IndexIInv

LEMMA PromoteKeeps ==
  ASSUME IndexIInv, Promote
  PROVE  IndexIInv'
<1>1. /\ Typed /\ Typed' /\ UNCHANGED <<disk, env, mapped>>
      /\ pc = "embedding" /\ pc' \in {"idle", "topics"} /\ build.todo = {}
      /\ live'.rows = scratch.rows /\ live'.stamp = scratch.stamp /\ live'.model = scratch.model
      /\ live'.chunker = scratch.chunker
      /\ IF build.changed THEN live'.id # NoId /\ live'.id # topics.id ELSE live'.id = scratch.id
      /\ topics'.there = topics.there /\ topics'.id = topics.id
      /\ topics'.apt = (topics.apt /\ Vectors(scratch) = Vectors(live))
      /\ settled' = build.whole /\ cut' = build.cut
  BY PromoteFields DEF IndexIInv
<1>2. BuildInv
  BY DEF IndexIInv
<1>3. LiveInv'
  BY <1>1, <1>2 DEF BuildInv, LiveInv, OfModel, Honest, StampsTrue
<1>4. CurrentWhenSettled'
  BY <1>1, <1>2, SettledDoneNext DEF BuildInv, Done
<1>5. ~mapped
  BY <1>1 DEF IndexIInv, TopicsInv
<1>6. TopicsInv' /\ TopicsTrue'
  BY <1>1, <1>2, <1>5
     DEF IndexIInv, BuildInv, TopicsInv, TopicsTrue, TopicsOfTheirIndex, TopicsCaughtUp
<1>7. BuildInv'
  BY <1>1 DEF BuildInv
<1> QED BY <1>1, <1>3, <1>4, <1>6, <1>7 DEF IndexIInv

LEMMA UpgradeKeeps ==
  ASSUME IndexIInv, ReaderUpgrade
  PROVE  IndexIInv'
<1>1. /\ pc # "embedding" /\ live' = Migrated(live)
      /\ UNCHANGED <<disk, env, scratch, topics, pc, build, changes, settled, mapped, cut>>
  BY DEF ReaderUpgrade, past
<1>2. live \in Index /\ cut \in SUBSET File
  BY DEF IndexIInv, Typed, TypeOK
<1>3. /\ live' \in Index /\ Indexed(live') = Indexed(live) /\ live'.model = live.model
      /\ live'.id = live.id
  BY <1>1, <1>2, MigratedFields
<1>4. Typed'
  BY <1>1, <1>3 DEF IndexIInv, Typed, TypeOK
<1>5. LiveInv'
  <2>1. OfModel(live') /\ Honest(live') /\ StampsTrue(live', cut)
    BY <1>1, <1>2, MigratedTrue DEF IndexIInv, LiveInv
  <2> QED BY <1>1, <2>1 DEF LiveInv, OfModel, Honest, StampsTrue
<1>6. CurrentWhenSettled'
  <2>1. settled => \A f \in File \ cut : Done(live', f)
    BY <1>1, <1>2, MigratedTrue, SettledDone DEF IndexIInv
  <2> QED BY <1>1, <2>1, SettledDoneNext DEF Done
<1>7. TooFew' <=> TooFew
  BY <1>3 DEF TooFew
<1>8. TopicsInv' /\ TopicsTrue'
  BY <1>1, <1>3, <1>7 DEF IndexIInv, TopicsInv, TopicsTrue, TopicsOfTheirIndex, TopicsCaughtUp
<1> QED BY <1>1, <1>4, <1>5, <1>6, <1>8 DEF IndexIInv, BuildInv

\* The topic map, the end of a build, and what happens between builds.
LEMMA OtherKeeps ==
  ASSUME IndexIInv,
         \/ \E f \in File, c \in Content : Change(f, c)
         \/ \E e \in [backend : Backend, chunker : Chunker] : Reconfigure(e)
         \/ NoModel \/ Cancel \/ Crash \/ MapTopics \/ SkipTopics \/ TopicsFail
  PROVE  IndexIInv'
<1>0. Typed /\ NoBuild \in BuildState /\ NoBuild.todo = {} /\ NoBuild.cut = {} /\ Empty \in Index
  BY EmptyFields DEF IndexIInv, NoBuild
<1>1. UNCHANGED <<live, cut>> /\ pc' # "embedding"
  BY DEF Change, Reconfigure, NoModel, Cancel, Crash, MapTopics, SkipTopics, TopicsFail, EndGather,
         db, past
<1>2. LiveInv' /\ BuildInv' /\ (TooFew' <=> TooFew)
  BY <1>1 DEF IndexIInv, LiveInv, BuildInv, TooFew, OfModel, Honest, StampsTrue
<1>3. CASE \/ \E f \in File, c \in Content : Change(f, c)
           \/ \E e \in [backend : Backend, chunker : Chunker] : Reconfigure(e)
  <2>1. /\ settled' = FALSE /\ UNCHANGED <<live, scratch, topics, pc, build, mapped, cut>>
        /\ disk' \in [File -> Content] /\ env' \in [backend : Backend, chunker : Chunker]
        /\ changes' \in 0..MaxChanges
    BY <1>0, <1>3, ConstantsAssumption DEF Change, Reconfigure, db, Typed, TypeOK
  <2>2. Typed'
    BY <1>0, <2>1 DEF Typed, TypeOK
  <2> QED BY <1>2, <2>1, <2>2 DEF IndexIInv, CurrentWhenSettled, TopicsInv, TopicsTrue,
                                  TopicsOfTheirIndex, TopicsCaughtUp
<1>4. CASE NoModel \/ Cancel \/ Crash
  <2>1. /\ UNCHANGED <<disk, env, live, topics, changes, settled, cut>> /\ build' = NoBuild
        /\ scratch' \in {scratch, Empty} /\ pc' \in {"idle", "topics"}
        /\ ~mapped'
    BY <1>0, <1>4 DEF NoModel, Cancel, Crash, db, past, IndexIInv, TopicsInv
  <2>2. mapped' \in BOOLEAN
    BY <1>0, <1>4 DEF NoModel, Cancel, Crash, past, Typed
  <2>3. Typed'
    BY <1>0, <2>1, <2>2 DEF Typed, TypeOK
  <2> QED BY <1>2, <2>1, <2>3 DEF IndexIInv, CurrentWhenSettled, TopicsInv, TopicsTrue,
                                  TopicsOfTheirIndex, TopicsCaughtUp
<1>5. CASE MapTopics \/ SkipTopics \/ TopicsFail
  <2>1. /\ UNCHANGED <<disk, env, live, scratch, changes, settled, cut>> /\ build' = NoBuild
        /\ pc = "topics" /\ pc' = "idle" /\ mapped' \in BOOLEAN
    BY <1>0, <1>5 DEF MapTopics, SkipTopics, TopicsFail, EndGather, db, Typed
  <2>2. topics' \in {topics, [there |-> TRUE, id |-> live.id, apt |-> TRUE]}
    BY <1>5 DEF MapTopics, SkipTopics, TopicsFail
  <2>3. Typed'
    <3>1. live.id \in 0..3
      BY <1>0, Fields DEF Typed, TypeOK
    <3>2. topics \in [there : BOOLEAN, id : 0..3, apt : BOOLEAN]
      BY <1>0 DEF Typed, TypeOK
    <3>3. [there |-> TRUE, id |-> live.id, apt |-> TRUE] \in [there : BOOLEAN, id : 0..3, apt : BOOLEAN]
      <4> DEFINE yes == TRUE
                 id  == live.id
      <4>1. yes \in BOOLEAN /\ id \in 0..3
        BY <3>1
      <4>2. [there |-> yes, id |-> id, apt |-> yes] \in [there : BOOLEAN, id : 0..3, apt : BOOLEAN]
        <5> HIDE DEF yes, id
        <5> QED BY <4>1
      <4> QED BY <4>2
    <3>4. topics' \in [there : BOOLEAN, id : 0..3, apt : BOOLEAN]
      BY <2>2, <3>2, <3>3
    <3> QED BY <1>0, <2>1, <3>4 DEF Typed, TypeOK
  <2>4. CurrentWhenSettled' /\ TopicsInv' /\ TopicsOfTheirIndex'
    BY <2>1, <2>2 DEF IndexIInv, CurrentWhenSettled, TopicsInv, TopicsTrue, TopicsOfTheirIndex
  <2>5. TopicsCaughtUp'
    <3>1. CASE MapTopics
      BY <3>1 DEF MapTopics, TopicsCaughtUp
    <3>2. CASE SkipTopics
      BY <1>2, <3>2 DEF SkipTopics, TopicsDue, IndexIInv, TopicsInv, TopicsTrue,
                        TopicsOfTheirIndex, TopicsCaughtUp
    <3>3. CASE TopicsFail
      BY <2>1, <3>3 DEF TopicsFail, IndexIInv, TopicsInv, TopicsCaughtUp
    <3> QED BY <1>5, <3>1, <3>2, <3>3
  <2> QED BY <1>2, <2>3, <2>4, <2>5 DEF IndexIInv, TopicsTrue
<1> QED BY <1>3, <1>4, <1>5

LEMMA IndexIInvHolds == Spec => []IndexIInv
<1>1. ASSUME IndexIInv, UNCHANGED vars
      PROVE  IndexIInv'
  BY <1>1 DEF vars, db, past, IndexIInv, Typed, TypeOK, LiveInv, BuildInv, CurrentWhenSettled,
              TopicsInv, TopicsTrue, TopicsOfTheirIndex, TopicsCaughtUp, TooFew, OfModel, Honest,
              StampsTrue, Done
<1>2. IndexIInv /\ [Next]_vars => IndexIInv'
  BY <1>1, BeginKeeps, EmbedKeeps, TwinKeeps, FailKeeps, PromoteKeeps, UpgradeKeeps, OtherKeeps
     DEF Next
<1> QED BY <1>2, IndexInit, PTL DEF Spec

\* Whatever fails, the rows of the promoted index are reused by honest hashes and, when
\* a build has embedded all it planned, are those of the present files.
THEOREM RowsStayTrue == Spec => []RowsTrue
<1>1. IndexIInv => RowsTrue
  BY DEF IndexIInv, LiveInv, Honest, RowsTrue, HashesTrue
<1> QED BY <1>1, IndexIInvHolds, PTL

\* A topic map is taken for no other index's, and catches up after a crash between the
\* promotion and the map.
THEOREM TopicsStayTrue == Spec => []TopicsTrue
<1>1. IndexIInv => TopicsTrue
  BY DEF IndexIInv
<1> QED BY <1>1, IndexIInvHolds, PTL

\* A build that is not a rebuild empties no file that is still there.
THEOREM FilesStaySearchable == Spec => StaysSearchable
<1>1. IndexIInv /\ [Next]_vars =>
        [(pc = "embedding" /\ live' # live /\ ~build.rebuilt)
           => \A f \in Indexed(live) : disk[f] # Gone => live'.rows[f] # {}]_vars
  <2> SUFFICES ASSUME IndexIInv, Next, pc = "embedding", live' # live, ~build.rebuilt,
                      NEW f \in Indexed(live), disk[f] # Gone
               PROVE  live'.rows[f] # {}
    OBVIOUS
  <2>1. Promote
    BY DEF Next, Change, Reconfigure, Begin, Embed, EmbedTwin, EmbedFails, Limit, NoModel, Cancel,
           Crash, MapTopics, SkipTopics, TopicsFail, ReaderUpgrade, EndGather, db
  <2>2. live'.rows = scratch.rows
    BY <2>1, PromoteFields DEF IndexIInv
  <2> QED BY <2>2 DEF IndexIInv, BuildInv
<1> QED BY <1>1, IndexIInvHolds, PTL DEF Spec, StaysSearchable

(***************************************************************************)
(* One vector space, when every probe of the embedder's dimension          *)
(* succeeds: its model is compared in any case, its dimension only then.   *)
(***************************************************************************)

OfWidth(index) == \A f \in File : \A r \in index.rows[f] : r.by.width = index.width

WidthInv == /\ OfWidth(live)
            /\ pc = "embedding" => OfWidth(scratch) /\ scratch.width = env.backend.width

LEMMA WidthInit == Init => WidthInv
<1> SUFFICES ASSUME Init
             PROVE  WidthInv
  OBVIOUS
<1>1. CASE live = Empty
  BY <1>1, EmptyFields DEF Init, WidthInv, OfWidth
<1>2. CASE \E s \in Schema \ {Current} : live = Legacy(s, env.backend, disk)
  <2>1. env.backend \in Backend
    BY Fields DEF Init
  <2>2. disk \in [File -> Content]
    BY IndexInit DEF IndexIInv, Typed, TypeOK
  <2> QED BY <1>2, <2>1, <2>2, LegacyTrue DEF Init, WidthInv, OfWidth
<1> QED BY <1>1, <1>2 DEF Init

LEMMA WidthStep ==
  ASSUME "probe" \notin Faults, IndexIInv, WidthInv, [Next]_vars
  PROVE  WidthInv'
<1>0. Typed
  BY DEF IndexIInv
<1>1. ASSUME NEW rebuildAsked \in BOOLEAN, NEW probed \in BOOLEAN, Begin(rebuildAsked, probed)
      PROVE  WidthInv'
  <2>1. /\ probed /\ UNCHANGED <<live, env>> /\ Typed'
        /\ scratch'.width = env.backend.width
    BY <1>0, <1>1, BeginFields
  <2>2. CASE \A f \in File : scratch'.rows[f] = {}
    BY <2>1, <2>2 DEF WidthInv, OfWidth
  <2>3. CASE /\ live.model \in {None, env.backend.model} /\ ~WidthChanged(live, probed)
             /\ \A f \in File : IF disk[f] = Gone THEN scratch'.rows[f] = {}
                                ELSE scratch'.rows[f] = Migrated(live).rows[f]
    <3> SUFFICES ASSUME NEW f \in File, NEW r \in scratch'.rows[f]
                 PROVE  r.by.width = env.backend.width
      BY <2>1 DEF WidthInv, OfWidth
    <3>1. live \in Index
      BY <1>0 DEF Typed, TypeOK
    <3>2. r \in Migrated(live).rows[f] /\ SameRows(Migrated(live).rows[f], live.rows[f])
      BY <2>3, <3>1, MigratedFields
    <3>3. PICK q \in live.rows[f] : r.by = q.by
      BY <3>2 DEF SameRows
    <3>4. q \in Row
      BY <3>1, Fields
    <3>5. q.by.model = live.model /\ q.by.width = live.width
      BY DEF IndexIInv, LiveInv, OfModel, WidthInv, OfWidth
    <3> QED BY <2>1, <2>3, <3>3, <3>4, <3>5, Fields DEF WidthChanged
  <2> QED BY <1>0, <1>1, <2>2, <2>3, BeginFields
<1>2. ASSUME NEW f \in File, Embed(f)
      PROVE  WidthInv'
  <2>1. \A r \in Wanted(f) : r.by = env.backend \/ \E q \in scratch.rows[f] : r.by = q.by
    BY <1>0, WantedRows
  <2> QED BY <1>0, <1>2, <2>1, EmbedFields DEF WidthInv, OfWidth, Apart
<1>3. ASSUME NEW f \in File, NEW before \in SUBSET Wanted(f), EmbedTwin(f, before)
      PROVE  WidthInv'
  <2>1. \A r \in Wanted(f) : r.by = env.backend \/ \E q \in scratch.rows[f] : r.by = q.by
    BY <1>0, WantedRows
  <2> QED BY <1>0, <1>3, <2>1, TwinFields DEF WidthInv, OfWidth, Apart
<1>4. CASE \/ \E f \in File, short \in BOOLEAN : EmbedFails(f, short)
           \/ \E running \in SUBSET File : Limit(running)
  BY <1>0, <1>4, FailFields DEF WidthInv, OfWidth, Apart
<1>5. CASE Promote
  BY <1>0, <1>5, PromoteFields DEF WidthInv, OfWidth
<1>6. CASE ReaderUpgrade
  <2>1. live' = Migrated(live) /\ live \in Index /\ pc' # "embedding"
    BY <1>0, <1>6 DEF ReaderUpgrade, Typed, TypeOK
  <2> QED BY <2>1, MigratedFields DEF WidthInv, OfWidth, SameRows
<1>7. CASE \/ \E f \in File, c \in Content : Change(f, c)
           \/ \E e \in [backend : Backend, chunker : Chunker] : Reconfigure(e)
           \/ NoModel \/ Cancel \/ Crash \/ MapTopics \/ SkipTopics \/ TopicsFail
  <2>1. UNCHANGED live /\ pc' # "embedding"
    BY <1>7 DEF Change, Reconfigure, NoModel, Cancel, Crash, MapTopics, SkipTopics, TopicsFail,
                EndGather, db
  <2> QED BY <2>1 DEF WidthInv, OfWidth
<1>8. CASE UNCHANGED vars
  BY <1>8 DEF vars, db, WidthInv, OfWidth
<1> QED BY <1>1, <1>2, <1>3, <1>4, <1>5, <1>6, <1>7, <1>8 DEF Next

\* When probes succeed, no index that is promoted mixes models or dimensions, and both
\* databases are of their types.
THEOREM OneVectorSpace ==
  ASSUME "probe" \notin Faults
  PROVE  Spec => []IndexInv
<1>1. IndexIInv /\ WidthInv => IndexInv
  <2> SUFFICES ASSUME IndexIInv, WidthInv
               PROVE  OneSpace
    BY DEF IndexInv, IndexIInv, Typed
  <2>1. live \in Index
    BY DEF IndexIInv, Typed, TypeOK
  <2> SUFFICES ASSUME NEW f \in File, NEW g \in File, NEW r \in live.rows[f], NEW s \in live.rows[g]
               PROVE  r.by = s.by
    BY DEF OneSpace
  <2>2. r \in Row /\ s \in Row
    BY <2>1, Fields
  <2>3. r.by.model = s.by.model /\ r.by.width = s.by.width
    BY DEF IndexIInv, LiveInv, OfModel, WidthInv, OfWidth
  <2> QED BY <2>2, <2>3, Fields DEF Backend
<1>2. IndexIInv /\ WidthInv /\ [Next]_vars => WidthInv'
  BY WidthStep
<1> QED BY <1>1, <1>2, WidthInit, IndexIInvHolds, PTL DEF Spec

=============================================================================
