------------------------- MODULE FleetRecordsProofs -------------------------
(***************************************************************************)
(* Proofs about FleetRecords, for any number of gathers, hosts, slots,     *)
(* keys and tries: what compare-and-swap keeps of the slots and of the     *)
(* identity map in any case, how many gathers it can keep from losing what *)
(* they looked up, and when a gather that runs has a slot.                 *)
(***************************************************************************)
EXTENDS FleetRecords, FiniteSetTheorems, TLAPS

(***************************************************************************)
(* The variables keep their types.                                         *)
(***************************************************************************)

LEMMA Constants ==
  /\ TTL \in Nat /\ TTL > 0 /\ Delay \in Nat /\ Interval \in Nat /\ Interval > 0
  /\ Tries \in Nat /\ Tries > 0 /\ MaxStamp \in Nat /\ Cap \in Nat /\ Cap > 0
  BY ConstantsAssumption

LEMMA Records ==
  /\ NoSlots \in Slots /\ NoMap \in Map
  /\ Queued \in GatherState /\ Finished \in GatherState /\ Idle \in BeatState
  /\ Queued.pc = "queued" /\ Queued.added = NoMap /\ Finished.pc = "done" /\ ~Idle.busy
  /\ Queued.tries = Tries /\ Queued.failed = FALSE
<1>1. NoSlots \in Slots /\ NoMap \in Map
  BY Constants DEF NoSlots, Slots, NoMap, Map, Absent
<1>2. Queued \in GatherState /\ Queued.pc = "queued" /\ Queued.added = NoMap /\ Queued.tries = Tries
      /\ Queued.failed = FALSE
  BY <1>1, Constants DEF Queued, GatherState, Stage
<1>3. Finished \in GatherState /\ Finished.pc = "done"
  BY <1>2 DEF Finished, GatherState, Stage, Ended
<1>4. Idle \in BeatState /\ ~Idle.busy
  BY <1>1, Constants DEF Idle, BeatState
<1> QED BY <1>1, <1>2, <1>3, <1>4

LEMMA LeftIn == \A age \in 0..Delay : Left(age) \in 0..TTL /\ Left(age) >= TTL - age
  BY Constants DEF Left

LEMMA LaterIn == \A s \in Slots : /\ Later(s) \in Slots
                                  /\ \A g \in Gather : Later(s)[g] = IF s[g] > 0 THEN s[g] - 1 ELSE s[g]
  BY Constants DEF Later, Slots, Absent

LEMMA MergeIn ==
  \A m, n \in Map : /\ Merge(m, n) \in Map
                    /\ \A k \in Key : Merge(m, n)[k] >= m[k] /\ Merge(m, n)[k] >= n[k]
  BY Constants DEF Merge, Map, Max2

(***************************************************************************)
(* What each step does to the gather and to its heartbeat.                 *)
(***************************************************************************)

\* The other gathers, and the other heartbeats, are as they were.
Alone(g)     == \A o \in Gather \ {g} : gather'[o] = gather[o]
BeatAlone(g) == \A o \in Gather \ {g} : beat'[o] = beat[o]

LEMMA StageNames ==
  {"queued", "admitting", "releasing", "freeing", "hydrating", "gathering", "saving", "persisting",
   "merging", "done", "dead"} = Stage
  BY DEF Stage, Running, Ended

LEMMA AskFields ==
  ASSUME TypeOK, NEW g \in Gather, Ask(g)
  PROVE  /\ TypeOK' /\ Alone(g) /\ gather[g].pc = "queued" /\ Free(slots, g)
         /\ gather'[g].pc = "admitting" /\ gather'[g].snap = slots /\ gather'[g].age = 0
         /\ gather'[g].added = gather[g].added
         /\ UNCHANGED <<slots, store, file, home, beat>>
<1> DEFINE r == gather[g]
           pc == "admitting"
           age == 0
           n == [r EXCEPT !.pc = pc, !.snap = slots, !.age = age]
<1>1. /\ gather' = [gather EXCEPT ![g] = n] /\ gather[g].pc = "queued" /\ Free(slots, g)
      /\ UNCHANGED <<slots, store, file, home, beat>>
  BY DEF Ask, At, records
<1>2. n \in GatherState /\ n.pc = pc /\ n.snap = slots /\ n.age = age /\ n.added = r.added
  <2>1. pc \in Stage /\ age \in 0..Delay /\ r \in GatherState /\ slots \in Slots
    BY StageNames, Constants DEF TypeOK
  <2> HIDE DEF r, pc, age
  <2> QED BY <2>1 DEF GatherState
<1> HIDE DEF n
<1>3. gather' \in [Gather -> GatherState] /\ gather'[g] = n /\ Alone(g)
  BY <1>1, <1>2 DEF TypeOK, Alone
<1> QED BY <1>1, <1>2, <1>3 DEF TypeOK

LEMMA AdmitFields ==
  ASSUME TypeOK, NEW g \in Gather, Admit(g)
  PROVE  /\ TypeOK' /\ Alone(g) /\ BeatAlone(g) /\ gather[g].pc = "admitting"
         /\ gather'[g].added = NoMap /\ gather'[g].tries = Tries
         /\ \/ /\ slots = gather[g].snap
               /\ slots' \in Slots
               /\ slots'[g] = Left(gather[g].age)
               /\ \A o \in Gather \ {g} : slots'[o] = IF slots[o] > 0 THEN slots[o] ELSE Absent
               /\ gather'[g].pc = "hydrating"
               /\ beat'[g].due = 0 /\ beat'[g].busy = beat[g].busy /\ beat'[g].snap = beat[g].snap
               /\ beat'[g].age = beat[g].age
            \/ gather'[g].pc = "queued" /\ UNCHANGED <<slots, beat>>
         /\ UNCHANGED <<store, file, home>>
<1> USE DEF TypeOK
<1> DEFINE s == gather[g].snap
           new == [o \in Gather |-> IF o = g THEN Left(gather[g].age)
                                    ELSE IF s[o] > 0 THEN s[o] ELSE Absent]
           pc == "hydrating"
           n == [Queued EXCEPT !.pc = pc]
<1>0. s \in Slots /\ gather[g].age \in 0..Delay /\ gather[g].pc = "admitting"
  BY DEF GatherState, Admit, At
<1>1. n \in GatherState /\ n.pc = "hydrating" /\ n.added = NoMap /\ n.tries = Tries
  <2>1. pc \in Stage
    BY StageNames
  <2>2. pc = "hydrating"
    OBVIOUS
  <2> HIDE DEF pc
  <2> QED BY <2>1, <2>2, Records DEF GatherState
<1>2. new \in Slots
  BY <1>0, LeftIn, Constants DEF Slots, Absent
<1>3. \/ /\ slots = s /\ slots' = new /\ gather' = [gather EXCEPT ![g] = n]
         /\ beat' = [beat EXCEPT ![g].due = 0]
      \/ gather' = [gather EXCEPT ![g] = Queued] /\ UNCHANGED <<slots, beat>>
  BY DEF Admit, Wins
<1>4. UNCHANGED <<store, file, home>>
  BY DEF Admit
<1> HIDE DEF n
<1>5. CASE /\ slots = s /\ slots' = new /\ gather' = [gather EXCEPT ![g] = n]
           /\ beat' = [beat EXCEPT ![g].due = 0]
  <2> DEFINE due == 0
             b == [beat[g] EXCEPT !.due = due]
  <2>1. b \in BeatState /\ b.due = 0 /\ b.busy = beat[g].busy /\ b.snap = beat[g].snap /\ b.age = beat[g].age
    <3>1. due \in 0..Interval /\ due = 0
      BY Constants
    <3> HIDE DEF due
    <3> QED BY <3>1 DEF BeatState
  <2>2. beat' = [beat EXCEPT ![g] = b]
    BY <1>5
  <2> HIDE DEF b
  <2>3. beat' \in [Gather -> BeatState] /\ beat'[g] = b /\ BeatAlone(g)
    BY <2>1, <2>2 DEF BeatAlone
  <2>4. gather' \in [Gather -> GatherState] /\ gather'[g] = n /\ Alone(g)
    BY <1>1, <1>5 DEF Alone
  <2>5. slots'[g] = Left(gather[g].age)
        /\ \A o \in Gather \ {g} : slots'[o] = IF slots[o] > 0 THEN slots[o] ELSE Absent
    BY <1>5
  <2> QED BY <1>0, <1>1, <1>2, <1>4, <1>5, <2>1, <2>3, <2>4, <2>5
<1>6. CASE gather' = [gather EXCEPT ![g] = Queued] /\ UNCHANGED <<slots, beat>>
  BY <1>0, <1>4, <1>6, Records DEF Alone, BeatAlone
<1> QED BY <1>3, <1>5, <1>6
LEMMA ReleaseFields ==
  ASSUME TypeOK, NEW g \in Gather, Release(g)
  PROVE  /\ TypeOK' /\ Alone(g) /\ gather[g].pc = "releasing"
         /\ \/ gather'[g].pc = "done"
            \/ /\ gather'[g].pc = "freeing" /\ gather'[g].added = gather[g].added
               /\ gather'[g].failed = gather[g].failed
         /\ UNCHANGED <<slots, store, file, home, beat>>
<1> DEFINE r == gather[g]
           pc == "freeing"
           n == [r EXCEPT !.pc = pc, !.snap = slots]
<1>1. /\ gather[g].pc = "releasing" /\ UNCHANGED <<slots, store, file, home, beat>>
      /\ gather' = [gather EXCEPT ![g] = Finished] \/ gather' = [gather EXCEPT ![g] = n]
  BY DEF Release, At, records
<1>2. n \in GatherState /\ n.pc = pc /\ n.added = r.added /\ n.failed = r.failed
  <2>1. pc \in Stage /\ r \in GatherState /\ slots \in Slots
    BY StageNames DEF TypeOK
  <2> HIDE DEF r, pc
  <2> QED BY <2>1 DEF GatherState
<1> HIDE DEF n
<1>3. \E m \in {n, Finished} : gather' = [gather EXCEPT ![g] = m]
  BY <1>1
<1>4. /\ gather' \in [Gather -> GatherState] /\ Alone(g)
      /\ gather'[g] \in {n, Finished}
  BY <1>2, <1>3, Records DEF TypeOK, Alone
<1> QED BY <1>1, <1>2, <1>4, Records DEF TypeOK

LEMMA DropFields ==
  ASSUME TypeOK, NEW g \in Gather, Drop(g)
  PROVE  /\ TypeOK' /\ Alone(g) /\ gather[g].pc = "freeing"
         /\ \/ gather'[g].pc = "done"
            \/ /\ gather'[g].pc = "releasing" /\ gather'[g].added = gather[g].added
               /\ gather'[g].failed = gather[g].failed
         /\ slots'[g] \in {slots[g], Absent}
         /\ \A o \in Gather \ {g} : slots'[o] = slots[o]
         /\ UNCHANGED <<store, file, home, beat>>
<1> USE DEF TypeOK
<1> DEFINE t == gather[g].tries - 1
           r == gather[g]
           pc == "releasing"
           n == [r EXCEPT !.pc = pc, !.snap = NoSlots, !.tries = t]
           s == gather[g].snap
<1>0. gather[g] \in GatherState /\ s \in Slots /\ gather[g].tries \in 1..Tries
  BY DEF GatherState
<1>1. /\ gather[g].pc = "freeing" /\ UNCHANGED <<store, file, home, beat>>
      /\ \/ slots = s /\ slots' = [s EXCEPT ![g] = Absent] /\ gather' = [gather EXCEPT ![g] = Finished]
         \/ UNCHANGED slots /\ gather' = [gather EXCEPT ![g] = Finished]
         \/ UNCHANGED slots /\ gather[g].tries # 1 /\ gather' = [gather EXCEPT ![g] = n]
  BY DEF Drop, At, Wins
<1>2. r.tries # 1 => n \in GatherState /\ n.pc = pc /\ n.added = r.added /\ n.failed = r.failed
  <2>1. pc \in Stage /\ r \in GatherState /\ (r.tries # 1 => t \in 1..Tries)
    BY <1>0, StageNames, Constants
  <2> HIDE DEF t, r, pc
  <2> QED BY <2>1, Records DEF GatherState
<1> HIDE DEF n, s
<1>3. \E m \in {n, Finished} : m \in GatherState /\ gather' = [gather EXCEPT ![g] = m] /\ (m = n => gather[g].tries # 1 \/ n = Finished)
  BY <1>1, <1>2, Records
<1>4. gather' \in [Gather -> GatherState] /\ Alone(g) /\ gather'[g] \in {n, Finished}
      /\ (gather'[g] = n => gather[g].tries # 1 \/ n = Finished)
  BY <1>3 DEF Alone
<1>5. slots' \in Slots /\ slots'[g] \in {slots[g], Absent} /\ \A o \in Gather \ {g} : slots'[o] = slots[o]
  <2>1. CASE UNCHANGED slots
    BY <2>1
  <2>2. CASE slots = s /\ slots' = [s EXCEPT ![g] = Absent]
    BY <1>0, <2>2, Constants DEF Slots, Absent
  <2> QED BY <1>1, <2>1, <2>2
<1> QED BY <1>1, <1>2, <1>4, <1>5, Records

LEMMA BeatFields ==
  ASSUME TypeOK, NEW g \in Gather, Beat(g)
  PROVE  /\ TypeOK' /\ BeatAlone(g) /\ gather[g].pc \in Running /\ ~beat[g].busy /\ beat[g].due = Interval
         /\ \/ slots[g] = Absent /\ ~beat'[g].busy /\ beat'[g].due = 0
            \/ /\ slots[g] # Absent /\ beat'[g].busy /\ beat'[g].snap = slots /\ beat'[g].age = 0
               /\ beat'[g].due = 0
         /\ UNCHANGED <<slots, store, file, home, gather>>
<1> USE DEF TypeOK
<1> DEFINE yes == TRUE
           b == [Idle EXCEPT !.busy = yes, !.snap = slots]
<1>1. /\ gather[g].pc \in Running /\ ~beat[g].busy /\ beat[g].due = Interval
      /\ beat' = [beat EXCEPT ![g] = IF slots[g] = Absent THEN Idle ELSE b]
      /\ UNCHANGED <<slots, store, file, home, gather>>
  BY DEF Beat, records
<1>2. b \in BeatState /\ b.busy = yes /\ b.snap = slots /\ b.age = Idle.age /\ b.due = Idle.due
  <2>1. yes \in BOOLEAN
    OBVIOUS
  <2> HIDE DEF yes
  <2> QED BY <2>1, Records DEF BeatState
<1>3. Idle.age = 0 /\ Idle.due = 0
  BY DEF Idle
<1>4. b.busy
  BY <1>2
<1> HIDE DEF b
<1> QED BY <1>1, <1>2, <1>3, <1>4, Records DEF BeatAlone

LEMMA RenewFields ==
  ASSUME TypeOK, NEW g \in Gather, Renew(g)
  PROVE  /\ TypeOK' /\ BeatAlone(g) /\ beat[g].busy
         /\ \/ /\ slots = beat[g].snap /\ slots'[g] = Left(beat[g].age)
               /\ \A o \in Gather \ {g} : slots'[o] = slots[o]
               /\ ~beat'[g].busy /\ beat'[g].due = beat[g].due
            \/ /\ slots # beat[g].snap /\ UNCHANGED slots
               /\ beat[g].tries = 1 \/ slots[g] = Absent
               /\ ~beat'[g].busy /\ beat'[g].due = beat[g].due
            \/ /\ slots[g] # Absent /\ UNCHANGED slots
               /\ beat'[g].busy /\ beat'[g].snap = slots /\ beat'[g].age = beat[g].age
               /\ beat'[g].due = beat[g].due
         /\ UNCHANGED <<store, file, home, gather>>
<1> USE DEF TypeOK
<1> DEFINE due == beat[g].due
           t == beat[g].tries - 1
           s == beat[g].snap
           i == [Idle EXCEPT !.due = due]
           b == [beat[g] EXCEPT !.snap = slots, !.tries = t]
           won == slots' = [s EXCEPT ![g] = Left(beat[g].age)]
<1>0. beat[g] \in BeatState /\ s \in Slots /\ beat[g].tries \in 1..Tries /\ due \in 0..Interval
      /\ beat[g].age \in 0..Delay
  BY DEF BeatState
<1>1. /\ beat[g].busy /\ UNCHANGED <<store, file, home, gather>>
      /\ \/ slots = s /\ won /\ beat' = [beat EXCEPT ![g] = i]
         \/ /\ slots # s /\ UNCHANGED slots /\ (beat[g].tries = 1 \/ slots[g] = Absent)
            /\ beat' = [beat EXCEPT ![g] = i]
         \/ /\ UNCHANGED slots /\ beat[g].tries # 1 /\ slots[g] # Absent
            /\ beat' = [beat EXCEPT ![g] = b]
  BY DEF Renew, Wins
<1>2. i \in BeatState /\ i.due = due /\ ~i.busy
  <2> HIDE DEF due
  <2> QED BY <1>0, Records DEF BeatState
<1>3. beat[g].tries # 1 => /\ b \in BeatState /\ b.busy = beat[g].busy /\ b.snap = slots
                           /\ b.age = beat[g].age /\ b.due = beat[g].due
  <2>1. beat[g].tries # 1 => t \in 1..Tries
    BY <1>0, Constants
  <2> DEFINE a == beat[g]
  <2>2. a \in BeatState
    OBVIOUS
  <2>3. a.tries # 1 => LET m == [a EXCEPT !.snap = slots, !.tries = t]
                       IN  m \in BeatState /\ m.busy = a.busy /\ m.snap = slots /\ m.age = a.age /\ m.due = a.due
    <3> HIDE DEF t, a
    <3> QED BY <2>1, <2>2 DEF BeatState, a
  <2> QED BY <2>3
<1>4. won => slots' \in Slots /\ slots'[g] = Left(beat[g].age) /\ \A o \in Gather \ {g} : slots'[o] = s[o]
  BY <1>0, LeftIn, Constants DEF Slots, Absent
<1> HIDE DEF i, b, won, due, s
<1>5. CASE slots = s /\ won /\ beat' = [beat EXCEPT ![g] = i]
  BY <1>1, <1>2, <1>4, <1>5 DEF BeatAlone, s, due
<1>6. CASE /\ slots # s /\ UNCHANGED slots /\ (beat[g].tries = 1 \/ slots[g] = Absent)
           /\ beat' = [beat EXCEPT ![g] = i]
  BY <1>1, <1>2, <1>6 DEF BeatAlone, s, due
<1>7. CASE /\ UNCHANGED slots /\ beat[g].tries # 1 /\ slots[g] # Absent
           /\ beat' = [beat EXCEPT ![g] = b]
  BY <1>1, <1>3, <1>7 DEF BeatAlone
<1> QED BY <1>1, <1>5, <1>6, <1>7
LEMMA HydrateFields ==
  ASSUME TypeOK, NEW g \in Gather, Hydrate(g)
  PROVE  /\ TypeOK' /\ Alone(g) /\ gather[g].pc = "hydrating" /\ gather'[g].pc = "gathering"
         /\ gather'[g].added = gather[g].added /\ gather'[g].tries = gather[g].tries
         /\ \A h \in Host \ {home[g]} : file'[h] = file[h]
         /\ UNCHANGED <<slots, store, home, beat>>
<1> USE DEF TypeOK
<1> DEFINE r == gather[g]
           pc == "gathering"
           n == [r EXCEPT !.pc = pc]
<1>1. /\ gather' = [gather EXCEPT ![g] = n] /\ gather[g].pc = "hydrating"
      /\ file' \in {file, [file EXCEPT ![home[g]] = store]}
      /\ UNCHANGED <<slots, store, home, beat>>
  BY DEF Hydrate, At
<1>2. n \in GatherState /\ n.pc = pc /\ n.added = r.added /\ n.tries = r.tries
  <2>1. pc \in Stage /\ r \in GatherState
    BY StageNames
  <2> HIDE DEF r, pc
  <2> QED BY <2>1 DEF GatherState
<1> HIDE DEF n
<1>3. gather' \in [Gather -> GatherState] /\ gather'[g] = n /\ Alone(g)
  BY <1>1, <1>2 DEF Alone
<1>4. file' \in [Host -> Map] /\ \A h \in Host \ {home[g]} : file'[h] = file[h]
  BY <1>1
<1> QED BY <1>1, <1>2, <1>3, <1>4

LEMMA LookUpFields ==
  ASSUME TypeOK, NEW g \in Gather, NEW k \in Key, LookUp(g, k)
  PROVE  /\ TypeOK' /\ Alone(g) /\ gather[g].pc = "gathering" /\ gather'[g].pc = "saving"
         /\ gather'[g].tries = gather[g].tries
         /\ \A l \in Key : /\ gather'[g].map[l] >= file[home[g]][l]
                           /\ \/ l = k /\ gather'[g].map[l] >= gather'[g].added[l]
                              \/ gather'[g].added[l] = gather[g].added[l]
         /\ UNCHANGED <<slots, store, file, home, beat>>
<1> USE DEF TypeOK
<1> DEFINE r == gather[g]
           pc == "saving"
           stamp == file[home[g]][k] + 1
           added == [r.added EXCEPT ![k] = stamp]
           map == Merge(file[home[g]], [NoMap EXCEPT ![k] = stamp])
           n == [r EXCEPT !.pc = pc, !.added = added, !.map = map]
<1>1. /\ gather' = [gather EXCEPT ![g] = n] /\ gather[g].pc = "gathering" /\ stamp <= MaxStamp
      /\ UNCHANGED <<slots, store, file, home, beat>>
  BY DEF LookUp, At, records
<1>2. r \in GatherState /\ r.added \in Map /\ file[home[g]] \in Map
  BY DEF GatherState
<1>3. stamp \in 0..MaxStamp
  BY <1>1, <1>2, Constants DEF Map
<1> HIDE DEF stamp
<1>4. /\ added \in Map /\ [NoMap EXCEPT ![k] = stamp] \in Map
      /\ added[k] = stamp /\ [NoMap EXCEPT ![k] = stamp][k] = stamp
      /\ \A l \in Key : l # k => added[l] = r.added[l]
  BY <1>2, <1>3, Records DEF Map
<1>5. map \in Map /\ \A l \in Key : map[l] >= file[home[g]][l] /\ (l = k => map[l] >= added[l])
  BY <1>2, <1>4, MergeIn
<1>6. n \in GatherState /\ n.pc = pc /\ n.added = added /\ n.map = map /\ n.tries = r.tries
  <2>1. pc \in Stage /\ r \in GatherState
    BY StageNames
  <2> HIDE DEF r, pc, added, map
  <2> QED BY <1>4, <1>5, <2>1 DEF GatherState
<1> HIDE DEF n, added, map
<1>7. gather' \in [Gather -> GatherState] /\ gather'[g] = n /\ Alone(g)
  BY <1>1, <1>6 DEF Alone
<1> QED BY <1>1, <1>4, <1>5, <1>6, <1>7

LEMMA SaveFields ==
  ASSUME TypeOK, NEW g \in Gather, Save(g)
  PROVE  /\ TypeOK' /\ Alone(g) /\ gather[g].pc = "saving" /\ gather'[g].pc = "gathering"
         /\ gather'[g].added = gather[g].added /\ gather'[g].tries = gather[g].tries
         /\ file'[home[g]] = gather[g].map
         /\ \A h \in Host \ {home[g]} : file'[h] = file[h]
         /\ UNCHANGED <<slots, store, home, beat>>
<1> USE DEF TypeOK
<1> DEFINE r == gather[g]
           pc == "gathering"
           n == [r EXCEPT !.pc = pc, !.map = NoMap]
<1>1. /\ gather' = [gather EXCEPT ![g] = n] /\ gather[g].pc = "saving"
      /\ file' = [file EXCEPT ![home[g]] = r.map]
      /\ UNCHANGED <<slots, store, home, beat>>
  BY DEF Save, At
<1>2. n \in GatherState /\ n.pc = pc /\ n.added = r.added /\ n.tries = r.tries /\ r.map \in Map
  <2>1. pc \in Stage /\ r \in GatherState
    BY StageNames
  <2> HIDE DEF r, pc
  <2> QED BY <2>1, Records DEF GatherState
<1> HIDE DEF n
<1>3. gather' \in [Gather -> GatherState] /\ gather'[g] = n /\ Alone(g)
  BY <1>1, <1>2 DEF Alone
<1>4. file' \in [Host -> Map] /\ file'[home[g]] = r.map /\ \A h \in Host \ {home[g]} : file'[h] = file[h]
  BY <1>1, <1>2
<1> QED BY <1>1, <1>2, <1>3, <1>4

LEMMA PersistFields ==
  ASSUME TypeOK, NEW g \in Gather, Persist(g)
  PROVE  /\ TypeOK' /\ Alone(g) /\ gather[g].pc = "gathering" /\ gather'[g].pc = "persisting"
         /\ gather'[g].added = gather[g].added /\ gather'[g].tries = gather[g].tries
         /\ gather'[g].map = file[home[g]]
         /\ UNCHANGED <<slots, store, file, home, beat>>
<1> USE DEF TypeOK
<1> DEFINE r == gather[g]
           pc == "persisting"
           map == file[home[g]]
           n == [r EXCEPT !.pc = pc, !.map = map]
<1>1. /\ gather' = [gather EXCEPT ![g] = n] /\ gather[g].pc = "gathering"
      /\ UNCHANGED <<slots, store, file, home, beat>>
  BY DEF Persist, At, records
<1>2. n \in GatherState /\ n.pc = pc /\ n.added = r.added /\ n.tries = r.tries /\ n.map = map
  <2>1. pc \in Stage /\ r \in GatherState /\ map \in Map
    BY StageNames
  <2> HIDE DEF r, pc, map
  <2> QED BY <2>1 DEF GatherState
<1> HIDE DEF n
<1>3. gather' \in [Gather -> GatherState] /\ gather'[g] = n /\ Alone(g)
  BY <1>1, <1>2 DEF Alone
<1> QED BY <1>1, <1>2, <1>3

LEMMA MergeReadFields ==
  ASSUME TypeOK, NEW g \in Gather, MergeRead(g)
  PROVE  /\ TypeOK' /\ Alone(g) /\ gather[g].pc = "persisting" /\ gather'[g].pc = "merging"
         /\ gather'[g].added = gather[g].added /\ gather'[g].tries = gather[g].tries
         /\ gather'[g].map = gather[g].map /\ gather'[g].seen = store
         /\ UNCHANGED <<slots, store, file, home, beat>>
<1> USE DEF TypeOK
<1> DEFINE r == gather[g]
           pc == "merging"
           n == [r EXCEPT !.pc = pc, !.seen = store]
<1>1. /\ gather' = [gather EXCEPT ![g] = n] /\ gather[g].pc = "persisting"
      /\ UNCHANGED <<slots, store, file, home, beat>>
  BY DEF MergeRead, At, records
<1>2. n \in GatherState /\ n.pc = pc /\ n.added = r.added /\ n.tries = r.tries /\ n.map = r.map
      /\ n.seen = store
  <2>1. pc \in Stage /\ r \in GatherState
    BY StageNames
  <2> HIDE DEF r, pc
  <2> QED BY <2>1 DEF GatherState
<1> HIDE DEF n
<1>3. gather' \in [Gather -> GatherState] /\ gather'[g] = n /\ Alone(g)
  BY <1>1, <1>2 DEF Alone
<1> QED BY <1>1, <1>2, <1>3

LEMMA MergePutFields ==
  ASSUME TypeOK, NEW g \in Gather, MergePut(g)
  PROVE  /\ TypeOK' /\ Alone(g) /\ gather[g].pc = "merging" /\ gather'[g].added = gather[g].added
         /\ \/ /\ store = gather[g].seen /\ gather'[g].pc = "releasing"
               /\ \A k \in Key : store'[k] >= store[k] /\ store'[k] >= gather[g].map[k]
            \/ /\ store # gather[g].seen /\ UNCHANGED store
               /\ gather[g].tries = 1 /\ gather'[g].pc = "releasing"
            \/ /\ store # gather[g].seen /\ UNCHANGED store
               /\ gather'[g].pc = "persisting" /\ gather'[g].map = gather[g].map
               /\ gather'[g].tries = gather[g].tries - 1
         /\ UNCHANGED <<slots, file, home, beat>>
<1> USE DEF TypeOK
<1> DEFINE r == gather[g]
           over == "releasing"
           again == "persisting"
           added == r.added
           t == r.tries - 1
           e == [Queued EXCEPT !.pc = over, !.added = added]
           n == [r EXCEPT !.pc = again, !.seen = NoMap, !.tries = t]
<1>1. /\ gather[g].pc = "merging" /\ UNCHANGED <<slots, file, home, beat>>
      /\ \/ store = r.seen /\ store' = Merge(r.seen, r.map) /\ gather' = [gather EXCEPT ![g] = e]
         \/ store # r.seen /\ UNCHANGED store /\ r.tries = 1 /\ gather' = [gather EXCEPT ![g] = e]
         \/ store # r.seen /\ UNCHANGED store /\ r.tries # 1 /\ gather' = [gather EXCEPT ![g] = n]
  BY DEF MergePut, Merged, At, Wins
<1>2. r \in GatherState /\ added \in Map /\ r.map \in Map /\ r.seen \in Map /\ r.tries \in 1..Tries
  BY DEF GatherState
<1>3. e \in GatherState /\ e.pc = over /\ e.added = added
  <2>1. over \in Stage
    BY StageNames
  <2> HIDE DEF over, added
  <2> QED BY <1>2, <2>1, Records DEF GatherState
<1>4. r.tries # 1 => n \in GatherState /\ n.pc = again /\ n.added = added /\ n.map = r.map /\ n.tries = t
  <2>1. again \in Stage /\ (r.tries # 1 => t \in 1..Tries) /\ added = r.added
    BY <1>2, StageNames, Constants
  <2> HIDE DEF r, again, t, added
  <2> QED BY <1>2, <2>1, Records DEF GatherState
<1>5. Merge(r.seen, r.map) \in Map /\ \A k \in Key : /\ Merge(r.seen, r.map)[k] >= r.seen[k]
                                                    /\ Merge(r.seen, r.map)[k] >= r.map[k]
  BY <1>2, MergeIn
<1> HIDE DEF e, n
<1>6. CASE gather' = [gather EXCEPT ![g] = e]
  <2>1. gather' \in [Gather -> GatherState] /\ gather'[g] = e /\ Alone(g)
    BY <1>3, <1>6 DEF Alone
  <2>2. store' \in Map
    BY <1>1, <1>5
  <2>3. \/ store = r.seen /\ \A k \in Key : store'[k] >= store[k] /\ store'[k] >= r.map[k]
        \/ store # r.seen /\ UNCHANGED store /\ r.tries = 1
        \/ store # r.seen /\ UNCHANGED store /\ r.tries # 1 /\ e = n
    BY <1>1, <1>5, <1>6, <2>1
  <2> QED BY <1>1, <1>3, <1>4, <2>1, <2>2, <2>3
<1>7. CASE store # r.seen /\ UNCHANGED store /\ r.tries # 1 /\ gather' = [gather EXCEPT ![g] = n]
  <2>1. gather' \in [Gather -> GatherState] /\ gather'[g] = n /\ Alone(g)
    BY <1>4, <1>7 DEF Alone
  <2> QED BY <1>1, <1>4, <1>7, <2>1
<1> QED BY <1>1, <1>6, <1>7

LEMMA GivenUp ==
  ASSUME TypeOK, NEW g \in Gather, GiveUp(g)
  PROVE  /\ gather' \in [Gather -> GatherState] /\ Alone(g) /\ gather'[g].pc = "releasing"
         /\ gather'[g].added = NoMap /\ gather'[g].failed
<1> DEFINE over == "releasing"
           yes == TRUE
           n == [Queued EXCEPT !.pc = over, !.failed = yes]
<1>1. n \in GatherState /\ n.pc = over /\ n.added = NoMap /\ n.failed = yes
  <2>1. over \in Stage /\ yes \in BOOLEAN
    BY StageNames
  <2> HIDE DEF over, yes
  <2> QED BY <2>1, Records DEF GatherState
<1>2. gather' = [gather EXCEPT ![g] = n]
  BY DEF GiveUp
<1> HIDE DEF n
<1> QED BY <1>1, <1>2 DEF TypeOK, Alone

LEMMA MergeFailsFields ==
  ASSUME TypeOK, NEW g \in Gather, MergeFails(g)
  PROVE  /\ TypeOK' /\ Alone(g) /\ gather[g].pc \in {"persisting", "merging"}
         /\ gather'[g].pc = "releasing" /\ gather'[g].failed
         /\ \A k \in Key : store'[k] >= store[k]
         /\ UNCHANGED <<slots, file, home, beat>>
<1>1. /\ gather[g].pc \in {"persisting", "merging"} /\ UNCHANGED <<slots, file, home, beat>> /\ GiveUp(g)
      /\ \/ store' = store
         \/ store = gather[g].seen /\ store' = Merge(gather[g].seen, gather[g].map)
  BY DEF MergeFails, Wins
<1>2. store \in Map /\ gather[g].map \in Map /\ \A k \in Key : store[k] \in Nat
  BY Constants DEF TypeOK, GatherState, Map
<1>3. store' \in Map /\ \A k \in Key : store'[k] >= store[k]
  BY <1>1, <1>2, MergeIn
<1> QED BY <1>1, <1>3, GivenUp DEF TypeOK

LEMMA EndFields ==
  ASSUME TypeOK, NEW g \in Gather, Fail(g) \/ Crash(g)
  PROVE  /\ TypeOK' /\ Alone(g) /\ BeatAlone(g) /\ gather[g].pc \in Running /\ gather'[g].added = NoMap
         /\ \/ gather'[g].pc = "releasing" /\ gather'[g].failed /\ UNCHANGED beat
            \/ gather'[g].pc = "dead" /\ ~beat'[g].busy
         /\ UNCHANGED <<slots, store, file, home>>
<1> USE DEF TypeOK
<1>1. CASE Fail(g)
  <2>1. GiveUp(g) /\ gather[g].pc \in Running /\ UNCHANGED <<slots, store, file, home, beat>>
    BY <1>1 DEF Fail, records, Running
  <2> QED BY <2>1, GivenUp DEF BeatAlone
<1>2. CASE Crash(g)
  <2> DEFINE pc == "dead"
             n == [Queued EXCEPT !.pc = pc]
  <2>1. n \in GatherState /\ n.pc = pc /\ n.added = NoMap
    <3>1. pc \in Stage
      BY StageNames
    <3> HIDE DEF pc
    <3> QED BY <3>1, Records DEF GatherState
  <2>2. /\ gather' = [gather EXCEPT ![g] = n] /\ gather[g].pc \in Running
        /\ beat' = [beat EXCEPT ![g] = Idle] /\ UNCHANGED <<slots, store, file, home>>
    BY <1>2 DEF Crash, records
  <2> HIDE DEF n
  <2>3. gather' \in [Gather -> GatherState] /\ gather'[g] = n /\ Alone(g)
    BY <2>1, <2>2 DEF Alone
  <2>4. beat' \in [Gather -> BeatState] /\ BeatAlone(g) /\ ~beat'[g].busy
    BY <2>2, Records DEF BeatAlone
  <2> QED BY <2>1, <2>2, <2>3, <2>4
<1> QED BY <1>1, <1>2

\* Time passes: the records of the slots, and every copy of them, are a tick older.
LEMMA TickFields ==
  ASSUME TypeOK, Tick
  PROVE  /\ TypeOK' /\ slots' = Later(slots) /\ UNCHANGED <<store, file, home>>
         /\ \A g \in Gather :
              /\ gather'[g].pc = gather[g].pc /\ gather'[g].map = gather[g].map
              /\ gather'[g].seen = gather[g].seen /\ gather'[g].added = gather[g].added
              /\ gather'[g].tries = gather[g].tries /\ gather'[g].failed = gather[g].failed
              /\ gather[g].pc = "admitting" => gather'[g].snap = Later(gather[g].snap)
              /\ beat'[g].busy = beat[g].busy /\ beat'[g].snap = Later(beat[g].snap)
              /\ beat'[g].age = IF beat[g].busy THEN beat[g].age + 1 ELSE beat[g].age
              /\ beat'[g].due = IF gather[g].pc \notin Running THEN 0
                                ELSE IF beat[g].due < Interval THEN beat[g].due + 1 ELSE beat[g].due
              /\ gather[g].pc \in Running => beat[g].due < Interval \/ "lapse" \in Faults
<1> USE DEF TypeOK
<1> DEFINE Asks(g) == gather[g].pc \in {"admitting", "freeing"}
           n(g) == [gather[g] EXCEPT !.snap = Later(gather[g].snap), !.age = gather[g].age + 1]
           age(g) == IF beat[g].busy THEN beat[g].age + 1 ELSE beat[g].age
           due(g) == IF gather[g].pc \notin Running THEN 0
                     ELSE IF beat[g].due < Interval THEN beat[g].due + 1 ELSE beat[g].due
           b(g) == [beat[g] EXCEPT !.snap = Later(beat[g].snap), !.age = age(g), !.due = due(g)]
<1>1. /\ slots' = Later(slots) /\ UNCHANGED <<store, file, home>>
      /\ gather' = [g \in Gather |-> IF Asks(g) THEN n(g) ELSE gather[g]]
      /\ beat' = [g \in Gather |-> b(g)]
      /\ \A g \in Gather : /\ Asks(g) => gather[g].age < Delay
                           /\ beat[g].busy => beat[g].age < Delay
                           /\ gather[g].pc \in Running => beat[g].due < Interval \/ "lapse" \in Faults
  BY DEF Tick
<1>2. ASSUME NEW g \in Gather, Asks(g)
      PROVE  /\ n(g) \in GatherState /\ n(g).pc = gather[g].pc /\ n(g).map = gather[g].map
             /\ n(g).seen = gather[g].seen /\ n(g).added = gather[g].added
             /\ n(g).tries = gather[g].tries /\ n(g).failed = gather[g].failed /\ n(g).snap = Later(gather[g].snap)
  <2> DEFINE r == gather[g]
             snap == Later(r.snap)
             old == r.age + 1
  <2>1. r \in GatherState /\ snap \in Slots /\ old \in 0..Delay
    <3>1. r \in GatherState
      OBVIOUS
    <3>2. r.snap \in Slots /\ r.age \in 0..Delay
      BY <3>1 DEF GatherState
    <3>3. r.age < Delay
      BY <1>1, <1>2
    <3> QED BY <3>1, <3>2, <3>3, LaterIn, Constants
  <2>2. LET m == [r EXCEPT !.snap = snap, !.age = old]
        IN  /\ m \in GatherState /\ m.pc = r.pc /\ m.map = r.map /\ m.seen = r.seen
            /\ m.added = r.added /\ m.tries = r.tries /\ m.failed = r.failed /\ m.snap = snap
    <3> HIDE DEF r, snap, old
    <3> QED BY <2>1 DEF GatherState
  <2> QED BY <2>2
<1>3. ASSUME NEW g \in Gather
      PROVE  /\ b(g) \in BeatState /\ b(g).busy = beat[g].busy /\ b(g).snap = Later(beat[g].snap)
             /\ b(g).age = age(g) /\ b(g).due = due(g)
  <2> DEFINE r == beat[g]
             snap == Later(r.snap)
             old == age(g)
             d == due(g)
  <2>1. r \in BeatState /\ snap \in Slots /\ old \in 0..Delay /\ d \in 0..Interval
    <3>1. r \in BeatState
      OBVIOUS
    <3>2. r.snap \in Slots /\ r.age \in 0..Delay /\ r.due \in 0..Interval
      BY <3>1 DEF BeatState
    <3>3. snap \in Slots
      BY <3>2, LaterIn
    <3>4. old \in 0..Delay
      <4>1. r.busy => r.age < Delay
        BY <1>1
      <4> QED BY <3>2, <4>1, Constants
    <3>5. d \in 0..Interval
      BY <3>2, Constants
    <3> QED BY <3>1, <3>3, <3>4, <3>5
  <2>2. LET m == [r EXCEPT !.snap = snap, !.age = old, !.due = d]
        IN  m \in BeatState /\ m.busy = r.busy /\ m.snap = snap /\ m.age = old /\ m.due = d
    <3> HIDE DEF r, snap, old, d
    <3> QED BY <2>1 DEF BeatState
  <2> QED BY <2>2
<1> HIDE DEF n, b
<1>4. gather' \in [Gather -> GatherState] /\ beat' \in [Gather -> BeatState]
  BY <1>1, <1>2, <1>3
<1>5. slots' \in Slots
  BY <1>1, LaterIn
<1>6. \A g \in Gather : gather[g].pc = "admitting" => Asks(g)
  OBVIOUS
<1>7. \A g \in Gather : gather'[g] = (IF Asks(g) THEN n(g) ELSE gather[g]) /\ beat'[g] = b(g)
  BY <1>1
<1> HIDE DEF Asks
<1> QED BY <1>1, <1>2, <1>3, <1>4, <1>5, <1>6, <1>7

LEMMA MapFields ==
  ASSUME TypeOK, NEW g \in Gather, Maps(g)
  PROVE  /\ TypeOK' /\ Alone(g) /\ gather[g].pc \in Running
         /\ gather'[g].pc \in (Running \ {"hydrating"}) \cup {"releasing"}
         /\ UNCHANGED <<slots, home, beat>>
<1>1. CASE Hydrate(g)
  BY <1>1, HydrateFields DEF Running
<1>2. CASE Save(g)
  BY <1>2, SaveFields DEF Running
<1>3. CASE Persist(g)
  BY <1>3, PersistFields DEF Running
<1>4. CASE MergeRead(g)
  BY <1>4, MergeReadFields DEF Running
<1>5. CASE MergePut(g)
  BY <1>5, MergePutFields DEF Running
<1>6. CASE \E k \in Key : LookUp(g, k)
  BY <1>6, LookUpFields DEF Running
<1>7. CASE MergeFails(g)
  BY <1>7, MergeFailsFields DEF Running
<1> QED BY <1>1, <1>2, <1>3, <1>4, <1>5, <1>6, <1>7 DEF Maps

LEMMA InitTyped == Init => TypeOK
<1> SUFFICES ASSUME Init
             PROVE  TypeOK
  OBVIOUS
<1> QED BY Records DEF Init, TypeOK

\* The record and every copy of it, the maps and the gathers keep their types, under
\* every fault and any timing.
THEOREM FleetTypes == Spec => []TypeOK
<1>1. TypeOK /\ [Next]_vars => TypeOK'
  <2> SUFFICES ASSUME TypeOK, [Next]_vars
               PROVE  TypeOK'
    OBVIOUS
  <2>1. CASE \E g \in Gather : Slot(g)
    BY <2>1, AskFields, AdmitFields, ReleaseFields, DropFields DEF Slot
  <2>2. CASE \E g \in Gather : Maps(g)
    BY <2>2, MapFields
  <2>3. CASE \E g \in Gather : Heart(g)
    BY <2>3, BeatFields, RenewFields DEF Heart
  <2>4. CASE \E g \in Gather : Fail(g) \/ Crash(g)
    BY <2>4, EndFields
  <2>5. CASE Tick
    BY <2>5, TickFields
  <2>6. CASE UNCHANGED vars
    BY <2>6 DEF vars, records, TypeOK
  <2> QED BY <2>1, <2>2, <2>3, <2>4, <2>5, <2>6 DEF Next
<1> QED BY <1>1, InitTyped, PTL DEF Spec

(***************************************************************************)
(* The record never holds more than Cap slots.                             *)
(***************************************************************************)

\* There is room for a gather that is being admitted, by the record it has read; and
\* a renewal is of a slot that the record it has read holds.
SlotsInv ==
  /\ SlotsWithinCap
  /\ \A g \in Gather : At(g, "admitting") => Cardinality(LiveIn(gather[g].snap) \ {g}) < Cap
  /\ \A g \in Gather : beat[g].busy => beat[g].snap[g] # Absent

LEMMA Counts ==
  ASSUME NEW S \in SUBSET Gather
  PROVE  /\ IsFiniteSet(S) /\ Cardinality(S) \in Nat
         /\ \A T \in SUBSET S : Cardinality(T) \in Nat /\ Cardinality(T) <= Cardinality(S)
         /\ \A g \in S : Cardinality(S \ {g}) < Cardinality(S)
         /\ \A g : Cardinality(S \cup {g}) <= Cardinality(S) + 1
<1>1. IsFiniteSet(S)
  BY ConstantsAssumption, FS_Subset
<1>2. Cardinality(S) \in Nat
  BY <1>1, FS_CardinalityType
<1>3. \A T \in SUBSET S : IsFiniteSet(T) /\ Cardinality(T) <= Cardinality(S)
  BY <1>1, FS_Subset
<1>4. \A T \in SUBSET S : Cardinality(T) \in Nat
  BY <1>3, FS_CardinalityType
<1>5. \A g \in S : Cardinality(S \ {g}) = Cardinality(S) - 1
  BY <1>1, FS_RemoveElement
<1>6. \A g : Cardinality(S \cup {g}) = IF g \in S THEN Cardinality(S) ELSE Cardinality(S) + 1
  BY <1>1, FS_AddElement
<1> QED BY <1>1, <1>2, <1>3, <1>4, <1>5, <1>6

LEMMA LiveEntries == \A s \in Slots : /\ LiveIn(s) \subseteq Entries(s) /\ Entries(s) \subseteq Gather
                                      /\ Entries(Later(s)) = Entries(s) /\ LiveIn(Later(s)) \subseteq LiveIn(s)
<1> SUFFICES ASSUME NEW s \in Slots
             PROVE  /\ LiveIn(s) \subseteq Entries(s) /\ Entries(s) \subseteq Gather
                    /\ Entries(Later(s)) = Entries(s) /\ LiveIn(Later(s)) \subseteq LiveIn(s)
  OBVIOUS
<1>1. \A g \in Gather : s[g] \in Absent..TTL /\ Later(s)[g] = IF s[g] > 0 THEN s[g] - 1 ELSE s[g]
  BY LaterIn DEF Slots
<1> QED BY <1>1, Constants DEF LiveIn, Entries, Absent

\* Fewer entries and no new admissions or renewals.
LEMMA SlotsFewer ==
  ASSUME SlotsInv, TypeOK, Entries(slots') \subseteq Entries(slots),
         \A g \in Gather : gather'[g].pc = "admitting" => gather'[g] = gather[g],
         \A g \in Gather : beat'[g].busy => beat'[g] = beat[g]
  PROVE  SlotsInv'
<1>1. Cardinality(Entries(slots')) \in Nat /\ Cardinality(Entries(slots')) <= Cardinality(Entries(slots))
      /\ Cardinality(Entries(slots)) \in Nat
  BY Counts, LiveEntries DEF TypeOK
<1>2. SlotsWithinCap'
  BY <1>1, Constants DEF SlotsInv, SlotsWithinCap
<1> QED BY <1>2 DEF SlotsInv, At

LEMMA SlotsInvStep ==
  ASSUME TypeOK, SlotsInv, [Next]_vars
  PROVE  SlotsInv'
<1>1. ASSUME NEW g \in Gather, Ask(g)
      PROVE  SlotsInv'
  <2>0. /\ Alone(g) /\ Free(slots, g) /\ gather'[g].snap = slots
        /\ UNCHANGED <<slots, store, file, home, beat>>
    BY <1>1, AskFields
  <2>1. LiveIn(slots) \subseteq Entries(slots) /\ Entries(slots) \subseteq Gather
    BY LiveEntries DEF TypeOK
  <2>2. /\ Cardinality(Entries(slots)) \in Nat /\ Cardinality(LiveIn(slots)) \in Nat
        /\ Cardinality(LiveIn(slots)) <= Cardinality(Entries(slots))
        /\ Cardinality(LiveIn(slots) \ {g}) \in Nat
        /\ Cardinality(LiveIn(slots) \ {g}) <= Cardinality(LiveIn(slots))
        /\ g \in LiveIn(slots) => Cardinality(LiveIn(slots) \ {g}) < Cardinality(LiveIn(slots))
    BY <2>1, Counts
  <2>3. Cardinality(LiveIn(slots) \ {g}) < Cap
    <3>1. CASE slots[g] > 0
      BY <2>2, <3>1, Constants DEF SlotsInv, SlotsWithinCap, LiveIn
    <3>2. CASE ~(slots[g] > 0)
      BY <2>0, <2>2, <3>2, Constants DEF Free
    <3> QED BY <3>1, <3>2
  <2> QED BY <2>0, <2>3 DEF SlotsInv, SlotsWithinCap, Alone, At
<1>2. ASSUME NEW g \in Gather, Admit(g)
      PROVE  SlotsInv'
  <2>0. Alone(g) /\ BeatAlone(g) /\ gather[g].pc = "admitting" /\ TypeOK'
    BY <1>2, AdmitFields
  <2>1. CASE gather'[g].pc = "queued" /\ UNCHANGED <<slots, beat>>
    BY <2>0, <2>1, SlotsFewer DEF Alone
  <2>2. CASE /\ slots = gather[g].snap
             /\ \A o \in Gather \ {g} : slots'[o] = IF slots[o] > 0 THEN slots[o] ELSE Absent
             /\ gather'[g].pc = "hydrating" /\ beat'[g].busy = beat[g].busy
             /\ beat'[g].snap = beat[g].snap
    <3> DEFINE L == LiveIn(slots) \ {g}
    <3>1. Cardinality(L) < Cap
      BY <2>0, <2>2 DEF SlotsInv, At
    <3>2. Entries(slots') \subseteq L \cup {g}
      BY <2>2 DEF Entries, LiveIn
    <3>3. L \in SUBSET Gather
      BY DEF LiveIn
    <3>4. L \cup {g} \in SUBSET Gather
      BY <3>3
    <3> HIDE DEF L
    <3>5. Cardinality(L) \in Nat /\ Cardinality(L \cup {g}) <= Cardinality(L) + 1
      BY <3>3, Counts
    <3>6. Cardinality(L \cup {g}) \in Nat /\ Cardinality(Entries(slots')) \in Nat
          /\ Cardinality(Entries(slots')) <= Cardinality(L \cup {g})
      BY <3>2, <3>4, Counts
    <3>7. SlotsWithinCap'
      BY <3>1, <3>5, <3>6, Constants DEF SlotsWithinCap
    <3> QED BY <2>0, <2>2, <3>7 DEF SlotsInv, At, Alone, BeatAlone
  <2> QED BY <1>2, <2>1, <2>2, AdmitFields
<1>3. ASSUME NEW g \in Gather, Release(g)
      PROVE  SlotsInv'
  BY <1>3, ReleaseFields, SlotsFewer DEF Alone
<1>4. ASSUME NEW g \in Gather, Drop(g)
      PROVE  SlotsInv'
  <2>1. Entries(slots') \subseteq Entries(slots)
    BY <1>4, DropFields DEF Entries
  <2> QED BY <1>4, <2>1, DropFields, SlotsFewer DEF Alone
<1>5. ASSUME NEW g \in Gather, Maps(g)
      PROVE  SlotsInv'
  BY <1>5, MapFields, SlotsFewer DEF Alone, Running
<1>6. ASSUME NEW g \in Gather, Beat(g)
      PROVE  SlotsInv'
  BY <1>6, BeatFields DEF SlotsInv, SlotsWithinCap, At, BeatAlone
<1>7. ASSUME NEW g \in Gather, Renew(g)
      PROVE  SlotsInv'
  <2>1. BeatAlone(g) /\ beat[g].busy /\ UNCHANGED gather
    BY <1>7, RenewFields
  <2>2. CASE slots = beat[g].snap /\ \A o \in Gather \ {g} : slots'[o] = slots[o]
    <3>1. Entries(slots') \subseteq Entries(slots)
      BY <2>1, <2>2 DEF SlotsInv, Entries
    <3>2. Cardinality(Entries(slots')) <= Cap
      <4>1. Entries(slots) \in SUBSET Gather
        BY DEF Entries
      <4>2. Cardinality(Entries(slots')) \in Nat /\ Cardinality(Entries(slots)) \in Nat
            /\ Cardinality(Entries(slots')) <= Cardinality(Entries(slots))
        BY <3>1, <4>1, Counts
      <4> QED BY <4>2, Constants DEF SlotsInv, SlotsWithinCap
    <3>3. beat'[g].busy => beat'[g].snap[g] # Absent
      BY <1>7, RenewFields
    <3> QED BY <2>1, <3>2, <3>3 DEF SlotsInv, SlotsWithinCap, At, BeatAlone
  <2>3. CASE UNCHANGED slots
    <3>1. beat'[g].busy => beat'[g].snap[g] # Absent
      BY <1>7, RenewFields
    <3> QED BY <2>1, <2>3, <3>1 DEF SlotsInv, SlotsWithinCap, At, BeatAlone
  <2> QED BY <1>7, <2>2, <2>3, RenewFields
<1>8. ASSUME NEW g \in Gather, Fail(g) \/ Crash(g)
      PROVE  SlotsInv'
  <2>1. \A o \in Gather : beat'[o].busy => beat'[o] = beat[o]
    BY <1>8, EndFields DEF BeatAlone
  <2> QED BY <1>8, <2>1, EndFields, SlotsFewer DEF Alone
<1>9. CASE Tick
  <2>1. /\ slots' = Later(slots)
        /\ \A g \in Gather : /\ gather'[g].pc = gather[g].pc
                             /\ gather[g].pc = "admitting" => gather'[g].snap = Later(gather[g].snap)
                             /\ beat'[g].busy = beat[g].busy /\ beat'[g].snap = Later(beat[g].snap)
    BY <1>9, TickFields
  <2>2. \A g \in Gather : gather[g].snap \in Slots /\ beat[g].snap \in Slots
    BY DEF TypeOK, GatherState, BeatState
  <2>3. SlotsWithinCap'
    BY <2>1, LiveEntries DEF TypeOK, SlotsInv, SlotsWithinCap
  <2>4. ASSUME NEW g \in Gather, gather[g].pc = "admitting"
        PROVE  Cardinality(LiveIn(Later(gather[g].snap)) \ {g}) < Cap
    <3> DEFINE L == LiveIn(gather[g].snap) \ {g}
               M == LiveIn(Later(gather[g].snap)) \ {g}
    <3>1. Cardinality(L) < Cap
      BY <2>4 DEF SlotsInv, At
    <3>2. M \subseteq L /\ L \in SUBSET Gather
      BY <2>2, LiveEntries DEF LiveIn
    <3> HIDE DEF L, M
    <3>3. Cardinality(M) \in Nat /\ Cardinality(L) \in Nat /\ Cardinality(M) <= Cardinality(L)
      BY <3>2, Counts
    <3>4. Cardinality(M) < Cap
      BY <3>1, <3>3, Constants
    <3> QED BY <3>4 DEF M
  <2>5. \A g \in Gather : beat[g].busy => Later(beat[g].snap)[g] # Absent
    BY <2>2, LaterIn, Constants DEF SlotsInv, Absent, Slots
  <2> QED BY <2>1, <2>3, <2>4, <2>5 DEF SlotsInv, At
<1>10. CASE UNCHANGED vars
  BY <1>10 DEF vars, records, SlotsInv, SlotsWithinCap, At
<1> QED BY <1>1, <1>2, <1>3, <1>4, <1>5, <1>6, <1>7, <1>8, <1>9, <1>10 DEF Next, Slot, Heart

LEMMA SlotsInvHolds == Spec => []SlotsInv
<1>1. Init => SlotsInv
  <2> SUFFICES ASSUME Init
               PROVE  SlotsInv
    OBVIOUS
  <2>1. Entries(slots) = {}
    BY DEF Init, Entries, NoSlots
  <2>2. SlotsWithinCap
    BY <2>1, FS_EmptySet, Constants DEF SlotsWithinCap
  <2> QED BY <2>2, Records DEF Init, SlotsInv, At
<1> QED BY <1>1, FleetTypes, SlotsInvStep, PTL DEF Spec

\* The record never holds more than Cap slots, whatever updates race, whoever crashes
\* and however late the heartbeats are.
THEOREM SlotsStayWithinCap == Spec => []SlotsWithinCap
<1>1. SlotsInv => SlotsWithinCap
  BY DEF SlotsInv
<1> QED BY <1>1, SlotsInvHolds, PTL

(***************************************************************************)
(* The record is a table of slots.                                         *)
(***************************************************************************)

LEMMA TableStep ==
  ASSUME TypeOK, SlotsInv, [Next]_vars
  PROVE  [Table!Next]_<<Entries(slots), LiveIn(slots)>>
<1> DEFINE All  == Entries(slots)
           Live == LiveIn(slots)
<1>0. /\ slots \in Slots /\ Live \subseteq All /\ All \subseteq Gather
      /\ \A o \in Gather : slots[o] \in Int
  BY LiveEntries DEF TypeOK, Slots, Absent
<1>1. ASSUME NEW g \in Gather, Admit(g)
      PROVE  UNCHANGED slots \/ Table!Acquire(g)
  <2>1. CASE /\ gather[g].pc = "admitting"
             /\ slots'[g] = Left(gather[g].age) /\ slots' \in Slots
             /\ \A o \in Gather \ {g} : slots'[o] = IF slots[o] > 0 THEN slots[o] ELSE Absent
    <3> DEFINE kept == Live \cup {g}
    <3>1. slots'[g] \in Int /\ slots'[g] >= 0
      <4>1. gather[g].age \in 0..Delay
        BY DEF TypeOK, GatherState
      <4> QED BY <2>1, <4>1, LeftIn, Constants
    <3>2. Entries(slots)' = kept
      BY <1>0, <2>1, <3>1 DEF Entries, LiveIn, Absent
    <3>3. Cardinality(kept) <= Cap
      <4>1. SlotsWithinCap'
        BY SlotsInvStep DEF SlotsInv
      <4> QED BY <3>2, <4>1 DEF SlotsWithinCap
    <3>4. LiveIn(slots)' = (IF slots'[g] > 0 THEN kept ELSE Live \ {g})
      BY <1>0, <2>1, <3>1 DEF LiveIn, Absent
    <3>5. LiveIn(slots)' \in {kept, Live \ {g}}
      BY <3>4
    <3>6. Table!Cardinality(kept) <= Cap
      BY <3>3 DEF Table!Cardinality, Cardinality
    <3>7. Table!Acquire(g)
      BY <3>2, <3>5, <3>6, Zenon DEF Table!Acquire
    <3> QED BY <3>7
  <2> QED BY <1>1, <2>1, AdmitFields
<1>2. ASSUME NEW g \in Gather, Drop(g)
      PROVE  UNCHANGED <<All, Live>> \/ Table!Release(g)
  <2>1. /\ slots'[g] \in {slots[g], Absent}
        /\ \A o \in Gather \ {g} : slots'[o] = slots[o]
    BY <1>2, DropFields
  <2>2. CASE slots'[g] = slots[g]
    BY <1>0, <2>1, <2>2 DEF Entries, LiveIn
  <2>3. CASE slots'[g] = Absent
    BY <1>0, <2>1, <2>3 DEF Entries, LiveIn, Absent, Table!Release
  <2> QED BY <2>1, <2>2, <2>3
<1>3. ASSUME NEW g \in Gather, Renew(g)
      PROVE  UNCHANGED slots \/ Table!Renew(g)
  <2>1. CASE /\ slots = beat[g].snap /\ slots'[g] = Left(beat[g].age) /\ beat[g].busy
             /\ \A o \in Gather \ {g} : slots'[o] = slots[o]
    <3>1. slots'[g] \in Int /\ slots'[g] >= 0
      <4>1. beat[g].age \in 0..Delay
        BY DEF TypeOK, BeatState
      <4> QED BY <2>1, <4>1, LeftIn, Constants
    <3>2. slots[g] # Absent
      BY <2>1 DEF SlotsInv
    <3>3. g \in Entries(slots) /\ Entries(slots)' = All
      BY <1>0, <2>1, <3>1, <3>2 DEF Entries, Absent
    <3>4. LiveIn(slots)' = (IF slots'[g] > 0 THEN Live \cup {g} ELSE Live \ {g})
      BY <1>0, <2>1, <3>1 DEF LiveIn
    <3> QED BY <3>3, <3>4 DEF Table!Renew
  <2> QED BY <1>3, <2>1, RenewFields
<1>4. ASSUME Tick
      PROVE  \E late \in SUBSET Live : Table!Expire(late)
  <2>1. slots' = Later(slots)
    BY <1>4, TickFields
  <2>2. Entries(slots)' = All /\ LiveIn(slots)' \subseteq Live
    BY <1>0, <2>1, LiveEntries
  <2> DEFINE late == Live \ LiveIn(slots')
  <2>3. LiveIn(slots)' = Live \ late
    BY <2>2
  <2> QED BY <2>2, <2>3 DEF Table!Expire
<1>5. ASSUME NEW g \in Gather, Ask(g) \/ Release(g) \/ Maps(g) \/ Beat(g) \/ Fail(g) \/ Crash(g)
      PROVE  UNCHANGED slots
  BY <1>5, AskFields, ReleaseFields, MapFields, BeatFields, EndFields
<1>6. CASE UNCHANGED vars
  BY <1>6 DEF vars, records
<1>7. UNCHANGED slots => UNCHANGED <<All, Live>>
  OBVIOUS
<1>8. ASSUME \E g \in Gather : Table!Acquire(g) \/ Table!Release(g) \/ Table!Renew(g)
      PROVE  Table!Next
  BY <1>8 DEF Table!Next
<1>9. (\E late \in SUBSET Live : Table!Expire(late)) => Table!Next
  BY DEF Table!Next
<1> HIDE DEF All, Live
<1>10. CASE \E g \in Gather : Slot(g) \/ Heart(g) \/ Maps(g) \/ Fail(g) \/ Crash(g)
  <2>1. PICK g \in Gather : Slot(g) \/ Heart(g) \/ Maps(g) \/ Fail(g) \/ Crash(g)
    BY <1>10
  <2>2. UNCHANGED <<All, Live>> \/ Table!Next
    BY <1>1, <1>2, <1>3, <1>5, <1>7, <1>8, <2>1 DEF Slot, Heart
  <2> QED BY <2>2 DEF All, Live
<1>11. CASE Tick
  BY <1>4, <1>9, <1>11 DEF Live
<1> QED BY <1>6, <1>7, <1>10, <1>11 DEF Next, All, Live

\* Whatever races, whoever crashes and however late the heartbeats are, the record is
\* a table of slots as GatherSlots promises it.
THEOREM SlotsAreATable == Spec => ImplementsSlots
<1>1. Init => Table!Init
  BY DEF Init, Table!Init, Entries, LiveIn, NoSlots, Absent
<1>2. TypeOK /\ SlotsInv /\ [Next]_vars => [Table!Next]_<<Entries(slots), LiveIn(slots)>>
  BY TableStep
<1> QED BY <1>1, <1>2, FleetTypes, SlotsInvHolds, PTL DEF Spec, ImplementsSlots, Table!Spec

(***************************************************************************)
(* No update of a shared record undoes another.                            *)
(***************************************************************************)

LEMMA StoreGrows ==
  ASSUME TypeOK, [Next]_vars
  PROVE  \A k \in Key : store'[k] >= store[k]
<1> SUFFICES ASSUME NEW k \in Key
             PROVE  store'[k] >= store[k]
  OBVIOUS
<1>0. store[k] \in Nat
  BY Constants DEF TypeOK, Map
<1>1. CASE UNCHANGED store
  BY <1>0, <1>1
<1>2. CASE \E g \in Gather : MergePut(g) \/ MergeFails(g)
  BY <1>0, <1>2, MergePutFields, MergeFailsFields
<1>3. CASE \E g \in Gather : Slot(g) \/ Heart(g) \/ Fail(g) \/ Crash(g)
  BY <1>1, <1>3 DEF Slot, Heart, Ask, Admit, Release, Drop, Beat, Renew, Fail, Crash, records
<1>4. CASE \E g \in Gather : Maps(g) /\ ~MergePut(g) /\ ~MergeFails(g)
  BY <1>1, <1>4 DEF Maps, Hydrate, Save, Persist, MergeRead, LookUp, records
<1>5. CASE Tick
  BY <1>1, <1>5 DEF Tick
<1>6. CASE UNCHANGED vars
  BY <1>1, <1>6 DEF vars, records
<1> QED BY <1>2, <1>3, <1>4, <1>5, <1>6 DEF Next

LEMMA ReleasedStays ==
  ASSUME TypeOK, SlotsInv, [Next]_vars, NEW g \in Gather, At(g, "done"), slots[g] = Absent
  PROVE  slots'[g] = Absent
<1>1. CASE UNCHANGED slots
  BY <1>1
<1>2. ASSUME NEW o \in Gather, Admit(o)
      PROVE  slots'[g] = Absent
  BY <1>2, AdmitFields, Constants DEF At, Absent
<1>3. ASSUME NEW o \in Gather, Drop(o)
      PROVE  slots'[g] = Absent
  BY <1>3, DropFields
<1>4. ASSUME NEW o \in Gather, Renew(o)
      PROVE  slots'[g] = Absent
  <2>1. beat[o].busy => beat[o].snap[o] # Absent
    BY DEF SlotsInv
  <2> QED BY <1>4, <2>1, RenewFields
<1>5. CASE Tick
  BY <1>5, TickFields, LaterIn, Constants DEF TypeOK, Absent
<1>6. CASE \E o \in Gather : Ask(o) \/ Release(o) \/ Maps(o) \/ Beat(o) \/ Fail(o) \/ Crash(o)
  BY <1>6, AskFields, ReleaseFields, MapFields, BeatFields, EndFields
<1>7. CASE UNCHANGED vars
  BY <1>7 DEF vars, records
<1> QED BY <1>2, <1>3, <1>4, <1>5, <1>6, <1>7 DEF Next, Slot, Heart

\* A slot that was given back does not come back, and no entry of the stored map is
\* lost or replaced by an older one: in any order of the updates, under every fault.
THEOREM UpdatesNeverLost == Spec => NoUpdateLost
<1>1. TypeOK /\ [Next]_vars => [\A k \in Key : store'[k] >= store[k]]_vars
  BY StoreGrows
<1>2. TypeOK /\ SlotsInv /\ [Next]_vars
        => [\A g \in Gather : At(g, "done") /\ slots[g] = Absent => slots'[g] = Absent]_vars
  BY ReleasedStays
<1> QED BY <1>1, <1>2, FleetTypes, SlotsInvHolds, PTL
        DEF Spec, NoUpdateLost, ReleasedStaysReleased, StoreKeepsNewest

(***************************************************************************)
(* What a gather looked up is stored, if there are as many tries as        *)
(* gathers: every race that it loses is another's merge, and a gather      *)
(* merges once.                                                            *)
(***************************************************************************)

\* The gathers whose merge is over.
Past == {g \in Gather : gather[g].pc \in {"releasing", "freeing"} \cup Ended}

\* A merge has lost fewer races than there are gathers past theirs, and one that has
\* read a map that is no longer stored will not be the last of them.
TriesInv ==
  \A g \in Gather :
    /\ gather[g].pc \in {"hydrating", "gathering", "saving"} => gather[g].tries = Tries
    /\ gather[g].pc \in {"persisting", "merging"} => Tries - gather[g].tries <= Cardinality(Past)
    /\ At(g, "merging") => \/ gather[g].seen = store
                           \/ Tries - gather[g].tries < Cardinality(Past)

\* Where what a gather looked up is, stage by stage.
KeptInv ==
  \A g \in Gather :
    /\ gather[g].pc \in {"queued", "admitting", "hydrating"} => gather[g].added = NoMap
    /\ ~Shares(g) => \A k \in Key :
         /\ At(g, "gathering") => file[home[g]][k] >= gather[g].added[k]
         /\ gather[g].pc \in {"saving", "persisting", "merging"} => gather[g].map[k] >= gather[g].added[k]

\* A step of one gather that is not past its merge, but for a merge that is stored.
LEMMA TriesAlone ==
  ASSUME TypeOK, TypeOK', TriesInv, NEW g \in Gather, Alone(g), UNCHANGED store, g \in Past => g \in Past',
         gather'[g].pc \in {"hydrating", "gathering", "saving"} => gather'[g].tries = Tries,
         gather'[g].pc \in {"persisting", "merging"} => Tries - gather'[g].tries <= Cardinality(Past),
         gather'[g].pc = "merging" => gather'[g].seen = store
  PROVE  TriesInv'
<1>1. Past \in SUBSET Gather /\ Past' \in SUBSET Gather /\ Past \subseteq Past'
  BY DEF Past, Alone
<1>2. Cardinality(Past) \in Nat /\ Cardinality(Past') \in Nat /\ Cardinality(Past) <= Cardinality(Past')
  BY <1>1, Counts
<1>3. \A o \in Gather : gather[o].tries \in 1..Tries /\ gather'[o].tries \in 1..Tries
  BY DEF TypeOK, GatherState
<1>4. ASSUME NEW o \in Gather \ {g}
      PROVE  /\ gather'[o].pc \in {"hydrating", "gathering", "saving"} => gather'[o].tries = Tries
             /\ gather'[o].pc \in {"persisting", "merging"} => Tries - gather'[o].tries <= Cardinality(Past')
             /\ At(o, "merging")' => \/ gather'[o].seen = store'
                                     \/ Tries - gather'[o].tries < Cardinality(Past')
  BY <1>2, <1>3, Constants DEF TriesInv, Alone, At
<1>5. gather'[g].pc \in {"persisting", "merging"} => Tries - gather'[g].tries <= Cardinality(Past')
  BY <1>2, <1>3, Constants
<1> QED BY <1>4, <1>5 DEF TriesInv, At

LEMMA TriesInvStep ==
  ASSUME TypeOK, TriesInv, [Next]_vars
  PROVE  TriesInv'
<1>0. Past \in SUBSET Gather
  BY DEF Past
<1>1. Cardinality(Past) \in Nat
  BY <1>0, Counts
<1>2. ASSUME NEW g \in Gather, Slot(g)
      PROVE  TriesInv'
  <2>1. CASE Ask(g)
    BY <2>1, AskFields, TriesAlone DEF Past, Ended
  <2>2. CASE Admit(g)
    BY <2>2, AdmitFields, TriesAlone DEF Past, Ended
  <2>3. CASE Release(g)
    BY <2>3, ReleaseFields, TriesAlone DEF Past, Ended
  <2>4. CASE Drop(g)
    BY <2>4, DropFields, TriesAlone DEF Past, Ended
  <2> QED BY <1>2, <2>1, <2>2, <2>3, <2>4 DEF Slot
<1>3. ASSUME NEW g \in Gather, Hydrate(g) \/ Save(g) \/ \E k \in Key : LookUp(g, k)
      PROVE  TriesInv'
  <2>1. /\ TypeOK' /\ Alone(g) /\ UNCHANGED store /\ g \notin Past
        /\ gather[g].pc \in {"hydrating", "gathering", "saving"}
        /\ gather'[g].pc \in {"hydrating", "gathering", "saving"} /\ gather'[g].tries = gather[g].tries
    BY <1>3, HydrateFields, SaveFields, LookUpFields DEF Past, Ended
  <2> QED BY <2>1, TriesAlone DEF TriesInv
<1>4. ASSUME NEW g \in Gather, Persist(g)
      PROVE  TriesInv'
  <2>1. Tries - gather'[g].tries <= Cardinality(Past)
    BY <1>1, <1>4, PersistFields, Constants DEF TriesInv
  <2> QED BY <1>4, <2>1, PersistFields, TriesAlone DEF Past, Ended
<1>5. ASSUME NEW g \in Gather, MergeRead(g)
      PROVE  TriesInv'
  <2>1. Tries - gather'[g].tries <= Cardinality(Past)
    BY <1>5, MergeReadFields DEF TriesInv
  <2> QED BY <1>5, <2>1, MergeReadFields, TriesAlone DEF Past, Ended
<1>6. ASSUME NEW g \in Gather, MergePut(g) \/ MergeFails(g)
      PROVE  TriesInv'
  <2>0. /\ Alone(g) /\ gather[g].pc \in {"persisting", "merging"} /\ TypeOK' /\ g \notin Past
        /\ MergePut(g) => gather[g].pc = "merging"
    BY <1>6, MergePutFields, MergeFailsFields DEF Past, Ended
  <2>1. CASE gather'[g].pc = "releasing"
    <3>1. Past' = Past \cup {g}
      BY <2>0, <2>1 DEF Past, Alone
    <3>2. Past' \in SUBSET Gather /\ Past' \ {g} = Past /\ g \in Past'
      BY <1>0, <2>0, <3>1
    <3>3. Cardinality(Past') \in Nat /\ Cardinality(Past) < Cardinality(Past')
      BY <3>2, Counts
    <3>4. ASSUME NEW o \in Gather \ {g}
          PROVE  /\ gather'[o].pc \in {"hydrating", "gathering", "saving"} => gather'[o].tries = Tries
                 /\ gather'[o].pc \in {"persisting", "merging"} => Tries - gather'[o].tries < Cardinality(Past')
      <4>1. gather[o].tries \in 1..Tries /\ gather'[o] = gather[o]
        BY <2>0 DEF TypeOK, GatherState, Alone
      <4> QED BY <1>1, <3>3, <4>1, Constants DEF TriesInv
    <3>5. \A o \in Gather : gather'[o].tries \in 1..Tries
      BY <2>0 DEF TypeOK, GatherState
    <3>6. ASSUME NEW o \in Gather
          PROVE  /\ gather'[o].pc \in {"hydrating", "gathering", "saving"} => gather'[o].tries = Tries
                 /\ gather'[o].pc \in {"persisting", "merging"} =>
                      /\ Tries - gather'[o].tries < Cardinality(Past')
                      /\ Tries - gather'[o].tries <= Cardinality(Past')
      BY <2>1, <3>3, <3>4, <3>5, Constants
    <3> QED BY <3>6 DEF TriesInv, At
  <2>2. CASE /\ store # gather[g].seen /\ UNCHANGED store /\ gather'[g].pc = "persisting"
             /\ gather'[g].tries = gather[g].tries - 1 /\ gather[g].pc = "merging"
    <3>1. Tries - gather[g].tries < Cardinality(Past) /\ gather[g].tries \in 1..Tries
      BY <2>0, <2>2 DEF TriesInv, At, TypeOK, GatherState
    <3>2. Tries - gather'[g].tries <= Cardinality(Past)
      BY <1>1, <2>2, <3>1, Constants
    <3> QED BY <2>0, <2>2, <3>2, TriesAlone
  <2> QED BY <1>6, <2>1, <2>2, MergePutFields, MergeFailsFields
<1>7. ASSUME NEW g \in Gather, Fail(g) \/ Crash(g)
      PROVE  TriesInv'
  BY <1>7, EndFields, TriesAlone DEF Past, Ended, Running
<1>8. CASE Tick
  <2>1. Past' = Past
    BY <1>8, TickFields DEF Past
  <2> QED BY <1>8, <2>1, TickFields DEF TriesInv, At
<1>9. CASE UNCHANGED <<gather, store>>
  BY <1>9 DEF TriesInv, At, Past
<1> QED BY <1>2, <1>3, <1>4, <1>5, <1>6, <1>7, <1>8, <1>9, BeatFields, RenewFields
        DEF Next, Maps, Heart, vars, records

LEMMA TriesInvHolds == Spec => []TriesInv
<1>1. Init => TriesInv
  BY Records DEF Init, TriesInv, At
<1> QED BY <1>1, FleetTypes, TriesInvStep, PTL DEF Spec

\* A step of one gather that leaves the files of other hosts alone.
LEMMA KeptAlone ==
  ASSUME KeptInv, NEW g \in Gather, Alone(g), UNCHANGED home,
         \A h \in Host \ {home[g]} : file'[h] = file[h], TypeOK,
         gather'[g].pc \in {"queued", "admitting", "hydrating"} => gather'[g].added = NoMap,
         ~Shares(g) => \A k \in Key :
           /\ gather'[g].pc = "gathering" => file'[home[g]][k] >= gather'[g].added[k]
           /\ gather'[g].pc \in {"saving", "persisting", "merging"} =>
                gather'[g].map[k] >= gather'[g].added[k]
  PROVE  KeptInv'
<1>1. \A o \in Gather : Shares(o)' <=> Shares(o)
  BY DEF Shares
<1>2. ASSUME NEW o \in Gather \ {g}, ~Shares(o)
      PROVE  file'[home'[o]] = file[home[o]]
  BY <1>2 DEF Shares, TypeOK
<1>3. \A o \in Gather \ {g} : gather'[o] = gather[o]
  BY DEF Alone
<1> QED BY <1>1, <1>2, <1>3 DEF KeptInv, At

LEMMA KeptInvStep ==
  ASSUME TypeOK, KeptInv, [Next]_vars
  PROVE  KeptInv'
<1>0. NoMap \in Map /\ \A k \in Key : NoMap[k] = 0
  BY Records DEF NoMap
<1>1. ASSUME NEW g \in Gather, Slot(g)
      PROVE  KeptInv'
  <2>1. CASE Ask(g)
    BY <2>1, AskFields, KeptAlone DEF KeptInv
  <2>2. CASE Admit(g)
    BY <2>2, AdmitFields, KeptAlone DEF KeptInv
  <2>3. CASE Release(g)
    BY <2>3, ReleaseFields, KeptAlone DEF KeptInv
  <2>4. CASE Drop(g)
    BY <2>4, DropFields, KeptAlone DEF KeptInv
  <2> QED BY <1>1, <2>1, <2>2, <2>3, <2>4 DEF Slot
<1>2. ASSUME NEW g \in Gather, Hydrate(g)
      PROVE  KeptInv'
  <2>1. gather'[g].added = NoMap /\ TypeOK'
    BY <1>2, HydrateFields DEF KeptInv
  <2>2. \A k \in Key : file'[home[g]][k] \in 0..MaxStamp
    BY <1>2, <2>1, HydrateFields DEF TypeOK, Map
  <2>3. \A k \in Key : file'[home[g]][k] >= gather'[g].added[k]
    BY <1>0, <2>1, <2>2, Constants
  <2> QED BY <1>2, <2>3, HydrateFields, KeptAlone
<1>3. ASSUME NEW g \in Gather, NEW k \in Key, LookUp(g, k)
      PROVE  KeptInv'
  <2>1. ASSUME ~Shares(g), NEW l \in Key
        PROVE  gather'[g].map[l] >= gather'[g].added[l]
    <3>1. /\ gather[g].pc = "gathering" /\ TypeOK' /\ gather'[g].map[l] >= file[home[g]][l]
          /\ \/ gather'[g].map[l] >= gather'[g].added[l]
             \/ gather'[g].added[l] = gather[g].added[l]
      BY <1>3, LookUpFields
    <3>2. file[home[g]][l] >= gather[g].added[l]
      BY <2>1, <3>1 DEF KeptInv, At
    <3>3. gather[g].added[l] \in Nat /\ gather'[g].map[l] \in Nat /\ file[home[g]][l] \in Nat
      BY <3>1, Constants DEF TypeOK, GatherState, Map
    <3> QED BY <3>1, <3>2, <3>3
  <2> QED BY <1>3, <2>1, LookUpFields, KeptAlone
<1>4. ASSUME NEW g \in Gather, Save(g)
      PROVE  KeptInv'
  BY <1>4, SaveFields, KeptAlone DEF KeptInv
<1>5. ASSUME NEW g \in Gather, Persist(g)
      PROVE  KeptInv'
  BY <1>5, PersistFields, KeptAlone DEF KeptInv, At
<1>6. ASSUME NEW g \in Gather, MergeRead(g)
      PROVE  KeptInv'
  BY <1>6, MergeReadFields, KeptAlone DEF KeptInv
<1>7. ASSUME NEW g \in Gather, MergePut(g) \/ MergeFails(g)
      PROVE  KeptInv'
  BY <1>7, MergePutFields, MergeFailsFields, KeptAlone DEF KeptInv
<1>8. ASSUME NEW g \in Gather, Fail(g) \/ Crash(g)
      PROVE  KeptInv'
  BY <1>8, EndFields, KeptAlone
<1>9. CASE Tick
  BY <1>9, TickFields DEF KeptInv, At, Shares
<1>10. CASE UNCHANGED <<gather, file, home>>
  BY <1>10 DEF KeptInv, At, Shares
<1> QED BY <1>1, <1>2, <1>3, <1>4, <1>5, <1>6, <1>7, <1>8, <1>9, <1>10, BeatFields, RenewFields
        DEF Next, Maps, Heart, vars, records

LEMMA KeptInvHolds == Spec => []KeptInv
<1>1. Init => KeptInv
  BY Records DEF Init, KeptInv, At
<1> QED BY <1>1, FleetTypes, KeptInvStep, PTL DEF Spec

LEMMA AdditionsStep ==
  ASSUME Cardinality(Gather) <= Tries, TypeOK, TriesInv, KeptInv, AdditionsPersisted, [Next]_vars
  PROVE  AdditionsPersisted'
<1>0. \A k \in Key : store'[k] >= store[k]
  BY StoreGrows
<1>1. ASSUME NEW g \in Gather, UNCHANGED home, TypeOK', gather'[g].added = gather[g].added,
             gather[g].pc \in {"releasing", "freeing"}, ~gather[g].failed, ~Shares(g)'
      PROVE  Persisted(g)'
  <2>1. Persisted(g)
    BY <1>1 DEF AdditionsPersisted, Shares
  <2>2. \A k \in Key : store[k] \in Nat /\ store'[k] \in Nat /\ gather[g].added[k] \in Nat
    BY <1>1, Constants DEF TypeOK, GatherState, Map
  <2> QED BY <1>0, <1>1, <2>1, <2>2 DEF Persisted
<1>2. ASSUME NEW g \in Gather, Alone(g), UNCHANGED home, TypeOK',
             gather'[g].pc \in {"releasing", "freeing"} /\ ~gather'[g].failed /\ ~Shares(g)'
               => Persisted(g)'
      PROVE  AdditionsPersisted'
  <2> SUFFICES ASSUME NEW o \in Gather, gather'[o].pc \in {"releasing", "freeing"},
                      ~gather'[o].failed, ~Shares(o)'
               PROVE  Persisted(o)'
    BY DEF AdditionsPersisted
  <2> QED BY <1>1, <1>2 DEF Alone
<1>3. ASSUME NEW g \in Gather, Slot(g)
      PROVE  AdditionsPersisted'
  <2>1. CASE Ask(g)
    BY <1>2, <2>1, AskFields
  <2>2. CASE Admit(g)
    BY <1>2, <2>2, AdmitFields
  <2>3. CASE Release(g)
    BY <1>1, <1>2, <2>3, ReleaseFields
  <2>4. CASE Drop(g)
    BY <1>1, <1>2, <2>4, DropFields
  <2> QED BY <1>3, <2>1, <2>2, <2>3, <2>4 DEF Slot
<1>4. ASSUME NEW g \in Gather, Maps(g), ~MergePut(g), ~MergeFails(g)
      PROVE  AdditionsPersisted'
  <2>1. Alone(g) /\ UNCHANGED home /\ TypeOK' /\ gather'[g].pc \in Running
    BY <1>4, HydrateFields, SaveFields, PersistFields, MergeReadFields, LookUpFields DEF Maps, Running
  <2> QED BY <1>2, <2>1 DEF Running
<1>5. ASSUME NEW g \in Gather, MergePut(g)
      PROVE  AdditionsPersisted'
  <2>0. Alone(g) /\ gather[g].pc = "merging" /\ TypeOK' /\ UNCHANGED home /\ gather'[g].added = gather[g].added
    BY <1>5, MergePutFields
  <2>1. CASE \A k \in Key : store'[k] >= gather[g].map[k]
    <3>1. ASSUME ~Shares(g)'
          PROVE  Persisted(g)'
      <4>1. \A k \in Key : gather[g].map[k] >= gather[g].added[k]
        BY <2>0, <3>1 DEF KeptInv, Shares
      <4>2. \A k \in Key : store'[k] \in Nat /\ gather[g].map[k] \in Nat /\ gather[g].added[k] \in Nat
        BY <2>0, Constants DEF TypeOK, GatherState, Map
      <4> QED BY <2>0, <2>1, <4>1, <4>2 DEF Persisted
    <3> QED BY <1>2, <2>0, <3>1
  <2>2. CASE store # gather[g].seen /\ gather[g].tries = 1
    <3>1. Tries - 1 < Cardinality(Past)
      BY <2>0, <2>2 DEF TriesInv, At
    <3>2. Gather \in SUBSET Gather /\ Past \subseteq Gather \ {g}
      BY <2>0 DEF Past, Ended
    <3>3. /\ Cardinality(Past) \in Nat /\ Cardinality(Gather \ {g}) \in Nat /\ Cardinality(Gather) \in Nat
          /\ Cardinality(Gather \ {g}) < Cardinality(Gather) /\ Cardinality(Past) <= Cardinality(Gather \ {g})
      <4>1. Gather \ {g} \in SUBSET Gather
        OBVIOUS
      <4> QED BY <3>2, <4>1, Counts
    <3> QED BY <3>1, <3>3, Constants
  <2>3. CASE gather'[g].pc = "persisting"
    BY <1>2, <2>0, <2>3
  <2> QED BY <1>5, <2>1, <2>2, <2>3, MergePutFields
<1>6. ASSUME NEW g \in Gather, Fail(g) \/ Crash(g) \/ MergeFails(g)
      PROVE  AdditionsPersisted'
  <2>1. /\ Alone(g) /\ UNCHANGED home /\ TypeOK'
        /\ gather'[g].failed \/ gather'[g].pc \notin {"releasing", "freeing"}
    BY <1>6, EndFields, MergeFailsFields
  <2> QED BY <1>2, <2>1
<1>7. CASE Tick
  BY <1>7, TickFields DEF AdditionsPersisted, Persisted, Shares
<1>8. CASE UNCHANGED <<gather, store, home>>
  BY <1>8 DEF AdditionsPersisted, Persisted, Shares
<1> QED BY <1>3, <1>4, <1>5, <1>6, <1>7, <1>8, BeatFields, RenewFields DEF Next, Heart, vars, records

\* Of no more gathers than there are tries, one that has merged has what it looked up
\* in the store, if it had its host's file for itself and no request of the merge
\* failed: however many races it lost, and whoever's merges failed or crashed.
THEOREM AdditionsReachTheStore ==
  ASSUME Cardinality(Gather) <= Tries
  PROVE  Spec => []AdditionsPersisted
<1>1. Init => AdditionsPersisted
  BY Records DEF Init, AdditionsPersisted
<1>2. TypeOK /\ TriesInv /\ KeptInv /\ AdditionsPersisted /\ [Next]_vars => AdditionsPersisted'
  BY AdditionsStep
<1> QED BY <1>1, <1>2, FleetTypes, TriesInvHolds, KeptInvHolds, PTL DEF Spec

(***************************************************************************)
(* No more than Cap gathers run, when heartbeats come in time and no       *)
(* renewal loses its last race: a gather that runs then has a slot.        *)
(***************************************************************************)

\* A gather that runs has a slot whose time has run for no longer than since its last
\* heartbeat, and the update that it took.
HeldInv ==
  \A g \in Gather :
    /\ gather[g].pc \in {"queued", "admitting"} => ~beat[g].busy
    /\ gather[g].pc \in Running =>
         IF beat[g].busy
         THEN slots[g] + beat[g].age >= TTL - Delay - Interval /\ beat[g].due = beat[g].age
         ELSE slots[g] + beat[g].due >= TTL - Delay

\* A renewal loses the last of its races.
Outraced == \E g \in Gather : Renew(g) /\ beat[g].tries = 1 /\ ~Wins(slots, beat[g].snap)

\* A slot outlives the time from one heartbeat to the next and the updates they take.
Timely == "lapse" \notin Faults /\ Interval + 2 * Delay < TTL

LEMMA BeatTypes ==
  ASSUME TypeOK
  PROVE  \A g \in Gather : /\ slots[g] \in Int /\ slots[g] >= Absent
                           /\ beat[g].busy \in BOOLEAN /\ beat[g].age \in 0..Delay
                           /\ beat[g].due \in 0..Interval /\ gather[g].pc \in Stage
                           /\ gather[g].age \in 0..Delay
  BY Constants DEF TypeOK, Slots, Absent, BeatState, GatherState

LEMMA HeldLive ==
  ASSUME TypeOK, HeldInv, Timely
  PROVE  \A g \in Gather : gather[g].pc \in Running => slots[g] > 0
  BY BeatTypes, Constants DEF HeldInv, Timely

\* A step that neither shortens the slot of a gather that goes on running, nor moves its
\* heartbeat.
LEMMA HeldAlone ==
  ASSUME HeldInv, NEW g \in Gather, UNCHANGED beat[g],
         gather[g].pc \in Running => slots'[g] = slots[g],
         \/ UNCHANGED gather[g].pc
         \/ gather'[g].pc \in Running /\ gather[g].pc \in Running
         \/ gather'[g].pc \notin Running /\ gather'[g].pc \notin {"queued", "admitting"}
         \/ gather'[g].pc \in {"queued", "admitting"} /\ gather[g].pc \in {"queued", "admitting"}
  PROVE  /\ gather'[g].pc \in {"queued", "admitting"} => ~beat'[g].busy
         /\ gather'[g].pc \in Running =>
              IF beat'[g].busy
              THEN slots'[g] + beat'[g].age >= TTL - Delay - Interval /\ beat'[g].due = beat'[g].age
              ELSE slots'[g] + beat'[g].due >= TTL - Delay
  BY DEF HeldInv, Running

LEMMA HeldInvStep ==
  ASSUME TypeOK, HeldInv, Timely, [Next]_vars, [~Outraced]_vars
  PROVE  HeldInv'
<1> DEFINE Held(g) ==
      /\ gather[g].pc \in {"queued", "admitting"} => ~beat[g].busy
      /\ gather[g].pc \in Running =>
           IF beat[g].busy
           THEN slots[g] + beat[g].age >= TTL - Delay - Interval /\ beat[g].due = beat[g].age
           ELSE slots[g] + beat[g].due >= TTL - Delay
<1>0. \A g \in Gather : gather[g].pc \in Running => slots[g] > 0
  BY HeldLive
<1>1. ASSUME NEW g \in Gather, Ask(g) \/ Release(g) \/ Maps(g), NEW o \in Gather
      PROVE  Held(o)'
  <2>1. Alone(g) /\ UNCHANGED <<slots, beat>>
    BY <1>1, AskFields, ReleaseFields, MapFields
  <2>2. \/ gather'[g].pc = "admitting" /\ gather[g].pc = "queued"
        \/ gather'[g].pc \in {"done", "freeing"}
        \/ gather'[g].pc \in Running /\ gather[g].pc \in Running
        \/ gather'[g].pc = "releasing"
    BY <1>1, AskFields, ReleaseFields, MapFields
  <2>3. CASE o # g
    BY <2>1, <2>3, HeldAlone DEF Alone
  <2>4. CASE o = g
    BY <2>1, <2>2, <2>4, HeldAlone DEF Running
  <2> QED BY <2>3, <2>4
<1>2. ASSUME NEW g \in Gather, Admit(g), NEW o \in Gather
      PROVE  Held(o)'
  <2>0. Alone(g) /\ BeatAlone(g) /\ gather[g].pc = "admitting" /\ ~beat[g].busy
    BY <1>2, AdmitFields DEF HeldInv
  <2>1. CASE gather'[g].pc = "queued" /\ UNCHANGED <<slots, beat>>
    <3>1. CASE o # g
      BY <2>0, <2>1, <3>1, HeldAlone DEF Alone
    <3>2. CASE o = g
      BY <2>0, <2>1, <3>2, HeldAlone
    <3> QED BY <3>1, <3>2
  <2>2. CASE /\ slots'[g] = Left(gather[g].age)
             /\ \A p \in Gather \ {g} : slots'[p] = IF slots[p] > 0 THEN slots[p] ELSE Absent
             /\ gather'[g].pc = "hydrating" /\ beat'[g].due = 0 /\ beat'[g].busy = beat[g].busy
    <3>1. CASE o # g
      BY <1>0, <2>0, <2>2, <3>1, HeldAlone DEF Alone, BeatAlone
    <3>2. Left(gather[g].age) \in Int /\ Left(gather[g].age) >= TTL - Delay
      BY BeatTypes, LeftIn, Constants
    <3>3. Held(g)'
      BY <2>0, <2>2, <3>2, Constants
    <3> QED BY <3>1, <3>3
  <2> QED BY <1>2, <2>1, <2>2, AdmitFields
<1>3. ASSUME NEW g \in Gather, Drop(g), NEW o \in Gather
      PROVE  Held(o)'
  <2>0. /\ Alone(g) /\ UNCHANGED beat /\ gather[g].pc = "freeing"
        /\ gather'[g].pc \in {"done", "releasing"} /\ \A p \in Gather \ {g} : slots'[p] = slots[p]
    BY <1>3, DropFields
  <2>1. CASE o # g
    BY <2>0, <2>1, HeldAlone DEF Alone
  <2>2. CASE o = g
    BY <2>0, <2>2, HeldAlone DEF Running
  <2> QED BY <2>1, <2>2
<1>4. ASSUME NEW g \in Gather, Beat(g), NEW o \in Gather
      PROVE  Held(o)'
  <2>0. /\ BeatAlone(g) /\ gather[g].pc \in Running /\ ~beat[g].busy /\ beat[g].due = Interval
        /\ UNCHANGED <<slots, gather>>
    BY <1>4, BeatFields
  <2>1. beat'[g].busy /\ beat'[g].age = 0 /\ beat'[g].due = 0
    BY <1>0, <1>4, <2>0, BeatFields DEF Absent
  <2>2. CASE o # g
    BY <2>0, <2>2, HeldAlone DEF BeatAlone
  <2>3. slots[g] + Interval >= TTL - Delay /\ slots[g] \in Int
    BY <2>0, BeatTypes DEF HeldInv
  <2>4. Held(g)'
    BY <2>0, <2>1, <2>3, Constants DEF Running
  <2> QED BY <2>2, <2>4
<1>5. ASSUME NEW g \in Gather, Renew(g), NEW o \in Gather
      PROVE  Held(o)'
  <2>0. /\ BeatAlone(g) /\ beat[g].busy /\ UNCHANGED gather
        /\ \A p \in Gather \ {g} : slots'[p] = slots[p]
    BY <1>5, RenewFields
  <2>1. CASE o # g
    BY <2>0, <2>1, HeldAlone DEF BeatAlone
  <2>2. gather[g].pc \notin {"queued", "admitting"}
    BY <2>0 DEF HeldInv
  <2>3. ASSUME gather[g].pc \in Running
        PROVE  Held(g)'
    <3>0. slots[g] > 0 /\ beat[g].due = beat[g].age
          /\ slots[g] + beat[g].age >= TTL - Delay - Interval
      BY <1>0, <2>0, <2>3 DEF HeldInv
    <3>1. CASE slots'[g] = Left(beat[g].age) /\ ~beat'[g].busy /\ beat'[g].due = beat[g].due
      <4>1. beat[g].age \in 0..Delay
        BY BeatTypes
      <4>2. Left(beat[g].age) \in Int /\ Left(beat[g].age) >= TTL - beat[g].age
        BY <4>1, LeftIn
      <4> QED BY <2>0, <2>2, <3>0, <3>1, <4>1, <4>2, Constants
    <3>2. CASE slots # beat[g].snap /\ beat[g].tries = 1 /\ ~beat'[g].busy
      <4>1. Outraced
        BY <1>5, <3>2 DEF Outraced, Wins
      <4>2. beat' = beat
        BY <4>1 DEF vars
      <4> QED BY <2>0, <3>2, <4>2
    <3>3. CASE /\ UNCHANGED slots /\ beat'[g].busy /\ beat'[g].age = beat[g].age
               /\ beat'[g].due = beat[g].due
      BY <2>0, <2>2, <3>0, <3>3
    <3> QED BY <1>5, <3>0, <3>1, <3>2, <3>3, RenewFields DEF Absent
  <2>4. Held(g)'
    BY <2>0, <2>2, <2>3
  <2> QED BY <2>1, <2>4
<1>6. ASSUME NEW g \in Gather, Fail(g) \/ Crash(g), NEW o \in Gather
      PROVE  Held(o)'
  <2>0. /\ Alone(g) /\ BeatAlone(g) /\ UNCHANGED slots
        /\ gather'[g].pc \in {"releasing", "dead"}
    BY <1>6, EndFields
  <2>1. CASE o # g
    BY <2>0, <2>1, HeldAlone DEF Alone, BeatAlone
  <2>2. CASE o = g
    BY <2>0, <2>2 DEF Running
  <2> QED BY <2>1, <2>2
<1>7. ASSUME Tick, NEW o \in Gather
      PROVE  Held(o)'
  <2>0. /\ gather'[o].pc = gather[o].pc /\ beat'[o].busy = beat[o].busy
        /\ beat'[o].age = IF beat[o].busy THEN beat[o].age + 1 ELSE beat[o].age
        /\ gather[o].pc \in Running => beat'[o].due = beat[o].due + 1
        /\ slots' = Later(slots)
    BY <1>7, TickFields DEF Timely
  <2>1. slots'[o] \in Int /\ slots'[o] >= slots[o] - 1
    BY <2>0, LaterIn, BeatTypes DEF TypeOK
  <2> QED BY <2>0, <2>1, BeatTypes, Constants DEF HeldInv
<1>8. ASSUME UNCHANGED vars, NEW o \in Gather
      PROVE  Held(o)'
  BY <1>8 DEF vars, records, HeldInv
<1>9. ASSUME NEW o \in Gather
      PROVE  Held(o)'
  <2> HIDE DEF Held
  <2> QED BY <1>1, <1>2, <1>3, <1>4, <1>5, <1>6, <1>7, <1>8, <1>9 DEF Next, Slot, Heart
<1> QED BY <1>9 DEF HeldInv

LEMMA HeldCaps ==
  ASSUME TypeOK, HeldInv, SlotsInv, Timely
  PROVE  FleetInv
<1>1. RunningNow \subseteq Entries(slots) /\ Entries(slots) \in SUBSET Gather
  BY HeldLive DEF RunningNow, Entries, Absent
<1>2. Cardinality(RunningNow) \in Nat /\ Cardinality(Entries(slots)) \in Nat
      /\ Cardinality(RunningNow) <= Cardinality(Entries(slots))
  BY <1>1, Counts
<1> QED BY <1>2, Constants DEF FleetInv, SlotsInv, SlotsWithinCap, RunningWithinCap

\* With heartbeats in time, slots that outlive them, and no renewal that loses all its
\* races, the records are of their types, and neither the slots nor the gathers that
\* run are ever more than Cap, whoever crashes.
THEOREM GathersStayWithinCap ==
  ASSUME Timely
  PROVE  Spec /\ [][~Outraced]_vars => []FleetInv
<1>1. Init => HeldInv
  BY Records DEF Init, HeldInv, Running
<1>2. TypeOK /\ HeldInv /\ [Next]_vars /\ [~Outraced]_vars => HeldInv'
  BY HeldInvStep
<1>3. TypeOK /\ HeldInv /\ SlotsInv => FleetInv
  BY HeldCaps
<1> QED BY <1>1, <1>2, <1>3, FleetTypes, SlotsInvHolds, PTL DEF Spec

=============================================================================
