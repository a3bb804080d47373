--------------------------- MODULE CloudReadProofs ---------------------------
(***************************************************************************)
(* Proofs about CloudRead, for any number of calls, files, versions and    *)
(* reads, any lifetime of the cache and every fault: what a call reads is  *)
(* one version, pinned and counted; what is staged is whole; the cache is  *)
(* no older than it may be; and no tool call fails because its version was *)
(* reaped.                                                                 *)
(*                                                                         *)
(* ReadIInv is inductive.  It says of the bucket that the current version  *)
(* is whole, which is all that publishers promise (AtomicPublish), and of  *)
(* a call that found something missing that its version is another.        *)
(***************************************************************************)
EXTENDS CloudRead, FiniteSetTheorems, TLAPS

\* The current version is whole.
CurrentWhole == pointer # None => blobs[pointer] = Part

\* A version is counted once for each call that has pinned it.
Pinning(v) == {c \in Call : call[c].pin = v}
PinsExact  == \A v \in Version : pins[v] = Cardinality(Pinning(v))

\* A version that is current, or not yet, has not been superseded for any time.
SinceStarts == \A v \in Version : v >= pointer => since[v] = 0

CachePast == cache.version <= pointer

\* Where a call has pinned nothing and read nothing.
Before == {"lookup", "caching", "resolved"} \cup Over
\* Where it works on a version.
Using  == Stage \ Before

\* What a call's locals say of the bucket.
CallHolds(c) ==
  /\ call[c].pc \in Before => call[c].pin = None /\ call[c].seen = {}
  /\ call[c].pc # "closing" => call[c].left >= 1
  /\ call[c].pc \in Using => call[c].ver # None
  /\ call[c].ver <= pointer /\ call[c].fresh <= pointer
  /\ c \in Pinned => call[c].seen \subseteq {call[c].ver}
  /\ At(c, "fetching") /\ call[c].ver >= pointer => call[c].todo \cup call[c].got = Part
  /\ call[c].pc \in {"missing", "recovering"} => call[c].ver < pointer
  /\ At(c, "recovering") => call[c].fresh > call[c].ver
  /\ At(c, "caching") /\ call[c].ver # None => since[call[c].ver] <= call[c].age
  /\ At(c, "recovering") => since[call[c].fresh] <= call[c].age

CallsHold == \A c \in Call : CallHolds(c)

ReadIInv ==
  /\ TypeOK /\ CurrentWhole /\ PinsExact /\ SinceStarts /\ CachePast /\ CallsHold
  /\ CacheFreshEnough /\ StagedComplete

(***************************************************************************)
(* Pins.                                                                   *)
(***************************************************************************)

LEMMA PinSame ==
  ASSUME PinsExact, pins' = pins, \A d \in Call : call'[d].pin = call[d].pin
  PROVE  PinsExact'
<1>1. \A v : Pinning(v)' = Pinning(v)
  BY DEF Pinning
<1> QED BY <1>1 DEF PinsExact

\* A call that had pinned nothing pins a version.
LEMMA PinAdd ==
  ASSUME TypeOK, PinsExact, NEW c \in Call, NEW v \in Version,
         call[c].pin = None, call'[c].pin = v, pins' = [pins EXCEPT ![v] = @ + 1],
         \A d \in Call \ {c} : call'[d].pin = call[d].pin
  PROVE  PinsExact'
<1> SUFFICES ASSUME NEW w \in Version
             PROVE  pins'[w] = Cardinality(Pinning(w)')
  BY DEF PinsExact
<1>0. v # None
  BY DEF Version, None
<1>1. CASE w = v
  <2>1. Pinning(w)' = Pinning(w) \cup {c} /\ c \notin Pinning(w)
    BY <1>0, <1>1 DEF Pinning
  <2>2. IsFiniteSet(Pinning(w))
    BY ConstantsAssumption, FS_Subset DEF Pinning
  <2>3. Cardinality(Pinning(w)') = Cardinality(Pinning(w)) + 1
    BY <2>1, <2>2, FS_AddElement
  <2>4. pins'[w] = pins[w] + 1
    BY <1>1 DEF TypeOK
  <2> QED BY <2>3, <2>4 DEF PinsExact
<1>2. CASE w # v
  <2>1. Pinning(w)' = Pinning(w)
    <3>1. w # None
      BY DEF Version, None
    <3>2. \A d \in Call : call'[d].pin = w <=> call[d].pin = w
      BY <1>2, <3>1
    <3> QED BY <3>2 DEF Pinning
  <2>2. pins'[w] = pins[w]
    BY <1>2 DEF TypeOK
  <2> QED BY <2>1, <2>2 DEF PinsExact
<1> QED BY <1>1, <1>2

\* A call drops its pin, if it has one.
LEMMA PinDrop ==
  ASSUME TypeOK, PinsExact, NEW c \in Call, Unpin(c), call'[c].pin = None,
         \A d \in Call \ {c} : call'[d].pin = call[d].pin
  PROVE  /\ PinsExact'
         /\ pins' \in [Version -> Nat]
<1>1. CASE call[c].pin = None
  <2>1. pins' = pins
    BY <1>1 DEF Unpin
  <2>2. \A d \in Call : call'[d].pin = call[d].pin
    BY <1>1
  <2> QED BY <2>1, <2>2, PinSame DEF TypeOK
<1>2. ASSUME NEW v \in Version, call[c].pin = v
      PROVE  PinsExact' /\ pins' \in [Version -> Nat]
  <2>0. v # None
    BY DEF Version, None
  <2>2. pins' = [pins EXCEPT ![v] = @ - 1]
    BY <1>2, <2>0 DEF Unpin
  <2>3. Pinning(v)' = Pinning(v) \ {c} /\ c \in Pinning(v)
    BY <1>2, <2>0 DEF Pinning
  <2>4. IsFiniteSet(Pinning(v))
    BY ConstantsAssumption, FS_Subset DEF Pinning
  <2>5. Cardinality(Pinning(v) \ {c}) = Cardinality(Pinning(v)) - 1
    BY <2>3, <2>4, FS_RemoveElement
  <2>6. IsFiniteSet(Pinning(v) \ {c})
    BY <2>4, FS_RemoveElement
  <2>7. Cardinality(Pinning(v) \ {c}) \in Nat
    BY <2>6, FS_CardinalityType
  <2>8. pins[v] = Cardinality(Pinning(v))
    BY DEF PinsExact
  <2>9. pins'[v] = Cardinality(Pinning(v)') /\ pins'[v] \in Nat
    BY <2>2, <2>3, <2>5, <2>7, <2>8 DEF TypeOK
  <2>10. ASSUME NEW w \in Version, w # v
         PROVE  pins'[w] = pins[w] /\ Pinning(w)' = Pinning(w)
    <3>1. w # None
      BY DEF Version, None
    <3>2. call[c].pin # w
      BY <1>2, <2>10
    <3>3. \A d \in Call : call'[d].pin = w <=> call[d].pin = w
      BY <3>1, <3>2
    <3> QED BY <2>2, <2>10, <3>3 DEF TypeOK, Pinning
  <2>11. pins' \in [Version -> Nat]
    BY <2>2, <2>9 DEF TypeOK
  <2>12. \A w \in Version : pins'[w] = Cardinality(Pinning(w)')
    BY <2>9, <2>10 DEF PinsExact
  <2> QED BY <2>11, <2>12 DEF PinsExact
<1>3. call[c].pin = None \/ call[c].pin \in Version
  BY DEF TypeOK, Frame, Version, None
<1> QED BY <1>1, <1>2, <1>3

(***************************************************************************)
(* Steps of one call.                                                      *)
(***************************************************************************)

LEMMA NewCallTyped ==
  \A c \in Call : /\ NewCall(c) \in Frame
                  /\ \A how \in Over : [NewCall(c) EXCEPT !.pc = how] \in Frame
<1> SUFFICES ASSUME NEW c \in Call
             PROVE  /\ NewCall(c) \in Frame
                    /\ \A how \in Over : [NewCall(c) EXCEPT !.pc = how] \in Frame
  OBVIOUS
<1>1. "lookup" \in Stage /\ Over \subseteq Stage
  BY DEF Stage, Over
<1>2. (IF c \in Pinned THEN Reads ELSE 1) \in 0..Reads
  BY ConstantsAssumption
<1>3. 0 \in 0..MaxVersion /\ 0 \in 0..Latency
  BY ConstantsAssumption
<1>4. NewCall(c) \in Frame
  BY <1>1, <1>2, <1>3 DEF NewCall, Frame, None
<1> QED BY <1>1, <1>4 DEF Frame

LEMMA InitHolds == Init => ReadIInv
<1> SUFFICES ASSUME Init
             PROVE  ReadIInv
  OBVIOUS
<1>1. TypeOK
  <2>1. NoEntry \in [held : BOOLEAN, version : 0..MaxVersion, left : 0..TTL]
    BY ConstantsAssumption DEF NoEntry, None
  <2> QED BY <2>1, NewCallTyped, ConstantsAssumption DEF Init, TypeOK, Stale, None
<1>2. PinsExact
  <2>1. \A v \in Version : Pinning(v) = {}
    BY DEF Init, Pinning, NewCall, Version, None
  <2> QED BY <2>1, FS_EmptySet DEF Init, PinsExact
<1>3. CallsHold
  BY ConstantsAssumption DEF Init, CallsHold, CallHolds, NewCall, Before, Using, Stage, Over, None, At
<1>4. CurrentWhole /\ SinceStarts /\ CachePast /\ CacheFreshEnough /\ StagedComplete
  BY ConstantsAssumption
     DEF Init, CurrentWhole, SinceStarts, CachePast, CacheFreshEnough, StagedComplete, Cached,
         NoEntry, None, Version
<1> QED BY <1>1, <1>2, <1>3, <1>4 DEF ReadIInv

\* What holds of a call holds on while it, the pointer and the versions' ages stay.
LEMMA OthersHold ==
  ASSUME CallsHold, NEW c \in Call, UNCHANGED <<pointer, since>>,
         \A d \in Call \ {c} : call'[d] = call[d]
  PROVE  \A d \in Call \ {c} : CallHolds(d)'
  BY DEF CallsHold, CallHolds, At

\* A step that moves one call on and touches nothing shared.
LEMMA OwnStep ==
  ASSUME ReadIInv, NEW c \in Call, NEW f \in Frame, call' = [call EXCEPT ![c] = f],
         UNCHANGED <<bucket, shared, scratch, since>>, f.pin = call[c].pin, CallHolds(c)'
  PROVE  ReadIInv'
<1> USE DEF bucket, shared, scratch, ReadIInv
<1>1. /\ call' \in [Call -> Frame] /\ call'[c] = f
      /\ \A d \in Call \ {c} : call'[d] = call[d]
  BY DEF TypeOK
<1>2. TypeOK'
  BY <1>1 DEF TypeOK
<1>3. PinsExact'
  BY <1>1, PinSame
<1>4. CallsHold'
  BY <1>1, OthersHold DEF CallsHold
<1>5. CurrentWhole' /\ SinceStarts' /\ CachePast' /\ CacheFreshEnough' /\ StagedComplete'
  BY DEF CurrentWhole, SinceStarts, CachePast, CacheFreshEnough, StagedComplete, Cached
<1> QED BY <1>2, <1>3, <1>4, <1>5

\* A step that ends a call.
LEMMA EndStep ==
  ASSUME ReadIInv, NEW c \in Call, NEW how \in Over, End(c, how),
         UNCHANGED <<bucket, cache, scratch, since>>
  PROVE  ReadIInv'
<1> USE DEF bucket, scratch, ReadIInv
<1> DEFINE f == [NewCall(c) EXCEPT !.pc = how]
<1>0. f \in Frame /\ call' = [call EXCEPT ![c] = f]
  BY NewCallTyped DEF End
<1>1. /\ call' \in [Call -> Frame] /\ call'[c] = f
      /\ \A d \in Call \ {c} : call'[d] = call[d]
  BY <1>0 DEF TypeOK
<1>2. PinsExact' /\ pins' \in [Version -> Nat]
  <2>1. call'[c].pin = None
    BY <1>1 DEF NewCall
  <2> QED BY <1>1, <2>1, PinDrop DEF End
<1>3. TypeOK'
  BY <1>1, <1>2 DEF TypeOK
<1>4. CallHolds(c)'
  BY <1>1, ConstantsAssumption
     DEF CallHolds, NewCall, Before, Using, Stage, Over, None, At, TypeOK
<1>5. CallsHold'
  BY <1>1, <1>4, OthersHold DEF CallsHold
<1>6. CurrentWhole' /\ SinceStarts' /\ CachePast' /\ CacheFreshEnough' /\ StagedComplete'
  BY DEF CurrentWhole, SinceStarts, CachePast, CacheFreshEnough, StagedComplete, Cached
<1> QED BY <1>2, <1>3, <1>5, <1>6

\* A call that goes on with its version.
LEMMA StillUsing ==
  ASSUME NEW c \in Call, call[c] \in Frame, CallHolds(c), UNCHANGED pointer,
         call[c].pc \in Using \ {"closing"},
         call'[c].pc \in {"staging", "opening", "renamed", "keeping", "sweeping"},
         call'[c].ver = call[c].ver, call'[c].fresh = call[c].fresh,
         call'[c].left = call[c].left, call'[c].seen = call[c].seen
  PROVE  CallHolds(c)'
  BY DEF CallHolds, At, Before, Using, Stage, Over, Frame

\* The steps of a call that touch nothing shared.
LEMMA OwnSteps ==
  ASSUME ReadIInv, NEW c \in Call,
         \/ Hit(c) \/ Resolve(c) \/ Staged(c) \/ Open(c) \/ Peek(c) \/ List(c)
         \/ (\E p \in Part : Fetch(c, p)) \/ Incomplete(c)
         \/ KeepPinned(c) \/ KeepCached(c) \/ Swept(c) \/ Recover(c)
  PROVE  ReadIInv'
<1>0. call[c] \in Frame /\ CallHolds(c) /\ TypeOK /\ call[c].ver \in 0..MaxVersion
  BY DEF ReadIInv, CallsHold, TypeOK, Frame
<1>1. CASE Hit(c)
  <2> DEFINE f == [call[c] EXCEPT !.pc = "resolved", !.ver = cache.version]
  <2>1. f \in Frame /\ f.pin = call[c].pin
    BY <1>0 DEF Frame, Stage, TypeOK
  <2>2. call' = [call EXCEPT ![c] = f]
    BY <1>1 DEF Hit
  <2>3. call'[c] = f
    BY <2>2 DEF TypeOK, ReadIInv
  <2>5. /\ call'[c].pc = "resolved" /\ call'[c].ver = cache.version /\ call'[c].pin = call[c].pin
        /\ call'[c].seen = call[c].seen /\ call'[c].left = call[c].left /\ call'[c].fresh = call[c].fresh
    BY <1>0, <2>3 DEF Frame
  <2> HIDE DEF f
  <2>6. cache.version <= pointer /\ call[c].seen = {} /\ call[c].pin = None /\ pointer' = pointer
    BY <1>0, <1>1 DEF Hit, ReadIInv, CachePast, CallHolds, At, Before, bucket
  <2>4. CallHolds(c)'
    BY <1>0, <1>1, <2>5, <2>6 DEF Hit, CallHolds, At, Before, Using, Stage, Over
  <2> QED BY <1>1, <2>1, <2>2, <2>4, OwnStep DEF Hit
<1>2. CASE Resolve(c)
  <2> DEFINE f == [call[c] EXCEPT !.pc = "caching", !.ver = pointer]
  <2>1. f \in Frame /\ f.pin = call[c].pin
    BY <1>0 DEF Frame, Stage, TypeOK
  <2>2. call' = [call EXCEPT ![c] = f]
    BY <1>2 DEF Resolve
  <2>3. call'[c] = f
    BY <2>2 DEF TypeOK, ReadIInv
  <2>4. pointer # None => since[pointer] = 0
    BY <1>0 DEF ReadIInv, SinceStarts, TypeOK, Version, None
  <2>5. CallHolds(c)'
    BY <1>0, <1>2, <2>3, <2>4 DEF Resolve, CallHolds, At, Before, Using, Stage, Over, bucket, Frame, TypeOK
  <2> QED BY <1>2, <2>1, <2>2, <2>5, OwnStep DEF Resolve
<1>3. CASE Staged(c)
  <2> DEFINE f == [call[c] EXCEPT !.pc = "opening"]
  <2>1. f \in Frame /\ f.pin = call[c].pin
    BY <1>0 DEF Frame, Stage
  <2>2. call' = [call EXCEPT ![c] = f]
    BY <1>3 DEF Staged
  <2>3. call'[c] = f
    BY <2>2 DEF TypeOK, ReadIInv
  <2>4. CallHolds(c)'
    BY <1>0, <1>3, <2>3, StillUsing DEF Staged, At, Using, Stage, Before, Over, bucket, Frame
  <2> QED BY <1>3, <2>1, <2>2, <2>4, OwnStep DEF Staged
<1>4. ASSUME NEW whole \in BOOLEAN, Answer(c, whole), call[c].pc \in {"staging", "opening"},
             UNCHANGED <<bucket, shared, scratch, since>>
      PROVE  ReadIInv'
  <2> DEFINE next == IF call[c].left = 1 THEN "closing" ELSE "staging"
             f == [call[c] EXCEPT !.pc = next, !.left = @ - 1, !.seen = @ \cup {call[c].ver},
                                  !.torn = @ \/ ~whole]
  <2>0. call[c].left >= 1 /\ call[c].ver \in Version
    BY <1>0, <1>4 DEF CallHolds, Using, Stage, Before, Over, Frame, Version, None
  <2>1. /\ next \in Stage /\ call[c].left - 1 \in 0..Reads
        /\ call[c].seen \cup {call[c].ver} \in SUBSET Version
        /\ (call[c].torn \/ ~whole) \in BOOLEAN
    BY <1>0, <2>0, ConstantsAssumption DEF Frame, Stage
  <2>2. f \in Frame /\ f.pin = call[c].pin
    BY <1>0, <2>1 DEF Frame
  <2>3. call' = [call EXCEPT ![c] = f]
    BY <1>4 DEF Answer
  <2>4. /\ call'[c].pc = next /\ call'[c].left = call[c].left - 1
        /\ call'[c].seen = call[c].seen \cup {call[c].ver}
        /\ call'[c].ver = call[c].ver /\ call'[c].fresh = call[c].fresh
    BY <1>0, <2>3 DEF TypeOK, Frame
  <2>5. CallHolds(c)'
    BY <1>0, <1>4, <2>0, <2>4 DEF CallHolds, At, Before, Using, Stage, Over, bucket, Frame
  <2> QED BY <1>4, <2>2, <2>3, <2>5, OwnStep
<1>5. CASE Open(c)
  BY <1>4, <1>5 DEF Open, At
<1>6. ASSUME Missing(c), At(c, "fetching") , call[c].ver < pointer,
             UNCHANGED <<bucket, shared, scratch, since>>
      PROVE  ReadIInv'
  <2> DEFINE f == [call[c] EXCEPT !.pc = "missing", !.todo = {}, !.got = {}]
  <2>1. f \in Frame /\ f.pin = call[c].pin
    BY <1>0 DEF Frame, Stage
  <2>2. call' = [call EXCEPT ![c] = f]
    BY <1>6 DEF Missing
  <2>3. call'[c] = f
    BY <2>2 DEF TypeOK, ReadIInv
  <2>4. CallHolds(c)'
    BY <1>0, <1>6, <2>3 DEF CallHolds, At, Before, Using, Stage, Over, bucket, Frame
  <2> QED BY <1>6, <2>1, <2>2, <2>4, OwnStep
\* What is missing belongs to a version that is no longer current.
<1>7. ASSUME call[c].pc \in {"staging", "fetching"}, blobs[call[c].ver] # Part
      PROVE  call[c].ver < pointer
  <2>1. call[c].ver \in Version /\ call[c].ver <= pointer
    BY <1>0, <1>7 DEF CallHolds, Using, Stage, Before, Over, Version, None
  <2>2. call[c].ver # None /\ call[c].ver # pointer
    BY <1>7, <2>1 DEF ReadIInv, CurrentWhole, Version, None
  <2>3. call[c].ver \in Nat /\ pointer \in Nat
    BY <1>0, <2>1 DEF TypeOK, Version
  <2> QED BY <2>1, <2>2, <2>3
<1>8. CASE Peek(c)
  <2>1. CASE Answer(c, TRUE)
    BY <1>4, <1>8, <2>1 DEF Peek, At
  <2>2. CASE Manifest \notin blobs[call[c].ver] /\ call' = [call EXCEPT ![c].pc = "missing"]
    <3> DEFINE f == [call[c] EXCEPT !.pc = "missing"]
    <3>1. f \in Frame /\ f.pin = call[c].pin
      BY <1>0 DEF Frame, Stage
    <3>2. call' = [call EXCEPT ![c] = f]
      BY <2>2
    <3>3. call'[c] = f
      BY <3>2 DEF TypeOK, ReadIInv
    <3>4. call[c].ver < pointer
      BY <1>7, <1>8, <2>2 DEF Peek, At, Part
    <3>5. CallHolds(c)'
      BY <1>0, <1>8, <3>3, <3>4 DEF Peek, CallHolds, At, Before, Using, Stage, Over, bucket, Frame
    <3> QED BY <1>8, <3>1, <3>2, <3>5, OwnStep DEF Peek
  <2> QED BY <1>8, <2>1, <2>2 DEF Peek
<1>9. CASE List(c)
  <2> DEFINE f == [call[c] EXCEPT !.pc = "fetching", !.todo = blobs[call[c].ver]]
  <2>0. call[c].ver \in Version
    BY <1>0, <1>9 DEF List, At, CallHolds, Using, Stage, Before, Over, Version, None
  <2>1. f \in Frame /\ f.pin = call[c].pin
    BY <1>0, <2>0 DEF Frame, Stage, TypeOK
  <2>2. call' = [call EXCEPT ![c] = f]
    BY <1>9 DEF List
  <2>3. call'[c] = f
    BY <2>2 DEF TypeOK, ReadIInv
  <2>4. call[c].ver >= pointer => blobs[call[c].ver] \cup call[c].got = Part
    <3>1. call[c].ver >= pointer => blobs[call[c].ver] = Part
      BY <1>7, <1>9, <2>0, <1>0, ConstantsAssumption DEF List, At, TypeOK, Version
    <3> QED BY <1>0, <3>1 DEF Frame
  <2>6. /\ call'[c].pc = "fetching" /\ call'[c].ver = call[c].ver /\ call'[c].left = call[c].left
        /\ call'[c].seen = call[c].seen /\ call'[c].fresh = call[c].fresh
        /\ call'[c].todo = blobs[call[c].ver] /\ call'[c].got = call[c].got
    BY <1>0, <2>3 DEF Frame
  <2> HIDE DEF f
  <2>5. CallHolds(c)'
    BY <1>0, <1>9, <2>4, <2>6 DEF List, CallHolds, At, Before, Using, Stage, Over, bucket, Frame
  <2> QED BY <1>9, <2>1, <2>2, <2>5, OwnStep DEF List
<1>10. ASSUME NEW p \in Part, Fetch(c, p)
       PROVE  ReadIInv'
  <2>1. CASE p \notin blobs[call[c].ver]
    <3>1. call[c].ver < pointer
      BY <1>7, <1>10, <2>1 DEF Fetch, At
    <3> QED BY <1>6, <1>10, <2>1, <3>1 DEF Fetch
  <2>2. CASE p \in blobs[call[c].ver]
    <3> DEFINE f == [call[c] EXCEPT !.todo = @ \ {p}, !.got = @ \cup {p}]
    <3>1. f \in Frame /\ f.pin = call[c].pin
      BY <1>0 DEF Frame
    <3>2. call' = [call EXCEPT ![c] = f]
      BY <1>10, <2>2 DEF Fetch
    <3>3. call'[c] = f
      BY <3>2 DEF TypeOK, ReadIInv
    <3>4. call[c].todo \cup call[c].got = f.todo \cup f.got
      BY <1>0, <1>10 DEF Fetch, Frame
    <3>5. CallHolds(c)'
      BY <1>0, <1>10, <3>3, <3>4 DEF Fetch, CallHolds, At, Before, Using, Stage, Over, bucket, Frame
    <3> QED BY <1>10, <3>1, <3>2, <3>5, OwnStep DEF Fetch
  <2> QED BY <2>1, <2>2
<1>11. CASE Incomplete(c)
  <2>1. call[c].ver < pointer
    BY <1>0, <1>11, ConstantsAssumption DEF Incomplete, CallHolds, At, TypeOK
  <2> QED BY <1>6, <1>11, <2>1 DEF Incomplete
<1>12. CASE KeepPinned(c)
  <2> DEFINE kept == {call[c].ver} \cup {v \in Version : pins[v] > 0}
             f == [call[c] EXCEPT !.pc = "keeping", !.keep = kept]
  <2>0. kept \in SUBSET Version
    BY <1>0, <1>12 DEF KeepPinned, At, CallHolds, Using, Stage, Before, Over, Version, None
  <2>2. call' = [call EXCEPT ![c] = f]
    BY <1>12 DEF KeepPinned
  <2> HIDE DEF kept
  <2>1. f \in Frame /\ f.pin = call[c].pin
    BY <1>0, <2>0 DEF Frame, Stage
  <2>3. call'[c] = f
    BY <2>2 DEF TypeOK, ReadIInv
  <2>5. /\ call'[c].pc = "keeping" /\ call'[c].ver = call[c].ver /\ call'[c].fresh = call[c].fresh
        /\ call'[c].left = call[c].left /\ call'[c].seen = call[c].seen
    BY <1>0, <2>3 DEF Frame
  <2> HIDE DEF f
  <2>4. CallHolds(c)'
    BY <1>0, <1>12, <2>5, StillUsing DEF KeepPinned, At, Using, Stage, Before, Over, bucket
  <2> QED BY <1>12, <2>1, <2>2, <2>4, OwnStep DEF KeepPinned
<1>13. CASE KeepCached(c)
  <2> DEFINE cached == IF cache.held THEN {cache.version} ELSE {}
             doom == dirs \ (call[c].keep \cup cached)
             f == [call[c] EXCEPT !.pc = "sweeping", !.keep = {}, !.doomed = doom]
  <2>0. doom \in SUBSET Version
    BY <1>0 DEF TypeOK
  <2>2. call' = [call EXCEPT ![c] = f]
    BY <1>13 DEF KeepCached
  <2> HIDE DEF doom
  <2>1. f \in Frame /\ f.pin = call[c].pin
    BY <1>0, <2>0 DEF Frame, Stage
  <2>3. call'[c] = f
    BY <2>2 DEF TypeOK, ReadIInv
  <2>5. /\ call'[c].pc = "sweeping" /\ call'[c].ver = call[c].ver /\ call'[c].fresh = call[c].fresh
        /\ call'[c].left = call[c].left /\ call'[c].seen = call[c].seen
    BY <1>0, <2>3 DEF Frame
  <2> HIDE DEF f
  <2>4. CallHolds(c)'
    BY <1>0, <1>13, <2>5, StillUsing DEF KeepCached, At, Using, Stage, Before, Over, bucket
  <2> QED BY <1>13, <2>1, <2>2, <2>4, OwnStep DEF KeepCached
<1>14. CASE Swept(c)
  <2> DEFINE f == [call[c] EXCEPT !.pc = "opening", !.doomed = {}]
  <2>1. f \in Frame /\ f.pin = call[c].pin
    BY <1>0 DEF Frame, Stage
  <2>2. call' = [call EXCEPT ![c] = f]
    BY <1>14 DEF Swept
  <2>3. call'[c] = f
    BY <2>2 DEF TypeOK, ReadIInv
  <2>5. /\ call'[c].pc = "opening" /\ call'[c].ver = call[c].ver /\ call'[c].fresh = call[c].fresh
        /\ call'[c].left = call[c].left /\ call'[c].seen = call[c].seen
    BY <1>0, <2>3 DEF Frame
  <2> HIDE DEF f
  <2>4. CallHolds(c)'
    BY <1>0, <1>14, <2>5, StillUsing DEF Swept, At, Using, Stage, Before, Over, bucket
  <2> QED BY <1>14, <2>1, <2>2, <2>4, OwnStep DEF Swept
<1>15. CASE Recover(c)
  <2> DEFINE f == [call[c] EXCEPT !.pc = "recovering", !.fresh = pointer]
  <2>1. f \in Frame /\ f.pin = call[c].pin
    BY <1>0 DEF Frame, Stage, TypeOK
  <2>2. call' = [call EXCEPT ![c] = f]
    BY <1>15 DEF Recover
  <2>3. call'[c] = f
    BY <2>2 DEF TypeOK, ReadIInv
  <2>4. call[c].ver < pointer /\ pointer > call[c].ver /\ pointer \in Version
    BY <1>0, <1>15, ConstantsAssumption DEF Recover, At, CallHolds, TypeOK, Version
  <2>5. since[pointer] = 0
    BY <2>4 DEF ReadIInv, SinceStarts, Version
  <2>7. /\ call'[c].pc = "recovering" /\ call'[c].ver = call[c].ver /\ call'[c].left = call[c].left
        /\ call'[c].seen = call[c].seen /\ call'[c].fresh = pointer /\ call'[c].age = call[c].age
    BY <1>0, <2>3 DEF Frame
  <2>8. call[c].age >= 0
    BY <1>0 DEF Frame
  <2> HIDE DEF f
  <2>9. /\ call[c].pc = "missing" /\ pointer' = pointer /\ since' = since
        /\ c \in Pinned => call[c].seen \subseteq {call[c].ver}
        /\ call[c].left >= 1 /\ call[c].ver # None
    BY <1>0, <1>15 DEF Recover, CallHolds, At, Using, Stage, Before, Over, bucket
  <2>6. CallHolds(c)'
    BY <1>0, <2>4, <2>5, <2>7, <2>8, <2>9, ConstantsAssumption DEF CallHolds, At, Before, Over, Version
  <2> QED BY <1>15, <2>1, <2>2, <2>6, OwnStep DEF Recover
<1> QED BY <1>1, <1>2, <1>3, <1>5, <1>8, <1>9, <1>10, <1>11, <1>12, <1>13, <1>14, <1>15

(***************************************************************************)
(* Steps of a call that touch what others see.                             *)
(***************************************************************************)

LEMMA CacheStep ==
  ASSUME ReadIInv, NEW c \in Call, Cache(c)
  PROVE  ReadIInv'
<1> USE DEF ReadIInv, bucket, scratch
<1> DEFINE f == [call[c] EXCEPT !.pc = "resolved", !.age = 0]
<1>0. call[c] \in Frame /\ CallHolds(c) /\ call[c].pc = "caching" /\ call[c].ver \in 0..MaxVersion
  BY DEF CallsHold, TypeOK, Frame, Cache, At
<1>1. f \in Frame /\ call' = [call EXCEPT ![c] = f]
  <2>0. 0 \in 0..Latency
    BY ConstantsAssumption
  <2>1. f \in Frame
    BY <1>0, <2>0 DEF Frame, Stage
  <2> QED BY <2>1 DEF Cache
<1>2. /\ call' \in [Call -> Frame] /\ call'[c] = f
      /\ \A d \in Call \ {c} : call'[d] = call[d]
  BY <1>1 DEF TypeOK
<1>3. cache' = [held |-> TRUE, version |-> call[c].ver, left |-> TTL] /\ since' = since /\ pointer' = pointer
  BY DEF Cache, CacheVersion
<1>4. TypeOK'
  <2>1. cache' \in [held : BOOLEAN, version : 0..MaxVersion, left : 0..TTL]
    BY <1>0, <1>3, ConstantsAssumption
  <2> QED BY <1>2, <2>1 DEF TypeOK, Cache
<1>5. PinsExact'
  <2>1. call'[c].pin = call[c].pin
    BY <1>0, <1>2 DEF Frame
  <2>2. \A d \in Call : call'[d].pin = call[d].pin
    BY <1>2, <2>1
  <2> QED BY <2>2, PinSame DEF Cache
<1>6. CallHolds(c)'
  <2>1. /\ call'[c].pc = "resolved" /\ call'[c].ver = call[c].ver /\ call'[c].fresh = call[c].fresh
        /\ call'[c].pin = call[c].pin /\ call'[c].left = call[c].left /\ call'[c].seen = call[c].seen
    BY <1>0, <1>2 DEF Frame
  <2> QED BY <1>0, <1>3, <2>1 DEF CallHolds, At, Before, Using, Stage, Over
<1>7. CallsHold'
  BY <1>2, <1>3, <1>6, OthersHold DEF CallsHold
<1>8. CachePast' /\ CacheFreshEnough'
  <2>1. call[c].ver <= pointer /\ (call[c].ver # None => since[call[c].ver] <= Latency)
    <3>1. call[c].ver # None => since[call[c].ver] \in 0..Stale
      BY <1>0 DEF TypeOK, Version, None
    <3> QED BY <1>0, <3>1, ConstantsAssumption DEF CallHolds, At, Frame, Stale
  <2> QED BY <1>3, <2>1, ConstantsAssumption DEF CachePast, CacheFreshEnough, Cached
<1>9. CurrentWhole' /\ SinceStarts' /\ StagedComplete'
  BY DEF Cache, CurrentWhole, SinceStarts, StagedComplete
<1> QED BY <1>4, <1>5, <1>7, <1>8, <1>9

LEMMA UseStep ==
  ASSUME ReadIInv, NEW c \in Call, Use(c)
  PROVE  ReadIInv'
<1> USE DEF ReadIInv, bucket, scratch
<1>0. /\ call[c] \in Frame /\ CallHolds(c) /\ call[c].pc = "resolved"
      /\ call[c].ver \in Version /\ call[c].pin = None /\ call[c].seen = {} /\ call[c].left >= 1
  BY DEF CallsHold, CallHolds, TypeOK, Frame, Use, At, Version, None, Before
<1>1. call' \in [Call -> Frame] /\ \A d \in Call \ {c} : call'[d] = call[d]
  <2>1. CASE c \in Pinned
    <3> DEFINE f == [call[c] EXCEPT !.pc = "staging", !.pin = call[c].ver]
    <3>1. f \in Frame /\ call' = [call EXCEPT ![c] = f]
      BY <1>0, <2>1 DEF Use, Frame, Stage, Version
    <3> QED BY <3>1 DEF TypeOK
  <2>2. CASE c \notin Pinned
    <3> DEFINE f == [call[c] EXCEPT !.pc = "staging"]
    <3>1. f \in Frame /\ call' = [call EXCEPT ![c] = f]
      BY <1>0, <2>2 DEF Use, Frame, Stage
    <3> QED BY <3>1 DEF TypeOK
  <2> QED BY <2>1, <2>2
<1>2. /\ call'[c].pc = "staging" /\ call'[c].ver = call[c].ver /\ call'[c].fresh = call[c].fresh
      /\ call'[c].left = call[c].left /\ call'[c].seen = call[c].seen
      /\ call'[c].pin = IF c \in Pinned THEN call[c].ver ELSE None
  BY <1>0 DEF Use, TypeOK, Frame
<1>3. PinsExact' /\ pins' \in [Version -> Nat]
  <2>1. CASE c \in Pinned
    <3>0. pins' = [pins EXCEPT ![call[c].ver] = @ + 1]
      BY <2>1 DEF Use
    <3>1. PinsExact'
      <4>1. PICK v \in Version : v = call[c].ver
        BY <1>0
      <4> QED BY <1>0, <1>1, <1>2, <2>1, <3>0, <4>1, PinAdd
    <3>2. pins' \in [Version -> Nat]
      BY <1>0, <3>0 DEF TypeOK
    <3> QED BY <3>1, <3>2
  <2>2. CASE c \notin Pinned
    <3>1. pins' = pins
      BY <2>2 DEF Use
    <3>2. \A d \in Call : call'[d].pin = call[d].pin
      BY <1>0, <1>1, <1>2, <2>2
    <3> QED BY <3>1, <3>2, PinSame DEF TypeOK
  <2> QED BY <2>1, <2>2
<1>4. TypeOK'
  BY <1>1, <1>3 DEF TypeOK, Use
<1>5. CallHolds(c)'
  BY <1>0, <1>2 DEF CallHolds, At, Before, Using, Stage, Over, Use, Version, None
<1>6. CallsHold'
  BY <1>1, <1>5, OthersHold DEF CallsHold, Use
<1>7. CurrentWhole' /\ SinceStarts' /\ CachePast' /\ CacheFreshEnough' /\ StagedComplete'
  BY DEF Use, CurrentWhole, SinceStarts, CachePast, CacheFreshEnough, StagedComplete, Cached
<1> QED BY <1>3, <1>4, <1>6, <1>7

\* A tree that is put into place is whole, and no sweep has begun to delete it.
LEMMA InstallStep ==
  ASSUME ReadIInv, NEW c \in Call, Install(c)
  PROVE  ReadIInv'
<1> USE DEF ReadIInv, bucket, shared
<1> DEFINE f == [call[c] EXCEPT !.pc = "renamed", !.got = {}]
<1>0. /\ call[c] \in Frame /\ CallHolds(c) /\ call[c].pc = "fetching" /\ call[c].ver \in Version
      /\ call[c].got \ {Manifest} = File
  <2>1. call[c] \in Frame /\ CallHolds(c) /\ call[c].pc = "fetching"
    BY DEF CallsHold, TypeOK, Install, At
  <2>2. call[c].ver \in Version
    BY <2>1 DEF CallHolds, Frame, Using, Stage, Before, Over, Version, None
  <2>3. call[c].got = File \cup {Manifest}
    BY DEF Install, Part
  <2>4. call[c].got \ {Manifest} = File
    BY <2>3, ConstantsAssumption
  <2> QED BY <2>1, <2>2, <2>4
<1>1. f \in Frame /\ call' = [call EXCEPT ![c] = f]
  BY <1>0 DEF Frame, Stage, Install, Rename
<1>2. /\ call' \in [Call -> Frame] /\ call'[c] = f
      /\ \A d \in Call \ {c} : call'[d] = call[d]
  BY <1>1 DEF TypeOK
<1>3. /\ dirs' \in SUBSET Version /\ cut' \in SUBSET Version
      /\ files' \in [Version -> SUBSET File] /\ StagedComplete'
  <2>1. CASE call[c].ver \in dirs
    BY <2>1 DEF Install, Rename, scratch, TypeOK, StagedComplete
  <2>2. CASE call[c].ver \notin dirs
    <3>1. dirs' = dirs \cup {call[c].ver} /\ files' = [files EXCEPT ![call[c].ver] = File]
          /\ cut' = cut \ {call[c].ver}
      BY <1>0, <2>2 DEF Install, Rename
    <3> QED BY <1>0, <3>1 DEF TypeOK, StagedComplete
  <2> QED BY <2>1, <2>2
<1>4. TypeOK'
  BY <1>2, <1>3 DEF TypeOK, Install, Rename
<1>5. /\ call'[c].pc = "renamed" /\ call'[c].ver = call[c].ver /\ call'[c].fresh = call[c].fresh
      /\ call'[c].left = call[c].left /\ call'[c].seen = call[c].seen /\ call'[c].pin = call[c].pin
  BY <1>0, <1>2 DEF Frame
<1>6. PinsExact'
  BY <1>2, <1>5, PinSame DEF Install, Rename
<1>7. UNCHANGED <<pointer, blobs, cache, since>>
  BY DEF Install, Rename
<1>8. CallsHold'
  <2>1. CallHolds(c)'
    BY <1>0, <1>5, <1>7, StillUsing DEF Using, Stage, Before, Over
  <2> QED BY <1>2, <1>7, <2>1, OthersHold DEF CallsHold
<1>9. CurrentWhole' /\ SinceStarts' /\ CachePast' /\ CacheFreshEnough'
  BY <1>7 DEF CurrentWhole, SinceStarts, CachePast, CacheFreshEnough, Cached
<1> QED BY <1>3, <1>4, <1>6, <1>8, <1>9

LEMMA UnlinkStep ==
  ASSUME ReadIInv, NEW c \in Call, NEW v \in Version, NEW x \in File, Unlink(c, v, x)
  PROVE  ReadIInv'
<1> USE DEF ReadIInv, bucket, shared
<1>0. call[c] \in Frame /\ CallHolds(c) /\ call[c].pc = "sweeping"
  BY DEF CallsHold, TypeOK, Unlink, At
<1>1. /\ call' \in [Call -> Frame] /\ \A d \in Call \ {c} : call'[d] = call[d]
      /\ call'[c].pc = "sweeping" /\ call'[c].ver = call[c].ver /\ call'[c].fresh = call[c].fresh
      /\ call'[c].left = call[c].left /\ call'[c].seen = call[c].seen /\ call'[c].pin = call[c].pin
  <2>1. CASE call' = call
    BY <1>0, <2>1 DEF TypeOK
  <2>2. CASE call' = [call EXCEPT ![c].doomed = @ \ {v}]
    <3> DEFINE f == [call[c] EXCEPT !.doomed = @ \ {v}]
    <3>1. f \in Frame /\ call' = [call EXCEPT ![c] = f]
      BY <1>0, <2>2 DEF Frame
    <3>2. call' \in [Call -> Frame] /\ call'[c] = f /\ \A d \in Call \ {c} : call'[d] = call[d]
      BY <3>1 DEF TypeOK
    <3> QED BY <1>0, <3>2 DEF Frame
  <2> QED BY <2>1, <2>2 DEF Unlink
<1>2. /\ dirs' \in SUBSET Version /\ cut' \in SUBSET Version
      /\ files' \in [Version -> SUBSET File] /\ StagedComplete'
  BY DEF TypeOK, Unlink, StagedComplete
<1>3. UNCHANGED <<pointer, blobs, cache, pins, since>>
  BY DEF Unlink
<1>4. TypeOK'
  BY <1>1, <1>2, <1>3 DEF TypeOK
<1>5. PinsExact'
  BY <1>1, <1>3, PinSame
<1>6. CallsHold'
  <2>1. CallHolds(c)'
    BY <1>0, <1>1, <1>3, StillUsing DEF Using, Stage, Before, Over
  <2> QED BY <1>1, <1>3, <2>1, OthersHold DEF CallsHold
<1>7. CurrentWhole' /\ SinceStarts' /\ CachePast' /\ CacheFreshEnough'
  BY <1>3 DEF CurrentWhole, SinceStarts, CachePast, CacheFreshEnough, Cached
<1> QED BY <1>2, <1>4, <1>5, <1>6, <1>7

\* The call that found its version gone, with the pointer as it is now: there is a
\* newer version, so that no data is lost.
LEMMA ResumeStep ==
  ASSUME ReadIInv, NEW c \in Call, Resume(c)
  PROVE  /\ ReadIInv'
         /\ call'[c].pc # "lost"
<1> USE DEF ReadIInv, bucket, scratch
<1>0. /\ call[c] \in Frame /\ CallHolds(c) /\ call[c].pc = "recovering"
      /\ call[c].fresh \in Version /\ call[c].fresh > call[c].ver
      /\ call[c].fresh <= pointer /\ call[c].left >= 1
      /\ since[call[c].fresh] <= call[c].age
  <2>1. call[c] \in Frame /\ CallHolds(c) /\ call[c].pc = "recovering"
    BY DEF CallsHold, TypeOK, Resume, At
  <2>2. call[c].fresh > call[c].ver /\ call[c].ver \in 0..MaxVersion /\ call[c].fresh \in 0..MaxVersion
    BY <2>1 DEF CallHolds, At, Frame
  <2> QED BY <2>1, <2>2 DEF CallHolds, At, Version
<1>1. /\ cache' = [held |-> TRUE, version |-> call[c].fresh, left |-> TTL]
      /\ UNCHANGED <<pointer, blobs, dirs, files, cut, since>>
  BY DEF Resume, CacheVersion
<1>2. CachePast' /\ CacheFreshEnough'
  <2>1. since[call[c].fresh] <= Latency
    BY <1>0, ConstantsAssumption DEF TypeOK, Frame, Stale
  <2> QED BY <1>0, <1>1, <2>1, ConstantsAssumption DEF CachePast, CacheFreshEnough, Cached
<1>3. CurrentWhole' /\ SinceStarts' /\ StagedComplete'
  BY <1>1 DEF CurrentWhole, SinceStarts, StagedComplete
<1>4. cache' \in [held : BOOLEAN, version : 0..MaxVersion, left : 0..TTL]
  BY <1>0, <1>1, ConstantsAssumption DEF Version
<1>5. ASSUME call' \in [Call -> Frame], \A d \in Call \ {c} : call'[d] = call[d],
             pins' \in [Version -> Nat], PinsExact', CallHolds(c)', call'[c].pc # "lost"
      PROVE  ReadIInv' /\ call'[c].pc # "lost"
  <2>1. TypeOK'
    BY <1>1, <1>4, <1>5 DEF TypeOK
  <2>2. CallsHold'
    BY <1>1, <1>5, OthersHold DEF CallsHold
  <2> QED BY <1>2, <1>3, <1>5, <2>1, <2>2
<1>6. CASE Reread(c) /\ c \notin Pinned
  <2> DEFINE f == [call[c] EXCEPT !.pc = "staging", !.ver = call[c].fresh, !.fresh = None,
                                  !.age = 0, !.retried = TRUE]
  <2>1. f \in Frame
    <3>1. 0 \in 0..Latency /\ 0 \in 0..MaxVersion /\ call[c].fresh \in 0..MaxVersion
      BY <1>0, ConstantsAssumption DEF Version
    <3> QED BY <1>0, <3>1 DEF Frame, Stage, None
  <2>2. call' = [call EXCEPT ![c] = f] /\ pins' = pins
    BY <1>6 DEF Reread
  <2>3. call' \in [Call -> Frame] /\ call'[c] = f /\ \A d \in Call \ {c} : call'[d] = call[d]
    BY <2>1, <2>2 DEF TypeOK
  <2>4. /\ call'[c].pc = "staging" /\ call'[c].ver = call[c].fresh /\ call'[c].fresh = None
        /\ call'[c].left = call[c].left /\ call'[c].pin = call[c].pin
    BY <1>0, <2>3 DEF Frame
  <2>5. PinsExact'
    BY <2>2, <2>3, <2>4, PinSame
  <2>6. CallHolds(c)'
    BY <1>0, <1>1, <1>6, <2>4 DEF CallHolds, At, Before, Over, Version, None, TypeOK
  <2>7. pins' \in [Version -> Nat]
    BY <2>2 DEF TypeOK
  <2>8. call'[c].pc # "lost"
    BY <2>4
  <2> HIDE DEF f
  <2> QED BY <1>5, <2>3, <2>5, <2>6, <2>7, <2>8
<1>7. CASE Tell(c)
  <2> DEFINE f == [NewCall(c) EXCEPT !.pc = "over"]
  <2>1. f \in Frame /\ call' = [call EXCEPT ![c] = f]
    BY <1>7, NewCallTyped DEF Tell, End, Over
  <2>2. call' \in [Call -> Frame] /\ call'[c] = f /\ \A d \in Call \ {c} : call'[d] = call[d]
    BY <2>1 DEF TypeOK
  <2>3. call'[c].pin = None
    BY <2>2 DEF NewCall
  <2>4. PinsExact' /\ pins' \in [Version -> Nat]
    BY <1>7, <2>2, <2>3, PinDrop DEF Tell, End
  <2>5. CallHolds(c)'
    BY <1>1, <2>2, ConstantsAssumption DEF CallHolds, NewCall, Before, Using, Stage, Over, None, At, TypeOK
  <2>6. call'[c].pc # "lost"
    BY <2>2 DEF NewCall
  <2> HIDE DEF f
  <2> QED BY <1>5, <2>2, <2>4, <2>5, <2>6
<1>8. CASE Rerun(c)
  <2> DEFINE f == [NewCall(c) EXCEPT !.pc = "resolved", !.ver = call[c].fresh, !.retried = TRUE]
  <2>0. call[c].fresh \in 0..MaxVersion
    BY <1>0 DEF Version
  <2>1. f \in Frame
    <3> DEFINE n == NewCall(c)
    <3>1. n \in Frame
      BY NewCallTyped
    <3> HIDE DEF n
    <3>2. [n EXCEPT !.pc = "resolved", !.ver = call[c].fresh, !.retried = TRUE] \in Frame
      BY <2>0, <3>1 DEF Frame, Stage
    <3> QED BY <3>2 DEF n
  <2>2. call' = [call EXCEPT ![c] = f]
    BY <1>8 DEF Rerun
  <2>3. call' \in [Call -> Frame] /\ call'[c] = f /\ \A d \in Call \ {c} : call'[d] = call[d]
    BY <2>1, <2>2 DEF TypeOK
  <2>4. /\ call'[c].pc = "resolved" /\ call'[c].ver = call[c].fresh /\ call'[c].fresh = None
        /\ call'[c].pin = None /\ call'[c].seen = {}
        /\ call'[c].left = IF c \in Pinned THEN Reads ELSE 1
    BY <2>3 DEF NewCall
  <2>5. PinsExact' /\ pins' \in [Version -> Nat]
    BY <1>8, <2>3, <2>4, PinDrop DEF Rerun
  <2>6. CallHolds(c)'
    BY <1>0, <1>1, <2>4, ConstantsAssumption
       DEF CallHolds, At, Before, Using, Stage, Over, Version, None, TypeOK
  <2>7. call'[c].pc # "lost"
    BY <2>4
  <2> HIDE DEF f
  <2> QED BY <1>5, <2>3, <2>5, <2>6, <2>7
<1>9. call[c].fresh \notin {None, call[c].ver}
  BY <1>0 DEF Version, None, Frame
<1> QED BY <1>6, <1>7, <1>8, <1>9 DEF Resume

\* The steps that end a call.
LEMMA EndSteps ==
  ASSUME ReadIInv, NEW c \in Call, RequestFails(c) \/ Unknown(c) \/ Close(c) \/ Lose(c)
  PROVE  ReadIInv'
<1>1. "over" \in Over /\ "lost" \in Over
  BY DEF Over
<1> QED BY <1>1, EndStep DEF RequestFails, Unknown, Close, Lose

(***************************************************************************)
(* Steps of the fleet, the clock and the server.                           *)
(***************************************************************************)

LEMMA PublishStep ==
  ASSUME ReadIInv, NEW here \in BOOLEAN, Publish(here)
  PROVE  ReadIInv'
<1> USE DEF ReadIInv, scratch
<1>0. pointer \in Nat /\ pointer + 1 \in Version /\ pointer + 1 \in 0..MaxVersion
  BY ConstantsAssumption DEF TypeOK, Publish, Version
<1>1. /\ pointer' = pointer + 1 /\ blobs' = [blobs EXCEPT ![pointer + 1] = Part]
      /\ UNCHANGED <<pins, dirs, files, cut, call, since>>
  BY DEF Publish, Bucket!Publish
<1>2. \/ cache' = cache
      \/ cache' = [held |-> TRUE, version |-> pointer + 1, left |-> TTL]
  BY DEF Publish, CacheVersion
<1>3. TypeOK'
  <2>1. cache' \in [held : BOOLEAN, version : 0..MaxVersion, left : 0..TTL]
    <3>1. [held |-> TRUE, version |-> pointer + 1, left |-> TTL]
             \in [held : BOOLEAN, version : 0..MaxVersion, left : 0..TTL]
      BY <1>0, ConstantsAssumption
    <3> QED BY <1>2, <3>1 DEF TypeOK
  <2> QED BY <1>0, <1>1, <2>1 DEF TypeOK, Version
<1>4. PinsExact'
  BY <1>1, PinSame
<1>5. CurrentWhole' /\ SinceStarts'
  BY <1>0, <1>1, ConstantsAssumption DEF CurrentWhole, SinceStarts, TypeOK, Version
<1>6. CachePast' /\ CacheFreshEnough'
  <2>1. since[pointer + 1] = 0
    BY <1>0 DEF SinceStarts
  <2> QED BY <1>0, <1>1, <1>2, <2>1, ConstantsAssumption DEF CachePast, CacheFreshEnough, Cached, TypeOK
<1>7. CallsHold'
  <2> SUFFICES ASSUME NEW d \in Call
               PROVE  CallHolds(d)'
    BY DEF CallsHold
  <2>1. CallHolds(d) /\ call[d].ver \in 0..MaxVersion /\ call[d].fresh \in 0..MaxVersion
    BY DEF CallsHold, TypeOK, Frame
  <2> QED BY <1>0, <1>1, <2>1, ConstantsAssumption DEF CallHolds, At
<1>8. StagedComplete'
  BY <1>1 DEF StagedComplete
<1> QED BY <1>3, <1>4, <1>5, <1>6, <1>7, <1>8

LEMMA ReapStep ==
  ASSUME ReadIInv, NEW v \in Version, NEW p \in Part, ReapBlob(v, p)
  PROVE  ReadIInv'
<1> USE DEF ReadIInv, scratch, shared
<1>1. /\ UNCHANGED <<pointer, cache, pins, dirs, files, cut, call, since>>
      /\ v \in 1..(pointer - 1) /\ blobs' = [blobs EXCEPT ![v] = @ \ {p}]
  BY DEF ReapBlob, Bucket!Reap
<1>2. TypeOK'
  BY <1>1 DEF TypeOK
<1>3. CurrentWhole'
  <2>1. pointer \in Nat /\ v # pointer
    BY <1>1 DEF TypeOK, Version
  <2> QED BY <1>1, <2>1 DEF CurrentWhole, TypeOK
<1>4. PinsExact'
  BY <1>1, PinSame
<1>5. CallsHold'
  BY <1>1 DEF CallsHold, CallHolds, At
<1>6. SinceStarts' /\ CachePast' /\ CacheFreshEnough' /\ StagedComplete'
  BY <1>1 DEF SinceStarts, CachePast, CacheFreshEnough, Cached, StagedComplete
<1> QED BY <1>2, <1>3, <1>4, <1>5, <1>6

LEMMA TickStep ==
  ASSUME ReadIInv, Tick
  PROVE  ReadIInv'
<1> USE DEF ReadIInv, scratch, bucket
<1>1. UNCHANGED <<pointer, blobs, pins, dirs, files, cut>>
  BY DEF Tick
<1>2. /\ cache' \in [held : BOOLEAN, version : 0..MaxVersion, left : 0..TTL]
      /\ cache'.held = cache.held /\ cache'.version = cache.version
      /\ cache'.left > 0 => cache.left = cache'.left + 1
  BY ConstantsAssumption DEF Tick, TypeOK
<1>3. ASSUME NEW d \in Call
      PROVE  /\ call'[d] \in Frame
             /\ call'[d].pc = call[d].pc /\ call'[d].pin = call[d].pin /\ call'[d].ver = call[d].ver
             /\ call'[d].fresh = call[d].fresh /\ call'[d].left = call[d].left
             /\ call'[d].todo = call[d].todo /\ call'[d].got = call[d].got /\ call'[d].seen = call[d].seen
             /\ call[d].pc \in Carrying => call'[d].age = call[d].age + 1
  <2>0. call[d] \in Frame
    BY DEF TypeOK
  <2>1. CASE call[d].pc \in Carrying
    <3>1. call'[d] = [call[d] EXCEPT !.age = @ + 1] /\ call[d].age < Latency
      BY <2>1 DEF Tick
    <3>2. call[d].age + 1 \in 0..Latency
      BY <2>0, <3>1, ConstantsAssumption DEF Frame
    <3> QED BY <2>0, <3>1, <3>2 DEF Frame
  <2>2. CASE call[d].pc \notin Carrying
    BY <2>0, <2>2 DEF Tick
  <2> QED BY <2>1, <2>2
<1>4. \A v \in Version : /\ since'[v] \in 0..Stale
                         /\ since'[v] <= since[v] + 1
                         /\ v = pointer \/ v \notin Remembered => since'[v] = 0
  BY ConstantsAssumption DEF Tick, TypeOK, Smaller, Stale
<1>5. TypeOK'
  <2>1. call' \in [Call -> Frame]
    <3>1. call' = [d \in Call |-> call'[d]]
      BY DEF Tick
    <3> QED BY <1>3, <3>1
  <2>2. since' \in [Version -> 0..Stale]
    <3>1. since' = [v \in Version |-> since'[v]]
      BY DEF Tick
    <3> QED BY <1>4, <3>1
  <2> QED BY <1>1, <1>2, <2>1, <2>2 DEF TypeOK
<1>6. PinsExact'
  BY <1>1, <1>3, PinSame
<1>7. SinceStarts'
  <2> SUFFICES ASSUME NEW v \in Version, v > pointer
               PROVE  v \notin Remembered
    BY <1>1, <1>4 DEF SinceStarts, TypeOK, Version
  <2>1. \A d \in Call : call[d].ver # v /\ call[d].fresh # v
    BY DEF CallsHold, CallHolds, TypeOK, Frame, Version
  <2>2. cache.version # v
    BY DEF CachePast, TypeOK, Version
  <2> QED BY <2>1, <2>2 DEF Remembered
<1>8. CachePast' /\ CacheFreshEnough'
  <2>1. CASE cache'.left > 0 /\ cache.held /\ cache.version # None
    <3>1. cache.version \in Version
      BY <2>1 DEF TypeOK, Version, None
    <3>2. since[cache.version] <= (TTL - cache.left) + Latency
      BY <1>2, <2>1 DEF CacheFreshEnough, Cached, TypeOK
    <3> QED BY <1>1, <1>2, <1>4, <3>1, <3>2, ConstantsAssumption
            DEF CachePast, CacheFreshEnough, Cached, TypeOK, Stale
  <2> QED BY <1>1, <1>2, <2>1 DEF CachePast, CacheFreshEnough, Cached
<1>9. CallsHold'
  <2> SUFFICES ASSUME NEW d \in Call
               PROVE  CallHolds(d)'
    BY DEF CallsHold
  <2>1. CallHolds(d) /\ call[d] \in Frame
    BY DEF CallsHold, TypeOK
  <2>2. call[d].pc = "caching" /\ call[d].ver # None => since'[call[d].ver] <= call'[d].age
    <3>1. call[d].ver # None => call[d].ver \in Version
      BY <2>1 DEF Frame, Version, None
    <3> QED BY <1>3, <1>4, <2>1, <3>1, ConstantsAssumption DEF CallHolds, At, Carrying, Frame, TypeOK, Stale
  <2>3. call[d].pc = "recovering" => since'[call[d].fresh] <= call'[d].age
    <3>1. call[d].pc = "recovering" => call[d].fresh \in Version
      BY <2>1 DEF CallHolds, At, Frame, Version
    <3> QED BY <1>3, <1>4, <2>1, <3>1, ConstantsAssumption DEF CallHolds, At, Carrying, Frame, TypeOK, Stale
  <2> QED BY <1>1, <1>3, <2>1, <2>2, <2>3 DEF CallHolds, At
<1>10. CurrentWhole' /\ StagedComplete'
  BY <1>1 DEF CurrentWhole, StagedComplete
<1> QED BY <1>5, <1>6, <1>7, <1>8, <1>9, <1>10

LEMMA RestartStep ==
  ASSUME ReadIInv, Restart
  PROVE  ReadIInv'
<1> USE DEF ReadIInv, scratch, bucket
<1>1. UNCHANGED <<pointer, blobs, dirs, files, cut, since>> /\ cache' = NoEntry
  BY DEF Restart
<1>2. ASSUME NEW d \in Call
      PROVE  call'[d] \in Frame /\ call'[d].pin = None /\ CallHolds(d)'
  <2>0. call[d] \in Frame /\ CallHolds(d)
    BY DEF TypeOK, CallsHold
  <2>1. CASE call[d].pc \in Over
    <3>1. call'[d] = call[d]
      BY <2>1 DEF Restart
    <3> QED BY <1>1, <2>0, <2>1, <3>1 DEF CallHolds, At, Before
  <2>2. CASE call[d].pc \notin Over
    <3>1. call'[d] = NewCall(d)
      BY <2>2 DEF Restart
    <3>2. NewCall(d) \in Frame
      BY NewCallTyped
    <3>3. /\ call'[d].pc = "lookup" /\ call'[d].pin = None /\ call'[d].seen = {}
          /\ call'[d].ver = None /\ call'[d].fresh = None
          /\ call'[d].left = IF d \in Pinned THEN Reads ELSE 1
      BY <3>1 DEF NewCall
    <3> QED BY <1>1, <3>1, <3>2, <3>3, ConstantsAssumption
            DEF CallHolds, At, Before, Using, Stage, Over, None, TypeOK
  <2> QED BY <2>1, <2>2
<1>3. TypeOK'
  <2>1. NoEntry \in [held : BOOLEAN, version : 0..MaxVersion, left : 0..TTL]
    BY ConstantsAssumption DEF NoEntry, None
  <2>2. call' \in [Call -> Frame]
    <3>1. call' = [d \in Call |-> call'[d]]
      BY DEF Restart
    <3> QED BY <1>2, <3>1
  <2>3. pins' \in [Version -> Nat]
    BY DEF Restart
  <2> QED BY <1>1, <2>1, <2>2, <2>3 DEF TypeOK
<1>4. PinsExact'
  <2> SUFFICES ASSUME NEW v \in Version
               PROVE  pins'[v] = Cardinality(Pinning(v)')
    BY DEF PinsExact
  <2>1. Pinning(v)' = {}
    BY <1>2 DEF Pinning, Version, None
  <2> QED BY <2>1, FS_EmptySet DEF Restart
<1>5. CallsHold'
  BY <1>2 DEF CallsHold
<1>6. CurrentWhole' /\ SinceStarts' /\ CachePast' /\ CacheFreshEnough' /\ StagedComplete'
  BY <1>1 DEF CurrentWhole, SinceStarts, CachePast, CacheFreshEnough, StagedComplete, Cached, NoEntry,
              None, TypeOK
<1> QED BY <1>3, <1>4, <1>5, <1>6

LEMMA IInvStep == ReadIInv /\ [Next]_vars => ReadIInv'
<1> SUFFICES ASSUME ReadIInv, [Next]_vars
             PROVE  ReadIInv'
  OBVIOUS
<1>1. ASSUME NEW c \in Call, Resolving(c) \/ Reading(c) \/ Sweeping(c) \/ Recovering(c)
      PROVE  ReadIInv'
  BY <1>1, OwnSteps, EndSteps, CacheStep, UseStep, InstallStep, UnlinkStep, ResumeStep
     DEF Resolving, Reading, Sweeping, Recovering
<1>2. CASE UNCHANGED vars
  BY <1>2 DEF vars, bucket, shared, scratch, ReadIInv, TypeOK, CurrentWhole, PinsExact, Pinning,
              SinceStarts, CachePast, CallsHold, CallHolds, At, CacheFreshEnough, Cached, StagedComplete
<1> QED BY <1>1, <1>2, PublishStep, ReapStep, TickStep, RestartStep DEF Next

LEMMA Inductive == Spec => []ReadIInv
  BY InitHolds, IInvStep, PTL DEF Spec

(***************************************************************************)
(* The theorems.                                                           *)
(***************************************************************************)

\* The versions come and go as the contract of AtomicPublish allows, which publishers
\* implement (CloudPublishProofs!PublishRefines): what holds here, holds of readers
\* beside any number of them.
THEOREM ReadsWithinContract == Spec => Bucket!Spec
<1>1. Init => Bucket!Init
  BY DEF Init, Bucket!Init, None
<1>2. ReadIInv /\ [Next]_vars => [Bucket!Next]_<<pointer, 1..(pointer - 1), blobs>>
  <2> SUFFICES ASSUME ReadIInv, [Next]_vars
               PROVE  Bucket!Next \/ UNCHANGED <<pointer, 1..(pointer - 1), blobs>>
    OBVIOUS
  <2>1. ASSUME NEW here \in BOOLEAN, Publish(here)
        PROVE  Bucket!Next
    <3>1. pointer + 1 \in Version
      BY <2>1, ConstantsAssumption DEF Publish, ReadIInv, TypeOK, Version
    <3> QED BY <2>1, <3>1 DEF Publish, Bucket!Next
  <2>2. ASSUME NEW v \in Version, NEW p \in Part, ReapBlob(v, p)
        PROVE  Bucket!Next
    <3>1. {p} \in SUBSET Part
      OBVIOUS
    <3> QED BY <2>2, <3>1 DEF ReapBlob, Bucket!Next
  <2>3. ASSUME NEW c \in Call, Resolving(c) \/ Reading(c) \/ Sweeping(c) \/ Recovering(c)
        PROVE  UNCHANGED bucket
    BY <2>3 DEF Resolving, Reading, Sweeping, Recovering, Hit, Resolve, Cache, Unknown, Use, Staged, Open, Peek,
                List, Fetch, Incomplete, Install, Rename, RequestFails, Close, KeepPinned, KeepCached, Unlink, Swept,
                Recover, Resume, Lose
  <2>4. CASE Tick \/ Restart \/ UNCHANGED vars
    BY <2>4 DEF Tick, Restart, vars, bucket
  <2> QED BY <2>1, <2>2, <2>3, <2>4 DEF Next, bucket
<1> QED BY <1>1, <1>2, Inductive, PTL DEF Spec, Bucket!Spec

\* What the server keeps between calls is of its type, and a directory on scratch
\* that no sweep has begun to delete is the whole version.
THEOREM StagedTreesWhole == Spec => []ReadInv
<1>1. ReadIInv => ReadInv
  BY DEF ReadIInv, ReadInv
<1> QED BY <1>1, Inductive, PTL

\* A request stays on the one version it has pinned, which is counted until it
\* unpins, whatever other requests do.
THEOREM RequestsKeepTheirPin == Spec => []PinsHold
<1>1. ReadIInv => PinsHold
  <2> SUFFICES ASSUME ReadIInv
               PROVE  PinsHold
    OBVIOUS
  <2>1. PinsCounted
    <3> SUFFICES ASSUME NEW c \in Call, call[c].pin # None
                 PROVE  pins[call[c].pin] > 0
      BY DEF PinsCounted
    <3>1. PICK v \in Version : v = call[c].pin
      BY DEF ReadIInv, TypeOK, Frame, Version, None
    <3>2. c \in Pinning(v) /\ IsFiniteSet(Pinning(v))
      BY <3>1, ConstantsAssumption, FS_Subset DEF Pinning
    <3>3. Cardinality(Pinning(v)) # 0 /\ Cardinality(Pinning(v)) \in Nat
      BY <3>2, FS_EmptySet, FS_CardinalityType
    <3>4. pins[v] = Cardinality(Pinning(v))
      BY DEF ReadIInv, PinsExact
    <3> QED BY <3>1, <3>3, <3>4
  <2>2. OneVersionPerCall
    <3>1. \A c \in Call : c \in Pinned => call[c].seen \subseteq {call[c].ver}
      BY DEF ReadIInv, CallsHold, CallHolds
    <3>2. Pinned \subseteq Call
      BY ConstantsAssumption
    <3> QED BY <3>1, <3>2 DEF OneVersionPerCall
  <2> QED BY <2>1, <2>2 DEF PinsHold
<1> QED BY <1>1, Inductive, PTL

\* What the cache answers was current a lifetime and one lookup ago, or later.
THEOREM CacheBounded == Spec => []CacheFreshEnough
<1>1. ReadIInv => CacheFreshEnough
  BY DEF ReadIInv
<1> QED BY <1>1, Inductive, PTL

\* No tool call fails because its version was reaped under it.
THEOREM ReapLosesNoCall == Spec => NeverLostToReap
<1>1. ReadIInv /\ [Next]_vars
        => [\A c \in Call : (~At(c, "lost") /\ call'[c].pc = "lost")
               => c \notin Pinned /\ call[c].ver < pointer]_vars
  <2> SUFFICES ASSUME ReadIInv, Next, NEW c \in Call, call[c].pc # "lost", call'[c].pc = "lost"
               PROVE  c \notin Pinned /\ call[c].ver < pointer
    BY DEF At, vars, bucket, shared, scratch
  <2>0. TypeOK /\ call[c] \in Frame /\ CallHolds(c)
    BY DEF ReadIInv, TypeOK, CallsHold
  \* The step is the call's own, and of its steps only Resume and Lose end it so.
  <2>1. ASSUME NEW d \in Call, Resolving(d) \/ Reading(d) \/ Sweeping(d) \/ Recovering(d)
        PROVE  Lose(c)
    <3>1. CASE Resume(d)
      <4>1. call'[d].pc # "lost"
        BY <3>1, ResumeStep
      <4>2. d # c => call'[c] = call[c]
        BY <3>1, <2>0 DEF Resume, DataLost, End, Reread, Tell, Rerun, TypeOK
      <4> QED BY <4>1, <4>2
    <3>2. CASE Lose(d)
      <4>1. d # c => call'[c] = call[c]
        BY <3>2, <2>0 DEF Lose, End, TypeOK
      <4> QED BY <3>2, <4>1
    <3>3. CASE \/ Hit(d) \/ Resolve(d) \/ Cache(d) \/ Use(d) \/ Staged(d) \/ Open(d) \/ Peek(d)
               \/ List(d) \/ (\E p \in Part : Fetch(d, p)) \/ Incomplete(d) \/ Install(d)
               \/ KeepPinned(d) \/ KeepCached(d) \/ Swept(d) \/ Recover(d)
               \/ (\E v \in Version, x \in File : Unlink(d, v, x))
      <4>1. d # c => call'[c] = call[c]
        BY <3>3, <2>0 DEF Hit, Resolve, Cache, Use, Staged, Open, Peek, List, Fetch, Incomplete, Missing,
           Answer, Install, Rename, KeepPinned, KeepCached, Swept, Recover, Unlink, TypeOK
      <4>2. CASE Hit(d) \/ Resolve(d) \/ Cache(d) \/ Use(d)
        BY <2>0, <4>1, <4>2 DEF Hit, Resolve, Cache, Use, TypeOK, Frame
      <4>3. CASE Staged(d) \/ Open(d) \/ Peek(d) \/ List(d)
        BY <2>0, <4>1, <4>3 DEF Staged, Open, Peek, List, Answer, TypeOK, Frame
      <4>4. CASE (\E p \in Part : Fetch(d, p)) \/ Incomplete(d) \/ Install(d)
        <5>1. ASSUME NEW p \in Part, Fetch(d, p)
              PROVE  Lose(c)
          <6>1. call'[d].pc \in {"fetching", "missing"}
            BY <2>0, <5>1 DEF Fetch, At, Missing, TypeOK, Frame
          <6> QED BY <4>1, <6>1
        <5>2. CASE Incomplete(d)
          BY <2>0, <4>1, <5>2 DEF Incomplete, Missing, TypeOK, Frame
        <5>3. CASE Install(d)
          BY <2>0, <4>1, <5>3 DEF Install, Rename, TypeOK, Frame
        <5> QED BY <4>4, <5>1, <5>2, <5>3
      <4>5. CASE KeepPinned(d) \/ KeepCached(d) \/ Swept(d) \/ Recover(d)
        BY <2>0, <4>1, <4>5 DEF KeepPinned, KeepCached, Swept, Recover, TypeOK, Frame
      <4>6. CASE \E v \in Version, x \in File : Unlink(d, v, x)
        BY <2>0, <4>1, <4>6 DEF Unlink, TypeOK, Frame
      <4> QED BY <3>3, <4>2, <4>3, <4>4, <4>5, <4>6
    <3>4. CASE RequestFails(d) \/ Unknown(d) \/ Close(d)
      <4>1. End(d, "over")
        BY <3>4 DEF RequestFails, Unknown, Close
      <4>2. call'[c] = IF c = d THEN [NewCall(d) EXCEPT !.pc = "over"] ELSE call[c]
        BY <2>0, <4>1 DEF End, TypeOK
      <4> QED BY <4>2 DEF NewCall
    <3> QED BY <2>1, <3>1, <3>2, <3>3, <3>4 DEF Resolving, Reading, Sweeping, Recovering
  <2>2. ASSUME NEW here \in BOOLEAN, Publish(here)
        PROVE  FALSE
    BY <2>2 DEF Publish
  <2>3. ASSUME NEW v \in Version, NEW p \in Part, ReapBlob(v, p)
        PROVE  FALSE
    BY <2>3 DEF ReapBlob
  <2>4. ASSUME Tick
        PROVE  FALSE
    BY <2>0, <2>4 DEF Tick, Frame
  <2>5. ASSUME Restart
        PROVE  FALSE
    BY <2>5 DEF Restart, NewCall
  <2>6. Lose(c)
    BY <2>1, <2>2, <2>3, <2>4, <2>5 DEF Next
  <2> QED BY <2>0, <2>6 DEF Lose, CallHolds, At
<1>2. Spec => [][Next]_vars
  BY PTL DEF Spec
<1> QED BY <1>1, <1>2, Inductive, PTL DEF NeverLostToReap
==============================================================================
