------------------------- MODULE CloudPublishProofs -------------------------
(***************************************************************************)
(* Theorems about CloudPublish, for every value of its constants.          *)
(***************************************************************************)
EXTENDS CloudPublish, TLAPS

USE DEF NoVersion

-----------------------------------------------------------------------------
(* Types.                                                                  *)

\* The initial state has the types that the variables' comments give.
LEMMA InitTypeOK == Init => TypeOK
  BY ConstantsAssumption DEF Init, TypeOK, Stage, Active, Staging, Critical, Part

\* Every step of a gather, of its heartbeat and of time keeps the types.
LEMMA NextTypeOK == TypeOK /\ [Next]_vars => TypeOK'
<1> SUFFICES ASSUME TypeOK, [Next]_vars PROVE TypeOK'
  OBVIOUS
<1> USE ConstantsAssumption
<1> USE DEF TypeOK, Stage, Active, Staging, Critical, Goto, store, local, history
<1>1. ASSUME NEW g \in Gather, Acquire(g) PROVE TypeOK'
  BY <1>1 DEF Acquire, TakeLease
<1>2. ASSUME NEW g \in Gather, Renew(g) PROVE TypeOK'
  BY <1>2 DEF Renew
<1>3. ASSUME NEW g \in Gather, LoseLease(g) PROVE TypeOK'
  BY <1>3 DEF LoseLease
<1>4. ASSUME NEW g \in Gather, GiveUp(g) PROVE TypeOK'
  BY <1>4 DEF GiveUp
<1>5. ASSUME NEW g \in Gather, ReadPointer(g) PROVE TypeOK'
  BY <1>5 DEF ReadPointer
<1>6. ASSUME NEW g \in Gather, CheckHolder(g) PROVE TypeOK'
  BY <1>6 DEF CheckHolder
<1>7. ASSUME NEW g \in Gather, NEW p \in Part, Upload(g, p) PROVE TypeOK'
  <2>1. blobs' \in [Version -> SUBSET Part]
    BY <1>7 DEF Upload
  <2>2. sent' \in [Gather -> SUBSET Part]
    BY <1>7 DEF Upload
  <2>3. pc' \in [Gather -> Stage]
    BY <1>7 DEF Upload
  <2>4. UNCHANGED <<pointer, lease, lost, ver, expect, todo, elapsed, history>>
    BY <1>7 DEF Upload
  <2> QED
    BY <2>1, <2>2, <2>3, <2>4
<1>8. ASSUME NEW g \in Gather, StagingFails(g) PROVE TypeOK'
  BY <1>8 DEF StagingFails
<1>9. ASSUME NEW g \in Gather, Confirm(g) PROVE TypeOK'
  BY <1>9 DEF Confirm
<1>10. ASSUME NEW g \in Gather, ConfirmRefused(g) PROVE TypeOK'
  BY <1>10 DEF ConfirmRefused
<1>11. ASSUME NEW g \in Gather, Flip(g) PROVE TypeOK'
  BY <1>11 DEF Flip, MovePointer
<1>12. ASSUME NEW g \in Gather, FlipRefused(g) PROVE TypeOK'
  BY <1>12 DEF FlipRefused
<1>13. ASSUME NEW g \in Gather, FlipFails(g) PROVE TypeOK'
  BY <1>13 DEF FlipFails, MovePointer
<1>14. ASSUME NEW g \in Gather, FlipResent(g) PROVE TypeOK'
  BY <1>14 DEF FlipResent, MovePointer
<1>15. ASSUME NEW g \in Gather, Discard(g) PROVE TypeOK'
  BY <1>15 DEF Discard
<1>16. ASSUME NEW g \in Gather, ListVersions(g) PROVE TypeOK'
  BY <1>16 DEF ListVersions, Stored
<1>17. ASSUME NEW g \in Gather, ReapOne(g) PROVE TypeOK'
  BY <1>17 DEF ReapOne
<1>18. ASSUME NEW g \in Gather, ReapEnds(g) PROVE TypeOK'
  BY <1>18 DEF ReapEnds
<1>19. ASSUME NEW g \in Gather, Release(g) PROVE TypeOK'
  <2>1. lease' \in [owner : Gather \cup {NoGather}, left : 0..TTL, released : BOOLEAN]
    <3>1. lease' = lease \/ lease' = [owner |-> g, left |-> 0, released |-> TRUE]
      BY <1>19 DEF Release
    <3>2. CASE lease' = lease
      BY <3>2
    <3>3. CASE lease' = [owner |-> g, left |-> 0, released |-> TRUE]
      BY <3>3
    <3> QED
      BY <3>1, <3>2, <3>3
  <2> QED
    BY <1>19, <2>1 DEF Release, Forget
<1>20. ASSUME NEW g \in Gather, Crash(g) PROVE TypeOK'
  BY <1>20 DEF Crash, Forget
<1>21. CASE Tick
  <2>1. lease' \in [owner : Gather \cup {NoGather}, left : 0..TTL, released : BOOLEAN]
    BY <1>21 DEF Tick
  <2>2. \A g \in Gather : pc[g] \in Critical => elapsed[g] + 1 \in 0..Stall
    BY <1>21 DEF Tick
  <2>3. elapsed' \in [Gather -> 0..Stall]
    BY <1>21, <2>2 DEF Tick
  <2>4. UNCHANGED <<store, pc, lost, local, history>>
    BY <1>21 DEF Tick
  <2> QED
    BY <2>1, <2>3, <2>4
<1>22. CASE UNCHANGED vars
  BY <1>22 DEF vars
<1>23. ASSUME NEW g \in Gather, AcquireLost(g) PROVE TypeOK'
  BY <1>23 DEF AcquireLost, TakeLease
<1> QED
  BY <1>1, <1>2, <1>3, <1>4, <1>5, <1>6, <1>7, <1>8, <1>9, <1>10, <1>11, <1>12,
     <1>13, <1>14, <1>15, <1>16, <1>17, <1>18, <1>19, <1>20, <1>21, <1>22, <1>23
  DEF Next, Step

\* Every variable keeps its type: versions are version ids, a lease is held for
\* at most the TTL, a gather is always at one of its stages.
THEOREM TypeCorrect == Spec => []TypeOK
  BY InitTypeOK, NextTypeOK, PTL DEF Spec

-----------------------------------------------------------------------------
(* The fence.  A gather reads the pointer, and only then checks that the   *)
(* lease record names it: at that moment nobody took the lease after it,   *)
(* so nobody has beaten it.  Whoever beats it later moves the pointer away *)
(* from what it read, to a version that was never current before, so the   *)
(* pointer never comes back to what it read.                               *)

BeforeFlip == {"tokenRead", "uploading", "staged", "confirmed"}
Checked    == {"uploading", "staged", "confirmed"}

\* Version ids are allotted once, and are no longer free once they are.
IdsAllotted ==
  /\ \A g \in Gather : ver[g] \in used \cup {NoVersion}
  /\ \A g, h \in Gather : g # h /\ ver[g] # NoVersion => ver[g] # ver[h]
  /\ past \cup {pointer} \subseteq used \cup {NoVersion}

\* What a gather is about to publish has never been current; what it expects has.
FreshVersions ==
  \A g \in Gather : pc[g] \in BeforeFlip =>
    /\ ver[g] # NoVersion
    /\ ver[g] \notin past \cup {pointer}
    /\ expect[g] \in past \cup {pointer, NoVersion}

\* The record names the last taker, and who was never followed is not beaten.
LastTaker ==
  /\ \A g \in Gather : lease.owner = g => later[g] = {}
  /\ \A g \in Gather : later[g] = {} => ~beaten[g]

\* A gather whose expected pointer still stands has not been beaten.
Unbeaten ==
  \A g \in Gather : pc[g] \in Checked /\ pointer = expect[g] => ~beaten[g]

FenceInv == TypeOK /\ IdsAllotted /\ FreshVersions /\ LastTaker /\ Unbeaten

\* Nothing is allotted, current or beaten at first.
LEMMA InitFence == Init => FenceInv
  BY InitTypeOK, ConstantsAssumption
  DEF Init, FenceInv, IdsAllotted, FreshVersions, LastTaker, Unbeaten, BeforeFlip, Checked

\* However a flip that is applied ends (it succeeds, raises, or is reported as
\* refused), the fence stands: the new version is not what anyone expects.
LEMMA MoveFence ==
  ASSUME FenceInv, NEW g \in Gather, pc[g] = "confirmed", MovePointer(g),
         NEW s \in {"flipped", "unwinding", "discarding"}, Goto(g, s),
         UNCHANGED <<lease, lost, local, elapsed>>, TypeOK'
  PROVE  FenceInv'
<1> USE ConstantsAssumption
<1> USE DEF FenceInv, MovePointer, Goto, local, TypeOK
<1>1. /\ pointer' = ver[g] /\ past' = past \cup ({pointer} \ {NoVersion})
      /\ used' = used /\ later' = later /\ ver' = ver /\ expect' = expect
      /\ pc' = [pc EXCEPT ![g] = s]
  OBVIOUS
<1>2. /\ ver[g] # NoVersion /\ ver[g] \notin past \cup {pointer} /\ ver[g] \in used
  BY DEF FreshVersions, BeforeFlip, IdsAllotted
<1>3. IdsAllotted'
  BY <1>1, <1>2 DEF IdsAllotted
<1>4. FreshVersions'
  BY <1>1, <1>2 DEF FreshVersions, BeforeFlip, IdsAllotted
<1>5. LastTaker'
  BY <1>1 DEF LastTaker
<1>6. Unbeaten'
  <2> SUFFICES ASSUME NEW h \in Gather, pc'[h] \in Checked, pointer' = expect'[h]
               PROVE  ~beaten'[h]
    BY DEF Unbeaten
  <2>1. h # g /\ pc[h] \in BeforeFlip
    BY <1>1 DEF Checked, BeforeFlip
  <2>2. expect[h] \in past \cup {pointer, NoVersion}
    BY <2>1 DEF FreshVersions
  <2> QED
    BY <1>1, <1>2, <2>2
<1> QED
  BY <1>3, <1>4, <1>5, <1>6

\* The fence stands across every step.
LEMMA NextFence == FenceInv /\ [Next]_vars => FenceInv'
<1> SUFFICES ASSUME FenceInv, [Next]_vars PROVE FenceInv'
  OBVIOUS
<1> TypeOK /\ TypeOK'
  BY NextTypeOK DEF FenceInv
<1> USE ConstantsAssumption
<1> USE DEF FenceInv, IdsAllotted, FreshVersions, LastTaker, Unbeaten, BeforeFlip, Checked,
            Goto, store, local, history, TypeOK
<1>1. ASSUME NEW g \in Gather, Acquire(g) PROVE FenceInv'
  <2>1. LastTaker'
    BY <1>1 DEF Acquire, TakeLease
  <2>2. IdsAllotted' /\ FreshVersions'
    BY <1>1 DEF Acquire, TakeLease
  <2>3. Unbeaten'
    BY <1>1 DEF Acquire, TakeLease
  <2> QED
    BY <2>1, <2>2, <2>3
<1>2. ASSUME NEW g \in Gather, Renew(g) PROVE FenceInv'
  BY <1>2 DEF Renew
<1>3. ASSUME NEW g \in Gather, LoseLease(g) PROVE FenceInv'
  BY <1>3 DEF LoseLease
<1>4. ASSUME NEW g \in Gather, GiveUp(g) PROVE FenceInv'
  BY <1>4 DEF GiveUp
<1>5. ASSUME NEW g \in Gather, ReadPointer(g) PROVE FenceInv'
  <2>1. IdsAllotted'
    BY <1>5 DEF ReadPointer
  <2>2. FreshVersions'
    BY <1>5 DEF ReadPointer
  <2>3. LastTaker' /\ Unbeaten'
    BY <1>5 DEF ReadPointer
  <2> QED
    BY <2>1, <2>2, <2>3
<1>6. ASSUME NEW g \in Gather, CheckHolder(g) PROVE FenceInv'
  <2>1. IdsAllotted' /\ FreshVersions' /\ LastTaker'
    BY <1>6 DEF CheckHolder
  <2>2. ASSUME NEW h \in Gather, pc'[h] \in Checked PROVE pc[h] \in Checked \/ (h = g /\ ~beaten[g])
    BY <1>6, <2>2 DEF CheckHolder
  <2>3. Unbeaten'
    BY <1>6, <2>2 DEF CheckHolder
  <2> QED
    BY <2>1, <2>3
<1>7. ASSUME NEW g \in Gather, NEW p \in Part, Upload(g, p) PROVE FenceInv'
  BY <1>7 DEF Upload
<1>8. ASSUME NEW g \in Gather, StagingFails(g) PROVE FenceInv'
  BY <1>8 DEF StagingFails
<1>9. ASSUME NEW g \in Gather, Confirm(g) PROVE FenceInv'
  BY <1>9 DEF Confirm
<1>10. ASSUME NEW g \in Gather, ConfirmRefused(g) PROVE FenceInv'
  BY <1>10 DEF ConfirmRefused
<1>11. ASSUME NEW g \in Gather, Flip(g) PROVE FenceInv'
  BY <1>11, MoveFence DEF Flip
<1>12. ASSUME NEW g \in Gather, FlipRefused(g) PROVE FenceInv'
  BY <1>12 DEF FlipRefused
<1>13. ASSUME NEW g \in Gather, FlipFails(g) PROVE FenceInv'
  <2>1. CASE MovePointer(g)
    BY <1>13, <2>1, MoveFence DEF FlipFails
  <2>2. CASE UNCHANGED <<store, history>>
    BY <1>13, <2>2 DEF FlipFails
  <2> QED
    BY <1>13, <2>1, <2>2 DEF FlipFails
<1>14. ASSUME NEW g \in Gather, FlipResent(g) PROVE FenceInv'
  BY <1>14, MoveFence DEF FlipResent
<1>15. ASSUME NEW g \in Gather, Discard(g) PROVE FenceInv'
  BY <1>15 DEF Discard
<1>16. ASSUME NEW g \in Gather, ListVersions(g) PROVE FenceInv'
  <2>1. pc' = [pc EXCEPT ![g] = "reaping"] /\ UNCHANGED <<store, lease, lost, ver, expect, history>>
    BY <1>16 DEF ListVersions
  <2> QED
    BY <2>1
<1>17. ASSUME NEW g \in Gather, ReapOne(g) PROVE FenceInv'
  BY <1>17 DEF ReapOne
<1>18. ASSUME NEW g \in Gather, ReapEnds(g) PROVE FenceInv'
  BY <1>18 DEF ReapEnds
<1>19. ASSUME NEW g \in Gather, Release(g) PROVE FenceInv'
  <2>1. lease'.owner = lease.owner
    BY <1>19 DEF Release, Holds
  <2> QED
    BY <1>19, <2>1 DEF Release, Forget
<1>20. ASSUME NEW g \in Gather, Crash(g) PROVE FenceInv'
  BY <1>20 DEF Crash, Forget
<1>21. CASE Tick
  <2>1. lease'.owner = lease.owner /\ UNCHANGED <<store, pc, local, history>>
    BY <1>21 DEF Tick
  <2> QED
    BY <2>1
<1>22. CASE UNCHANGED vars
  BY <1>22 DEF vars
<1>23. ASSUME NEW g \in Gather, AcquireLost(g) PROVE FenceInv'
  <2>1. LastTaker'
    BY <1>23 DEF AcquireLost, TakeLease
  <2>2. IdsAllotted' /\ FreshVersions'
    BY <1>23 DEF AcquireLost, TakeLease
  <2>3. Unbeaten'
    BY <1>23 DEF AcquireLost, TakeLease
  <2> QED
    BY <2>1, <2>2, <2>3
<1> QED
  BY <1>1, <1>2, <1>3, <1>4, <1>5, <1>6, <1>7, <1>8, <1>9, <1>10, <1>11, <1>12,
     <1>13, <1>14, <1>15, <1>16, <1>17, <1>18, <1>19, <1>20, <1>21, <1>22, <1>23
  DEF Next, Step

\* Only a gather that has not been beaten moves the pointer, however long any of
\* them stalls and whatever faults happen: NoZombieOverwrite, without a word about time.
THEOREM ZombiesNeverOverwrite == Spec => NoZombieOverwrite
<1>1. FenceInv /\ [Next]_vars
        => [\A g \in Gather : pointer' # pointer /\ pointer' = ver[g] => ~beaten[g]]_vars
  <2> SUFFICES ASSUME FenceInv, Next,
                      NEW g \in Gather, pointer' # pointer, pointer' = ver[g]
               PROVE  ~beaten[g]
    OBVIOUS
  <2>1. PICK h \in Gather : pc[h] = "confirmed" /\ MovePointer(h)
    BY DEF Next, Step, Acquire, AcquireLost, TakeLease, Renew, LoseLease, GiveUp, ReadPointer, CheckHolder, Upload,
           StagingFails, Confirm, ConfirmRefused, Flip, FlipRefused, FlipFails, FlipResent,
           Discard, ListVersions, ReapOne, ReapEnds, Release, Crash, Tick, store
  <2>2. pointer' = ver[h] /\ pointer = expect[h] /\ ver[h] # NoVersion
    BY <2>1 DEF MovePointer, FenceInv, FreshVersions, BeforeFlip
  <2>3. g = h
    BY <2>2 DEF FenceInv, IdsAllotted
  <2> QED
    BY <2>1, <2>2, <2>3 DEF FenceInv, Unbeaten, Checked
<1>2. Spec => []FenceInv
  BY InitFence, NextFence, PTL DEF Spec
<1> QED
  BY <1>1, <1>2, PTL DEF Spec, NoZombieOverwrite

-----------------------------------------------------------------------------
(* Whole versions.  From its confirmed lease to the end of its reap a      *)
(* gather is the record's owner and the lease cannot lapse, provided that  *)
(* it is prompt; so nobody else reaps, and what the owner staged stays     *)
(* staged.  The store must also be honest about a flip it applied.         *)

PromptPublish == Delay + Stall + Skew < TTL
HonestFlip    == "resend" \notin Faults

\* A confirmed lease outlives the flip and the reap it was confirmed for.
LeaseOutlives ==
  \A g \in Gather : pc[g] \in Critical =>
    /\ Holds(g)
    /\ lease.left + elapsed[g] >= TTL - Delay

\* Only staging puts blobs under an id; the owner's prefix is as it left it.
StagedWhole ==
  /\ \A v \in Version \ used : blobs[v] = {}
  /\ \A g \in Gather : pc[g] = "tokenRead" => sent[g] = {} /\ blobs[ver[g]] = {}
  /\ \A g \in Gather : pc[g] \in Staging /\ lease.owner = g => blobs[ver[g]] = sent[g]
  /\ \A g \in Gather : pc[g] = "staged" => sent[g] = Part
  /\ \A g \in Gather : pc[g] = "confirmed" => Complete(ver[g])

\* A reaper keeps the version it flipped, which is current; a discard removes
\* one that never was.
DeletesSafely ==
  \A g \in Gather :
    /\ pc[g] \in {"flipped", "reaping"} => pointer = ver[g]
    /\ pc[g] = "reaping" => ver[g] \notin todo[g]
    /\ pc[g] = "discarding" => ver[g] # NoVersion /\ ver[g] # pointer

WholeInv == FenceInv /\ LeaseOutlives /\ StagedWhole /\ DeletesSafely /\ CurrentComplete

\* Nothing is stored or current at first.
LEMMA InitWhole == Init => WholeInv
<1> SUFFICES ASSUME Init PROVE WholeInv
  OBVIOUS
<1>1. FenceInv
  BY InitFence
<1> QED
  BY <1>1 DEF Init, WholeInv, LeaseOutlives, StagedWhole, DeletesSafely, CurrentComplete,
              Critical, Staging

\* While one prompt gather is in its critical stages, no other can be.
LEMMA WholeAlone ==
  ASSUME TypeOK, LeaseOutlives, NEW g \in Gather, NEW h \in Gather,
         pc[g] \in Critical, pc[h] \in Critical
  PROVE  g = h
  BY DEF LeaseOutlives, Holds

\* While a prompt gather is in its critical stages, nobody else can take the lease.
LEMMA WholeKeepsLease ==
  ASSUME PromptPublish, TypeOK, LeaseOutlives, NEW g \in Gather, NEW h \in Gather,
         pc[g] \in Critical, Takeable(h)
  PROVE  g = h
<1>1. lease.owner = g /\ lease.left + elapsed[g] >= TTL - Delay
  BY DEF LeaseOutlives, Holds
<1>2. elapsed[g] \in 0..Stall /\ lease.left \in 0..TTL
  BY DEF TypeOK
<1>3. ~(lease.left <= Skew)
  BY <1>1, <1>2, ConstantsAssumption DEF PromptPublish
<1> QED
  BY <1>1, <1>3, ConstantsAssumption DEF Takeable

\* The lease part of the invariant.
LEMMA NextLeaseOutlives ==
  ASSUME PromptPublish, TypeOK, TypeOK', LeaseOutlives, [Next]_vars
  PROVE  LeaseOutlives'
<1> USE ConstantsAssumption
<1> USE DEF LeaseOutlives, Holds, Critical, Goto, store, local, history, TypeOK
<1>1. ASSUME NEW g \in Gather, Acquire(g) PROVE LeaseOutlives'
  <2>1. \A h \in Gather : pc[h] \notin Critical \/ h = g
    BY <1>1, WholeKeepsLease DEF Acquire, TakeLease
  <2>2. pc[g] = "idle" /\ pc' = [pc EXCEPT ![g] = "gathering"]
    BY <1>1 DEF Acquire, TakeLease
  <2> QED
    BY <2>1, <2>2
<1>2. ASSUME NEW g \in Gather, Renew(g) PROVE LeaseOutlives'
  BY <1>2 DEF Renew
<1>3. ASSUME NEW g \in Gather, LoseLease(g) PROVE LeaseOutlives'
  BY <1>3 DEF LoseLease
<1>4. ASSUME NEW g \in Gather, GiveUp(g) PROVE LeaseOutlives'
  BY <1>4 DEF GiveUp
<1>5. ASSUME NEW g \in Gather, ReadPointer(g) PROVE LeaseOutlives'
  BY <1>5 DEF ReadPointer
<1>6. ASSUME NEW g \in Gather, CheckHolder(g) PROVE LeaseOutlives'
  BY <1>6 DEF CheckHolder
<1>7. ASSUME NEW g \in Gather, NEW p \in Part, Upload(g, p) PROVE LeaseOutlives'
  BY <1>7 DEF Upload
<1>8. ASSUME NEW g \in Gather, StagingFails(g) PROVE LeaseOutlives'
  BY <1>8 DEF StagingFails
<1>9. ASSUME NEW g \in Gather, Confirm(g) PROVE LeaseOutlives'
  BY <1>9 DEF Confirm
<1>10. ASSUME NEW g \in Gather, ConfirmRefused(g) PROVE LeaseOutlives'
  BY <1>10 DEF ConfirmRefused
<1>11. ASSUME NEW g \in Gather, Flip(g) PROVE LeaseOutlives'
  BY <1>11 DEF Flip, MovePointer
<1>12. ASSUME NEW g \in Gather, FlipRefused(g) PROVE LeaseOutlives'
  BY <1>12 DEF FlipRefused
<1>13. ASSUME NEW g \in Gather, FlipFails(g) PROVE LeaseOutlives'
  BY <1>13 DEF FlipFails, MovePointer
<1>14. ASSUME NEW g \in Gather, FlipResent(g) PROVE LeaseOutlives'
  BY <1>14 DEF FlipResent, MovePointer
<1>15. ASSUME NEW g \in Gather, Discard(g) PROVE LeaseOutlives'
  BY <1>15 DEF Discard
<1>16. ASSUME NEW g \in Gather, ListVersions(g) PROVE LeaseOutlives'
  BY <1>16 DEF ListVersions
<1>17. ASSUME NEW g \in Gather, ReapOne(g) PROVE LeaseOutlives'
  BY <1>17 DEF ReapOne
<1>18. ASSUME NEW g \in Gather, ReapEnds(g) PROVE LeaseOutlives'
  BY <1>18 DEF ReapEnds
<1>19. ASSUME NEW g \in Gather, Release(g) PROVE LeaseOutlives'
  <2>1. \A h \in Gather : pc'[h] \in Critical => pc[h] \in Critical /\ h # g
    BY <1>19 DEF Release
  <2>2. lease' = lease \/ lease.owner = g
    BY <1>19 DEF Release
  <2> QED
    BY <1>19, <2>1, <2>2 DEF Release, Forget
<1>20. ASSUME NEW g \in Gather, Crash(g) PROVE LeaseOutlives'
  BY <1>20 DEF Crash, Forget
<1>21. CASE Tick
  BY <1>21 DEF Tick
<1>22. CASE UNCHANGED vars
  BY <1>22 DEF vars
<1>23. ASSUME NEW g \in Gather, AcquireLost(g) PROVE LeaseOutlives'
  <2>1. \A h \in Gather : pc[h] \notin Critical \/ h = g
    BY <1>23, WholeKeepsLease DEF AcquireLost, TakeLease
  <2>2. pc[g] = "idle" /\ pc' = pc
    BY <1>23 DEF AcquireLost, TakeLease
  <2> QED
    BY <2>1, <2>2
<1> QED
  BY <1>1, <1>2, <1>3, <1>4, <1>5, <1>6, <1>7, <1>8, <1>9, <1>10, <1>11, <1>12,
     <1>13, <1>14, <1>15, <1>16, <1>17, <1>18, <1>19, <1>20, <1>21, <1>22, <1>23
  DEF Next, Step

\* What the lease's owner staged stays staged.
LEMMA NextStagedWhole ==
  ASSUME FenceInv, TypeOK', LeaseOutlives, StagedWhole, [Next]_vars
  PROVE  StagedWhole'
<1> USE ConstantsAssumption
<1> USE DEF StagedWhole, Staging, Critical, Complete, Goto, store, local, history,
            FenceInv, TypeOK, IdsAllotted, FreshVersions, BeforeFlip
<1>1. ASSUME NEW g \in Gather, Acquire(g) PROVE StagedWhole'
  BY <1>1 DEF Acquire, TakeLease
<1>2. ASSUME NEW g \in Gather, Renew(g) PROVE StagedWhole'
  BY <1>2 DEF Renew
<1>3. ASSUME NEW g \in Gather, LoseLease(g) PROVE StagedWhole'
  BY <1>3 DEF LoseLease
<1>4. ASSUME NEW g \in Gather, GiveUp(g) PROVE StagedWhole'
  BY <1>4 DEF GiveUp
<1>5. ASSUME NEW g \in Gather, ReadPointer(g) PROVE StagedWhole'
  BY <1>5 DEF ReadPointer
<1>6. ASSUME NEW g \in Gather, CheckHolder(g) PROVE StagedWhole'
  <2>1. pc[g] = "tokenRead" /\ UNCHANGED <<store, lease, local, history>>
    BY <1>6 DEF CheckHolder
  <2>2. CASE lease.owner = g
    <3>1. pc' = [pc EXCEPT ![g] = "uploading"]
      BY <1>6, <2>2 DEF CheckHolder
    <3>2. sent[g] = {} /\ blobs[ver[g]] = {}
      BY <2>1
    <3>3. \A h \in Gather : pc'[h] \in Staging /\ lease'.owner = h => blobs'[ver'[h]] = sent'[h]
      BY <2>1, <2>2, <3>1, <3>2
    <3> QED
      BY <2>1, <3>1, <3>3
  <2>3. CASE lease.owner # g
    <3>1. pc' = [pc EXCEPT ![g] = "unwinding"]
      BY <1>6, <2>3 DEF CheckHolder
    <3> QED
      BY <2>1, <3>1
  <2> QED
    BY <2>2, <2>3
<1>7. ASSUME NEW g \in Gather, NEW p \in Part, Upload(g, p) PROVE StagedWhole'
  <2>1. /\ blobs' = [blobs EXCEPT ![ver[g]] = @ \cup {p}]
        /\ sent' = [sent EXCEPT ![g] = @ \cup {p}]
        /\ pc' = [pc EXCEPT ![g] = IF p = Manifest THEN "staged" ELSE "uploading"]
        /\ pc[g] = "uploading" /\ ver' = ver /\ lease' = lease /\ used' = used
    BY <1>7 DEF Upload
  <2>2. ver[g] \in used /\ ver[g] \in Version
    BY <2>1
  <2>3. \A h \in Gather : h # g => ver[h] # ver[g]
    BY <2>2
  <2>4. \A v \in Version \ used' : blobs'[v] = {}
    BY <2>1, <2>2
  <2>5. \A h \in Gather : pc'[h] = "tokenRead" => sent'[h] = {} /\ blobs'[ver'[h]] = {}
    BY <2>1, <2>3
  <2>6. \A h \in Gather : pc'[h] \in Staging /\ lease'.owner = h => blobs'[ver'[h]] = sent'[h]
    <3> SUFFICES ASSUME NEW h \in Gather, pc'[h] \in Staging, lease'.owner = h
                 PROVE  blobs'[ver'[h]] = sent'[h]
      OBVIOUS
    <3>1. pc[h] \in Staging /\ blobs[ver[h]] = sent[h]
      BY <2>1
    <3>2. CASE h = g
      <4>1. blobs'[ver[g]] = blobs[ver[g]] \cup {p}
        BY <2>1, <2>2
      <4>2. sent'[g] = sent[g] \cup {p}
        BY <2>1
      <4> QED
        BY <2>1, <3>1, <3>2, <4>1, <4>2
    <3>3. CASE h # g
      BY <2>1, <2>3, <3>1, <3>3
    <3> QED
      BY <3>2, <3>3
  <2>7. \A h \in Gather : pc'[h] = "staged" => sent'[h] = Part
    <3>1. p = Manifest => sent[g] = File
      BY <1>7 DEF Upload
    <3> QED
      BY <2>1, <3>1 DEF Part
  <2>8. \A h \in Gather : pc'[h] = "confirmed" => Complete(ver[h])'
    BY <2>1, <2>3
  <2> QED
    BY <2>4, <2>5, <2>6, <2>7, <2>8
<1>8. ASSUME NEW g \in Gather, StagingFails(g) PROVE StagedWhole'
  BY <1>8 DEF StagingFails
<1>9. ASSUME NEW g \in Gather, Confirm(g) PROVE StagedWhole'
  <2>1. /\ pc[g] = "staged" /\ lease.owner = g /\ lease'.owner = lease.owner
        /\ pc' = [pc EXCEPT ![g] = "confirmed"] /\ UNCHANGED <<store, local, history>>
    BY <1>9 DEF Confirm, Holds
  <2>2. blobs[ver[g]] = Part
    BY <2>1
  <2> QED
    BY <2>1, <2>2
<1>10. ASSUME NEW g \in Gather, ConfirmRefused(g) PROVE StagedWhole'
  BY <1>10 DEF ConfirmRefused
<1>11. ASSUME NEW g \in Gather, Flip(g) PROVE StagedWhole'
  BY <1>11 DEF Flip, MovePointer
<1>12. ASSUME NEW g \in Gather, FlipRefused(g) PROVE StagedWhole'
  BY <1>12 DEF FlipRefused
<1>13. ASSUME NEW g \in Gather, FlipFails(g) PROVE StagedWhole'
  BY <1>13 DEF FlipFails, MovePointer
<1>14. ASSUME NEW g \in Gather, FlipResent(g) PROVE StagedWhole'
  BY <1>14 DEF FlipResent, MovePointer
<1>15. ASSUME NEW g \in Gather, Discard(g) PROVE StagedWhole'
  BY <1>15 DEF Discard
<1>16. ASSUME NEW g \in Gather, ListVersions(g) PROVE StagedWhole'
  BY <1>16 DEF ListVersions
<1>17. ASSUME NEW g \in Gather, ReapOne(g) PROVE StagedWhole'
  <2>1. \A h \in Gather : pc[h] \in Critical => h = g
    BY <1>17, WholeAlone DEF ReapOne
  <2>2. lease.owner = g
    BY <1>17 DEF ReapOne, LeaseOutlives, Holds
  <2> QED
    BY <1>17, <2>1, <2>2 DEF ReapOne
<1>18. ASSUME NEW g \in Gather, ReapEnds(g) PROVE StagedWhole'
  BY <1>18 DEF ReapEnds
<1>19. ASSUME NEW g \in Gather, Release(g) PROVE StagedWhole'
  <2>1. lease'.owner = lease.owner
    BY <1>19 DEF Release, Holds
  <2> QED
    BY <1>19, <2>1 DEF Release, Forget
<1>20. ASSUME NEW g \in Gather, Crash(g) PROVE StagedWhole'
  BY <1>20 DEF Crash, Forget
<1>21. CASE Tick
  <2>1. lease'.owner = lease.owner /\ UNCHANGED <<store, pc, local, history>>
    BY <1>21 DEF Tick
  <2> QED
    BY <2>1
<1>22. CASE UNCHANGED vars
  BY <1>22 DEF vars
<1>23. ASSUME NEW g \in Gather, AcquireLost(g) PROVE StagedWhole'
  BY <1>23 DEF AcquireLost, TakeLease
<1> QED
  BY <1>1, <1>2, <1>3, <1>4, <1>5, <1>6, <1>7, <1>8, <1>9, <1>10, <1>11, <1>12,
     <1>13, <1>14, <1>15, <1>16, <1>17, <1>18, <1>19, <1>20, <1>21, <1>22, <1>23
  DEF Next, Step

\* A reaper never lists the current version, a discard never was current.
LEMMA NextDeletesSafely ==
  ASSUME HonestFlip, FenceInv, TypeOK', LeaseOutlives, DeletesSafely, [Next]_vars
  PROVE  DeletesSafely'
<1> USE ConstantsAssumption
<1> USE DEF DeletesSafely, Staging, Critical, Goto, store, local, history,
            FenceInv, TypeOK, IdsAllotted, FreshVersions, BeforeFlip
<1>1. ASSUME NEW g \in Gather, Acquire(g) PROVE DeletesSafely'
  BY <1>1 DEF Acquire, TakeLease
<1>2. ASSUME NEW g \in Gather, Renew(g) PROVE DeletesSafely'
  BY <1>2 DEF Renew
<1>3. ASSUME NEW g \in Gather, LoseLease(g) PROVE DeletesSafely'
  BY <1>3 DEF LoseLease
<1>4. ASSUME NEW g \in Gather, GiveUp(g) PROVE DeletesSafely'
  BY <1>4 DEF GiveUp
<1>5. ASSUME NEW g \in Gather, ReadPointer(g) PROVE DeletesSafely'
  BY <1>5 DEF ReadPointer
<1>6. ASSUME NEW g \in Gather, CheckHolder(g) PROVE DeletesSafely'
  BY <1>6 DEF CheckHolder
<1>7. ASSUME NEW g \in Gather, NEW p \in Part, Upload(g, p) PROVE DeletesSafely'
  BY <1>7 DEF Upload
<1>8. ASSUME NEW g \in Gather, StagingFails(g) PROVE DeletesSafely'
  BY <1>8 DEF StagingFails
<1>9. ASSUME NEW g \in Gather, Confirm(g) PROVE DeletesSafely'
  BY <1>9 DEF Confirm
<1>10. ASSUME NEW g \in Gather, ConfirmRefused(g) PROVE DeletesSafely'
  BY <1>10 DEF ConfirmRefused
<1>11. ASSUME NEW g \in Gather, Flip(g) PROVE DeletesSafely'
  <2>1. \A h \in Gather : pc[h] \in Critical => h = g
    BY <1>11, WholeAlone DEF Flip
  <2> QED
    BY <1>11, <2>1 DEF Flip, MovePointer
<1>12. ASSUME NEW g \in Gather, FlipRefused(g) PROVE DeletesSafely'
  BY <1>12 DEF FlipRefused
<1>13. ASSUME NEW g \in Gather, FlipFails(g) PROVE DeletesSafely'
  <2>1. \A h \in Gather : pc[h] \in Critical => h = g
    BY <1>13, WholeAlone DEF FlipFails
  <2> QED
    BY <1>13, <2>1 DEF FlipFails, MovePointer
<1>14. ASSUME NEW g \in Gather, FlipResent(g) PROVE DeletesSafely'
  BY <1>14 DEF FlipResent, HonestFlip
<1>15. ASSUME NEW g \in Gather, Discard(g) PROVE DeletesSafely'
  BY <1>15 DEF Discard
<1>16. ASSUME NEW g \in Gather, ListVersions(g) PROVE DeletesSafely'
  BY <1>16 DEF ListVersions
<1>17. ASSUME NEW g \in Gather, ReapOne(g) PROVE DeletesSafely'
  BY <1>17 DEF ReapOne
<1>18. ASSUME NEW g \in Gather, ReapEnds(g) PROVE DeletesSafely'
  BY <1>18 DEF ReapEnds
<1>19. ASSUME NEW g \in Gather, Release(g) PROVE DeletesSafely'
  BY <1>19 DEF Release, Forget
<1>20. ASSUME NEW g \in Gather, Crash(g) PROVE DeletesSafely'
  BY <1>20 DEF Crash, Forget
<1>21. CASE Tick
  BY <1>21 DEF Tick
<1>22. CASE UNCHANGED vars
  BY <1>22 DEF vars
<1>23. ASSUME NEW g \in Gather, AcquireLost(g) PROVE DeletesSafely'
  BY <1>23 DEF AcquireLost, TakeLease
<1> QED
  BY <1>1, <1>2, <1>3, <1>4, <1>5, <1>6, <1>7, <1>8, <1>9, <1>10, <1>11, <1>12,
     <1>13, <1>14, <1>15, <1>16, <1>17, <1>18, <1>19, <1>20, <1>21, <1>22, <1>23
  DEF Next, Step

\* No step takes a blob from the current version, or flips to a partial one.
LEMMA NextCurrentComplete ==
  ASSUME HonestFlip, FenceInv, TypeOK', LeaseOutlives, StagedWhole, DeletesSafely,
         CurrentComplete, [Next]_vars
  PROVE  CurrentComplete'
<1> USE ConstantsAssumption
<1> USE DEF CurrentComplete, Complete, store, FenceInv, TypeOK, IdsAllotted, FreshVersions,
            BeforeFlip
<1>1. ASSUME NEW g \in Gather, Acquire(g) PROVE CurrentComplete'
  BY <1>1 DEF Acquire, TakeLease
<1>2. ASSUME NEW g \in Gather, Renew(g) PROVE CurrentComplete'
  BY <1>2 DEF Renew
<1>3. ASSUME NEW g \in Gather, LoseLease(g) PROVE CurrentComplete'
  BY <1>3 DEF LoseLease
<1>4. ASSUME NEW g \in Gather, GiveUp(g) PROVE CurrentComplete'
  BY <1>4 DEF GiveUp
<1>5. ASSUME NEW g \in Gather, ReadPointer(g) PROVE CurrentComplete'
  BY <1>5 DEF ReadPointer
<1>6. ASSUME NEW g \in Gather, CheckHolder(g) PROVE CurrentComplete'
  BY <1>6 DEF CheckHolder
<1>7. ASSUME NEW g \in Gather, NEW p \in Part, Upload(g, p) PROVE CurrentComplete'
  BY <1>7 DEF Upload
<1>8. ASSUME NEW g \in Gather, StagingFails(g) PROVE CurrentComplete'
  BY <1>8 DEF StagingFails
<1>9. ASSUME NEW g \in Gather, Confirm(g) PROVE CurrentComplete'
  BY <1>9 DEF Confirm
<1>10. ASSUME NEW g \in Gather, ConfirmRefused(g) PROVE CurrentComplete'
  BY <1>10 DEF ConfirmRefused
<1>11. ASSUME NEW g \in Gather, Flip(g) PROVE CurrentComplete'
  BY <1>11 DEF Flip, MovePointer, StagedWhole
<1>12. ASSUME NEW g \in Gather, FlipRefused(g) PROVE CurrentComplete'
  BY <1>12 DEF FlipRefused
<1>13. ASSUME NEW g \in Gather, FlipFails(g) PROVE CurrentComplete'
  BY <1>13 DEF FlipFails, MovePointer, StagedWhole
<1>14. ASSUME NEW g \in Gather, FlipResent(g) PROVE CurrentComplete'
  BY <1>14 DEF FlipResent, HonestFlip
<1>15. ASSUME NEW g \in Gather, Discard(g) PROVE CurrentComplete'
  BY <1>15 DEF Discard, DeletesSafely
<1>16. ASSUME NEW g \in Gather, ListVersions(g) PROVE CurrentComplete'
  BY <1>16 DEF ListVersions
<1>17. ASSUME NEW g \in Gather, ReapOne(g) PROVE CurrentComplete'
  BY <1>17 DEF ReapOne, DeletesSafely
<1>18. ASSUME NEW g \in Gather, ReapEnds(g) PROVE CurrentComplete'
  BY <1>18 DEF ReapEnds
<1>19. ASSUME NEW g \in Gather, Release(g) PROVE CurrentComplete'
  BY <1>19 DEF Release, Forget
<1>20. ASSUME NEW g \in Gather, Crash(g) PROVE CurrentComplete'
  BY <1>20 DEF Crash, Forget
<1>21. CASE Tick
  BY <1>21 DEF Tick
<1>22. CASE UNCHANGED vars
  BY <1>22 DEF vars
<1>23. ASSUME NEW g \in Gather, AcquireLost(g) PROVE CurrentComplete'
  BY <1>23 DEF AcquireLost, TakeLease
<1> QED
  BY <1>1, <1>2, <1>3, <1>4, <1>5, <1>6, <1>7, <1>8, <1>9, <1>10, <1>11, <1>12,
     <1>13, <1>14, <1>15, <1>16, <1>17, <1>18, <1>19, <1>20, <1>21, <1>22, <1>23
  DEF Next, Step

\* The four parts together.
LEMMA NextWhole ==
  ASSUME PromptPublish, HonestFlip, WholeInv, [Next]_vars
  PROVE  WholeInv'
<1>1. TypeOK' /\ FenceInv'
  BY NextTypeOK, NextFence DEF WholeInv, FenceInv
<1> QED
  BY <1>1, NextLeaseOutlives, NextStagedWhole, NextDeletesSafely, NextCurrentComplete
  DEF WholeInv, FenceInv

\* With prompt publishers and an honest store, the version a reader finds under
\* the pointer always has all its blobs, whoever crashes or lapses.
THEOREM CurrentAlwaysComplete ==
  ASSUME PromptPublish, HonestFlip
  PROVE  Spec => []CurrentComplete
<1>1. WholeInv /\ [Next]_vars => WholeInv'
  BY NextWhole
<1>2. WholeInv => CurrentComplete
  BY DEF WholeInv
<1> QED
  BY InitWhole, <1>1, <1>2, PTL DEF Spec

\* With prompt publishers, one gather at a time is between its confirmed lease
\* and the end of its reap.
THEOREM PublishersExclude ==
  ASSUME PromptPublish
  PROVE  Spec => []OnePublisher
<1>1. Init => TypeOK /\ LeaseOutlives
  BY InitTypeOK DEF Init, LeaseOutlives, Critical
<1>2. TypeOK /\ LeaseOutlives /\ [Next]_vars => (TypeOK /\ LeaseOutlives)'
  BY NextTypeOK, NextLeaseOutlives
<1>3. TypeOK /\ LeaseOutlives => OnePublisher
  BY WholeAlone DEF OnePublisher
<1> QED
  BY <1>1, <1>2, <1>3, PTL DEF Spec

\* The pointer protocol implements the atomic publish: a flip is a publish of a
\* version never current before, with all its parts; what a reap or a discard deletes
\* was current once, or no reader has seen it; no other step changes what a reader finds.
THEOREM PublishRefines ==
  ASSUME PromptPublish, HonestFlip
  PROVE  Spec => ImplementsAtomicPublish
<1>1. Init => Atomic!Init
  BY DEF Init, Atomic!Init, Kept
<1>2. WholeInv /\ [Next]_vars => [Atomic!Next]_<<pointer, past, Kept>>
  <2> SUFFICES ASSUME WholeInv, [Next]_vars
               PROVE  Atomic!Next \/ UNCHANGED <<pointer, past, Kept>>
    OBVIOUS
  <2>0. TypeOK
    BY DEF WholeInv, FenceInv
  <2>1. \/ UNCHANGED <<pointer, past, blobs>>
        \/ \E h \in Gather : pc[h] = "confirmed" /\ MovePointer(h)
        \/ \E h \in Gather, p \in Part : Upload(h, p)
        \/ \E h \in Gather : Discard(h) \/ ReapOne(h)
    BY DEF Next, Step, Acquire, AcquireLost, TakeLease, Renew, LoseLease, GiveUp, ReadPointer, CheckHolder,
           StagingFails, Confirm, ConfirmRefused, Flip, FlipRefused, FlipFails, FlipResent,
           ListVersions, ReapEnds, Release, Crash, Tick, store, history, vars
  <2>2. CASE UNCHANGED <<pointer, past, blobs>>
    BY <2>2 DEF Kept
  <2>3. ASSUME NEW h \in Gather, pc[h] = "confirmed", MovePointer(h)
        PROVE  Atomic!Next
    <3>1. ver[h] \in Version /\ ver[h] \notin past \cup {pointer} /\ blobs[ver[h]] = Part
      BY <2>0, <2>3 DEF WholeInv, FenceInv, FreshVersions, BeforeFlip, TypeOK, StagedWhole, Complete
    <3>2. pointer' = ver[h] /\ past' = past \cup ({pointer} \ {NoVersion}) /\ blobs' = blobs
      BY <2>3 DEF MovePointer
    <3>3. \A v \in Version : v \in past' \cup {pointer'} <=> v = ver[h] \/ v \in past \cup {pointer}
      BY <3>2, ConstantsAssumption
    <3>4. Kept' = [Kept EXCEPT ![ver[h]] = Part]
      BY <3>1, <3>2, <3>3 DEF Kept
    <3>5. Atomic!Publish(ver[h])
      BY <3>1, <3>2, <3>4 DEF Atomic!Publish
    <3> QED
      BY <3>1, <3>5 DEF Atomic!Next
  <2>4. ASSUME NEW h \in Gather, NEW p \in Part, Upload(h, p)
        PROVE  UNCHANGED <<pointer, past, Kept>>
    <3>1. ver[h] \notin past \cup {pointer}
      BY <2>4 DEF Upload, WholeInv, FenceInv, FreshVersions, BeforeFlip
    <3>2. \A v \in Version \ {ver[h]} : blobs'[v] = blobs[v]
      BY <2>0, <2>4 DEF Upload, TypeOK
    <3> QED
      BY <2>4, <3>1, <3>2 DEF Upload, Kept, history
  \* What is deleted is not current.
  <2>5. ASSUME NEW v \in Version, v # pointer, blobs' = [blobs EXCEPT ![v] = {}], UNCHANGED <<pointer, past>>
        PROVE  Atomic!Next \/ UNCHANGED <<pointer, past, Kept>>
    <3>1. \A w \in Version : blobs'[w] = IF w = v THEN {} ELSE blobs[w]
      BY <2>0, <2>5 DEF TypeOK
    <3>2. CASE v \in past
      <4>1. blobs[v] \ Part = {}
        BY <2>0 DEF TypeOK
      <4>2. Kept' = [Kept EXCEPT ![v] = @ \ Part]
        BY <2>5, <3>1, <3>2, <4>1 DEF Kept
      <4>3. Atomic!Reap(v, Part)
        BY <2>5, <3>2, <4>2 DEF Atomic!Reap
      <4> QED
        BY <4>3 DEF Atomic!Next
    <3>3. CASE v \notin past
      BY <2>5, <3>1, <3>3 DEF Kept
    <3> QED
      BY <3>2, <3>3
  <2>6. ASSUME NEW h \in Gather, Discard(h)
        PROVE  Atomic!Next \/ UNCHANGED <<pointer, past, Kept>>
    <3>1. ver[h] \in Version /\ ver[h] # pointer
      BY <2>0, <2>6 DEF Discard, WholeInv, DeletesSafely, TypeOK
    <3>2. UNCHANGED <<pointer, past>> /\ (blobs' = blobs \/ blobs' = [blobs EXCEPT ![ver[h]] = {}])
      BY <2>6 DEF Discard, history
    <3> QED
      BY <2>2, <2>5, <3>1, <3>2
  <2>7. ASSUME NEW h \in Gather, ReapOne(h)
        PROVE  Atomic!Next \/ UNCHANGED <<pointer, past, Kept>>
    <3>1. PICK v \in todo[h] : blobs' = [blobs EXCEPT ![v] = {}]
      BY <2>7 DEF ReapOne
    <3>2. v \in Version /\ v # pointer
      BY <2>0, <2>7, <3>1 DEF ReapOne, WholeInv, DeletesSafely, TypeOK
    <3>3. UNCHANGED <<pointer, past>>
      BY <2>7 DEF ReapOne, history
    <3> QED
      BY <2>5, <3>1, <3>2, <3>3
  <2> QED
    BY <2>1, <2>2, <2>3, <2>4, <2>6, <2>7
<1>3. WholeInv /\ [Next]_vars => WholeInv'
  BY NextWhole
<1> QED
  BY InitWhole, <1>1, <1>2, <1>3, PTL DEF Spec, ImplementsAtomicPublish, Atomic!Spec
==============================================================================
