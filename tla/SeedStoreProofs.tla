---------------------------- MODULE SeedStoreProofs ----------------------------
(***************************************************************************)
(* Proofs about SwapDirs and, on top of it, about SeedStore.               *)
(*                                                                         *)
(* A batch of swaps of any length: the types, that it lands whole or is    *)
(* undone but for what its exception names, and that nothing is lost.  The *)
(* invariant says of each destination how far the call is with it: those   *)
(* before swap.at have been swapped, and those after it have not been      *)
(* touched on the way forward, and are restored, or named, on the way      *)
(* back.                                                                   *)
(*                                                                         *)
(* The seed store for any corpora, times and bounds: the variables' types, *)
(* that its client's installs are swaps as SwapDirs specifies them, so     *)
(* that what is proved there holds here, that an install which reports     *)
(* success has put the whole tree its manifest names in every place, that  *)
(* the index lists what can be installed, and that a new workspace never   *)
(* stands beside the old index.                                            *)
(***************************************************************************)
EXTENDS SeedStore, TLAPS

(***************************************************************************)
(* SwapDirs: a batch of directory swaps.                                   *)
(***************************************************************************)

\* Destination d as the call found it, and as a swap leaves it.
Untouched(d) == live[d] = before[d] /\ aside[d] = Absent
Done(d)      == live[d] = target[d] /\ aside[d] = before[d]
\* d while its old tree is aside and nothing is in its place.
Open(d)      == live[d] = Absent /\ aside[d] = before[d]
\* d as the way back leaves it.
Undone(d)    == d \in swap.failed \/ live[d] = before[d]
\* What d held is there or beside it.
Kept(d)      == before[d] \in {Absent, live[d], aside[d]}

Forward  == {"aside", "in", "restore"}
Backward == {"undo", "undoin", "putback"}

\* Where the call is.
Place ==
  /\ swap.pc \in Forward \cup {"undoin", "putback"} => swap.at \in Batch
  /\ swap.pc \in Forward => swap.failed = {}
  /\ swap.pc = "landed" => swap.at = N
  /\ swap.pc = "undo" => swap.at + 1 \in Batch

\* The destinations it has passed, or has still to undo.
Passed ==
  /\ swap.pc \in Forward \cup {"undoin", "putback"} => \A d \in Batch : d < swap.at => Done(d)
  /\ swap.pc = "undo" => \A d \in Batch : d <= swap.at => Done(d)
  /\ swap.pc = "landed" => \A d \in Batch : Done(d)

\* The destination it is at.
Current ==
  /\ swap.pc = "aside" => Untouched(swap.at)
  /\ swap.pc \in {"in", "restore"} => Open(swap.at)
  /\ swap.pc \in {"undoin", "putback"} => Open(swap.at)

\* The destinations it has still to swap, or has undone.
Ahead ==
  /\ swap.pc \in Forward => \A d \in Batch : /\ d > swap.at => Untouched(d)
                                             /\ d >= swap.at => staged[d] = target[d]
  /\ swap.pc \in Backward => \A d \in Batch : d > swap.at => Undone(d) /\ Kept(d)

\* What a call that is over has left.
Over ==
  /\ swap.pc = "returned" => \A d \in Batch : live[d] = target[d]
  /\ swap.pc = "raised" => \A d \in Batch : Undone(d)
  /\ swap.pc \in {"raised", "dead"} => \A d \in Batch : Kept(d)

\* The destinations that are not in the batch.
Outside == \A d \in Dest : d < swap.first => live[d] = before[d]

SwapInv == SwapTypeOK /\ Place /\ Passed /\ Current /\ Ahead /\ Over /\ Outside

\* The first state: no call has been made.
LEMMA SwapInitInv == SwapInit => SwapInv
  BY SwapAssumption DEF SwapInit, SwapInv, SwapTypeOK, Place, Passed, Current, Ahead, Over, Outside,
     NoCall, SwapCall, Busy, Ended, Empty, Content, Dest, Forward, Backward

\* A call begins, whatever the one before has left.
LEMMA BeginInv ==
  ASSUME SwapInv, NEW f \in Dest, NEW trees \in [Dest -> Tree], Begin(f, trees)
  PROVE  SwapInv'
<1>1. SwapTypeOK'
  BY SwapAssumption DEF SwapInv, SwapTypeOK, Begin, SwapCall, Busy, Ended, Empty, Content, Dest
<1>2. Place' /\ Passed' /\ Current' /\ Over' /\ Outside'
  BY SwapAssumption DEF SwapInv, SwapTypeOK, Begin, Place, Passed, Current, Over, Outside,
     Batch, Dest, Forward, Empty, Untouched, Done, Open
<1>3. Ahead'
  BY SwapAssumption DEF SwapInv, SwapTypeOK, Begin, Ahead, Batch, Dest, Forward, Backward, Empty,
     Untouched
<1> QED BY <1>1, <1>2, <1>3 DEF SwapInv

-----------------------------------------------------------------------------
(* The steps of a call.                                                    *)

\* The call goes to the stage pc at destination d.
Moves(pc, d, failed) ==
  /\ swap' \in SwapCall
  /\ swap'.pc = pc /\ swap'.at = d /\ swap'.failed = failed /\ swap'.first = swap.first

\* Giving up on a destination goes to the one before it.
LEMMA UnwindMoves ==
  ASSUME swap \in SwapCall, NEW d \in Dest, NEW lost \in SUBSET Dest, Unwind(d, lost)
  PROVE  Moves("undo", d - 1, swap.failed \cup lost)
<1>1. /\ swap'.pc = "undo" /\ swap'.at = d - 1 /\ swap'.first = swap.first
      /\ swap'.failed = swap.failed \cup lost
  BY DEF Unwind, SwapCall
<1>2. d - 1 \in 0..N
  BY SwapAssumption DEF SwapAssumption, Dest
<1>3. swap.failed \cup lost \in SUBSET Dest /\ "undo" \in Busy \cup Ended
  BY DEF SwapCall, Busy
<1>4. swap' \in SwapCall
  BY <1>2, <1>3 DEF Unwind, SwapCall
<1> QED BY <1>1, <1>4 DEF Moves

\* What the invariant says of a call that is under way.
LEMMA Ranges ==
  ASSUME SwapInv
  PROVE  /\ N \in Nat /\ swap.first \in 1..N /\ swap.at \in 0..N
         /\ swap.at + 1 \in Int /\ swap.at - 1 \in Int
         /\ swap \in SwapCall
BY SwapAssumption DEF SwapAssumption, SwapInv, SwapTypeOK, SwapCall, Dest

\* On the way forward and on the way back, what is before swap.at has been swapped
\* and what is after it is as it was, or named, and not lost.
LEMMA Around ==
  ASSUME SwapInv, swap.pc \in Forward \cup Backward
  PROVE  \A e \in Batch : /\ e < swap.at => Done(e)
                          /\ e > swap.at => Undone(e) /\ Kept(e)
<1>1. \A e \in Batch : e < swap.at => Done(e)
  BY Ranges DEF SwapInv, Passed, Forward, Backward, Batch
<1>2. \A e \in Batch : e > swap.at => Undone(e) /\ Kept(e)
  BY DEF SwapInv, Ahead, Forward, Backward, Untouched, Undone, Kept
<1> QED BY <1>1, <1>2

\* A call that gives up on d may do so once d is as it was, or named, and not lost.
LEMMA UnwindInv ==
  ASSUME SwapInv, swap.pc \in Forward \cup Backward,
         NEW d \in Batch, d = swap.at, NEW lost \in SUBSET Dest, Unwind(d, lost),
         UNCHANGED <<before, target>>,
         live' \in [Dest -> Content], aside' \in [Dest -> Content],
         spare' \in [Dest -> Content], staged' \in [Dest -> Content],
         \A e \in Dest : e # d => live'[e] = live[e] /\ aside'[e] = aside[e],
         d \in lost \/ live'[d] = before[d], Kept(d)'
  PROVE  SwapInv'
<1>1. d \in Dest /\ Batch \subseteq Dest /\ d - 1 + 1 = d /\ d - 1 \in Int /\ d \in Int
  BY Ranges DEF Batch, Dest
<1>2. Moves("undo", d - 1, swap.failed \cup lost)
  BY <1>1, Ranges, UnwindMoves
<1>3. Batch' = Batch
  BY <1>2 DEF Moves, Batch
<1>4. \A e \in Batch : e <= d - 1 => Done(e)'
  BY <1>1, Around, Ranges DEF Done, Batch
<1>5. \A e \in Batch : e > d - 1 => Undone(e)' /\ Kept(e)'
  BY <1>1, <1>2, Around, Ranges DEF Undone, Kept, Moves, Batch
<1>6. SwapTypeOK'
  BY <1>2 DEF SwapInv, SwapTypeOK, Moves
<1>7. Place' /\ Current' /\ Over'
  BY <1>1, <1>2, <1>3 DEF Moves, Place, Current, Over, Forward
<1>8. Passed' /\ Ahead'
  BY <1>2, <1>3, <1>4, <1>5 DEF Moves, Passed, Ahead, Forward, Backward
<1>9. Outside'
  BY <1>1, <1>2, Ranges DEF SwapInv, Moves, Outside, Batch, Dest
<1> QED BY <1>6, <1>7, <1>8, <1>9 DEF SwapInv

\* The old tree is moved aside, or that fails.
LEMMA MoveAsideInv == SwapInv /\ MoveAside => SwapInv'
<1> SUFFICES ASSUME SwapInv, MoveAside PROVE SwapInv'
  OBVIOUS
<1> DEFINE d == swap.at
<1>1. d \in Batch /\ d \in Dest /\ swap.pc = "aside" /\ swap.failed = {}
  BY Ranges DEF MoveAside, Swapping, SwapInv, Place, Forward, Batch, Dest
<1>2. Untouched(d)
  BY <1>1 DEF SwapInv, Current
<1>3. UNCHANGED <<spare, staged, before, target>>
  BY DEF MoveAside
<1>4. CASE swap' = [swap EXCEPT !.pc = "in"] /\ aside' = [aside EXCEPT ![d] = live[d]]
             /\ live' = [live EXCEPT ![d] = Absent]
  <2>1. Moves("in", d, {})
    BY <1>1, <1>4, Ranges DEF Moves, SwapCall, Busy
  <2>2. \A e \in Dest : e # d => live'[e] = live[e] /\ aside'[e] = aside[e]
    BY <1>4 DEF SwapInv, SwapTypeOK
  <2>3. Open(d)'
    BY <1>1, <1>2, <1>3, <1>4, <2>1 DEF SwapInv, SwapTypeOK, Open, Untouched, Moves
  <2>4. SwapTypeOK'
    BY <1>1, <1>3, <1>4, <2>1 DEF SwapInv, SwapTypeOK, Content, Moves
  <2>5. Place' /\ Current' /\ Over'
    BY <1>1, <2>1, <2>3 DEF Moves, Place, Current, Over, Forward, Batch, Open
  <2>6. Passed' /\ Ahead' /\ Outside'
    BY <1>1, <1>3, <2>1, <2>2, Ranges
    DEF SwapInv, Moves, Passed, Ahead, Outside, Forward, Backward, Batch, Dest, Done, Untouched
  <2> QED BY <2>4, <2>5, <2>6 DEF SwapInv
<1>5. CASE Unwind(d, {}) /\ UNCHANGED <<live, aside>>
  BY <1>1, <1>2, <1>3, <1>5, UnwindInv DEF SwapInv, SwapTypeOK, Forward, Untouched, Kept
<1> QED BY <1>4, <1>5 DEF MoveAside

\* The destination of a forward step.
LEMMA AtForward ==
  ASSUME SwapInv, swap.pc \in Forward
  PROVE  swap.at \in Batch /\ swap.at \in Dest /\ swap.failed = {}
BY Ranges DEF SwapInv, Place, Batch, Dest

\* The new tree is renamed into its place; the next destination follows, if there is one.
LEMMA MoveInInv == SwapInv /\ MoveIn => SwapInv'
<1> SUFFICES ASSUME SwapInv, MoveIn PROVE SwapInv'
  OBVIOUS
<1> DEFINE d == swap.at
<1>1. swap.pc = "in" /\ swap.pc \in Forward /\ d \in Batch /\ d \in Dest /\ swap.failed = {}
  BY AtForward DEF MoveIn, Swapping, Forward
<1>2. UNCHANGED <<aside, spare, before, target>>
  BY DEF MoveIn
<1>3. \A e \in Dest : e # d => live'[e] = live[e] /\ staged'[e] = staged[e]
  BY DEF MoveIn, SwapInv, SwapTypeOK
<1>4. live'[d] = target[d] /\ aside[d] = before[d]
  BY <1>1, Ranges DEF MoveIn, SwapInv, SwapTypeOK, Current, Ahead, Open, Batch
<1>5. \A e \in Batch : e <= d => Done(e)'
  BY <1>1, <1>2, <1>3, <1>4, Around, Ranges DEF Done, Batch, Dest
<1>6. live' \in [Dest -> Content] /\ staged' \in [Dest -> Content]
  BY <1>1 DEF MoveIn, SwapInv, SwapTypeOK, Content
<1>7. CASE d = N
  <2>1. Moves("landed", N, {})
    BY <1>1, <1>7 DEF MoveIn, Moves, SwapInv, SwapTypeOK, SwapCall, Busy
  <2>2. SwapTypeOK' /\ Place' /\ Current' /\ Over' /\ Ahead'
    BY <1>2, <1>6, <2>1
    DEF SwapInv, SwapTypeOK, Moves, Place, Current, Over, Ahead, Forward, Backward
  <2>3. Passed' /\ Outside'
    BY <1>1, <1>3, <1>2, <1>5, <1>7, <2>1, Ranges
    DEF SwapInv, Moves, Passed, Outside, Forward, Batch, Dest
  <2> QED BY <2>2, <2>3 DEF SwapInv
<1>8. CASE d # N
  <2>1. d + 1 \in Batch /\ d + 1 \in 0..N /\ d + 1 # d
    BY <1>1, <1>8, Ranges DEF Batch
  <2>2. Moves("aside", d + 1, {})
    BY <1>1, <1>8, <2>1 DEF MoveIn, Moves, SwapInv, SwapTypeOK, SwapCall, Busy
  <2>3. \A e \in Batch : e >= d + 1 => Untouched(e)' /\ staged'[e] = target'[e]
    BY <1>1, <1>2, <1>3, Ranges DEF SwapInv, Ahead, Untouched, Batch, Dest
  <2>4. SwapTypeOK' /\ Place' /\ Over'
    BY <1>2, <1>6, <2>1, <2>2 DEF SwapInv, SwapTypeOK, Moves, Place, Over, Forward, Batch
  <2>5. Current' /\ Ahead'
    BY <2>1, <2>2, <2>3, Ranges DEF Moves, Current, Ahead, Forward, Backward, Batch
  <2>6. Passed' /\ Outside'
    BY <1>1, <1>2, <1>3, <1>5, <2>2, Ranges
    DEF SwapInv, Moves, Passed, Outside, Forward, Batch, Dest
  <2> QED BY <2>4, <2>5, <2>6 DEF SwapInv
<1> QED BY <1>7, <1>8

\* A step that changes the stage only, and stays at its destination.
LEMMA StageInv ==
  ASSUME SwapInv, NEW pc \in {"restore", "putback"}, swap.pc \in {"in", "undoin"},
         pc = "restore" <=> swap.pc = "in", Moves(pc, swap.at, swap.failed),
         UNCHANGED <<live, aside, spare, staged, before, target>>
  PROVE  SwapInv'
<1>1. SwapTypeOK' /\ Outside'
  BY DEF SwapInv, SwapTypeOK, Outside, Moves
<1>2. Place' /\ Current' /\ Over'
  BY DEF SwapInv, Place, Current, Over, Moves, Forward, Batch, Open
<1>3. Passed' /\ Ahead'
  BY DEF SwapInv, Passed, Ahead, Moves, Forward, Backward, Batch, Done, Untouched, Undone, Kept
<1> QED BY <1>1, <1>2, <1>3 DEF SwapInv

\* The new tree cannot be renamed into its place.
LEMMA MoveInFailsInv == SwapInv /\ MoveInFails => SwapInv'
<1> SUFFICES ASSUME SwapInv, MoveInFails PROVE SwapInv'
  OBVIOUS
<1>1. swap.pc = "in" /\ swap.pc \in Forward /\ swap.at \in Batch /\ swap.at \in Dest
  BY AtForward DEF MoveInFails, Swapping, Forward
<1>2. Open(swap.at) /\ UNCHANGED <<live, aside, spare, staged, before, target>>
  BY <1>1 DEF SwapInv, Current, MoveInFails
<1>3. CASE aside[swap.at] = Absent /\ Unwind(swap.at, {})
  <2>1. live'[swap.at] = before[swap.at] /\ before'[swap.at] = live'[swap.at]
    BY <1>2, <1>3 DEF Open
  <2> QED BY <1>1, <1>2, <1>3, <2>1, UnwindInv DEF SwapInv, SwapTypeOK, Kept
<1>4. CASE swap' = [swap EXCEPT !.pc = "restore"]
  <2>1. Moves("restore", swap.at, swap.failed)
    BY <1>4 DEF Moves, SwapInv, SwapTypeOK, SwapCall, Busy
  <2> QED BY <1>1, <1>2, <2>1, StageInv
<1> QED BY <1>3, <1>4 DEF MoveInFails

\* The old tree is renamed back, or that fails too and the exception says so.
LEMMA RestoreInv == SwapInv /\ Restore => SwapInv'
<1> SUFFICES ASSUME SwapInv, Restore PROVE SwapInv'
  OBVIOUS
<1> DEFINE d == swap.at
<1>1. swap.pc = "restore" /\ swap.pc \in Forward /\ d \in Batch /\ d \in Dest
  BY AtForward DEF Restore, Swapping, Forward
<1>2. Open(d) /\ UNCHANGED <<spare, staged, before, target>>
  BY <1>1 DEF SwapInv, Current, Restore
<1>3. CASE /\ live' = [live EXCEPT ![d] = aside[d]] /\ aside' = [aside EXCEPT ![d] = Absent]
           /\ Unwind(d, {})
  <2>1. live' \in [Dest -> Content] /\ aside' \in [Dest -> Content] /\ live'[d] = before[d]
    BY <1>1, <1>2, <1>3 DEF SwapInv, SwapTypeOK, Open, Content
  <2>2. \A e \in Dest : e # d => live'[e] = live[e] /\ aside'[e] = aside[e]
    BY <1>3 DEF SwapInv, SwapTypeOK
  <2> QED BY <1>1, <1>2, <1>3, <2>1, <2>2, UnwindInv DEF SwapInv, SwapTypeOK, Kept
<1>4. CASE Unwind(d, {d}) /\ UNCHANGED <<live, aside>>
  BY <1>1, <1>2, <1>4, UnwindInv DEF SwapInv, SwapTypeOK, Open, Kept
<1> QED BY <1>3, <1>4 DEF Restore

\* The batch is complete, and what was set aside is removed.
LEMMA LandInv == SwapInv /\ Land => SwapInv'
<1> SUFFICES ASSUME SwapInv, Land PROVE SwapInv'
  OBVIOUS
<1>1. swap.pc = "landed" /\ UNCHANGED <<live, spare, staged, before, target>> /\ aside' = Empty
  BY DEF Land, Swapping
<1>2. Moves("returned", swap.at, swap.failed)
  BY DEF Land, Moves, SwapInv, SwapTypeOK, SwapCall, Ended
<1>3. SwapTypeOK' /\ Outside' /\ Place' /\ Current' /\ Passed' /\ Ahead'
  BY <1>1, <1>2
  DEF SwapInv, SwapTypeOK, Outside, Place, Current, Passed, Ahead, Moves, Forward, Backward,
     Empty, Content
<1>4. Over'
  BY <1>1, <1>2 DEF SwapInv, Passed, Over, Moves, Done, Batch
<1> QED BY <1>3, <1>4 DEF SwapInv

-----------------------------------------------------------------------------
(* The way back.                                                           *)

\* The destination to be undone.
LEMMA AtUndo ==
  ASSUME SwapInv, Undoing
  PROVE  /\ swap.pc = "undo" /\ swap.pc \in Forward \cup Backward
         /\ swap.at \in Batch /\ swap.at \in Dest /\ Done(swap.at)
<1>1. swap.pc = "undo" /\ swap.at >= swap.first /\ swap.at + 1 <= N
  BY Ranges DEF Undoing, Swapping, SwapInv, Place, Batch
<1>2. swap.at \in Batch /\ swap.at \in Dest
  BY <1>1, Ranges DEF Batch, Dest
<1>3. Done(swap.at)
  BY <1>1, <1>2, Ranges DEF SwapInv, Passed
<1> QED BY <1>1, <1>2, <1>3 DEF Backward

\* A swap that found nothing is undone, or the new tree stays and is named.
LEMMA UndoFreshInv == SwapInv /\ UndoFresh => SwapInv'
<1> SUFFICES ASSUME SwapInv, UndoFresh PROVE SwapInv'
  OBVIOUS
<1> DEFINE d == swap.at
<1>1. swap.pc \in Forward \cup Backward /\ d \in Batch /\ d \in Dest /\ Done(d)
  BY AtUndo DEF UndoFresh
<1>2. before[d] = Absent /\ UNCHANGED <<aside, spare, staged, before, target>>
  BY <1>1 DEF UndoFresh, Done
<1>3. CASE live' = [live EXCEPT ![d] = Absent] /\ Unwind(d, {})
  <2>1. live' \in [Dest -> Content] /\ live'[d] = Absent
    BY <1>1, <1>3 DEF SwapInv, SwapTypeOK, Content
  <2>2. \A e \in Dest : e # d => live'[e] = live[e] /\ aside'[e] = aside[e]
    BY <1>2, <1>3 DEF SwapInv, SwapTypeOK
  <2> QED BY <1>1, <1>2, <1>3, <2>1, <2>2, UnwindInv DEF SwapInv, SwapTypeOK, Kept
<1>4. CASE Unwind(d, {d}) /\ UNCHANGED live
  BY <1>1, <1>2, <1>4, UnwindInv DEF SwapInv, SwapTypeOK, Kept
<1> QED BY <1>3, <1>4 DEF UndoFresh

\* The new tree is moved out of the way, or cannot be and is named.
LEMMA UndoAsideInv == SwapInv /\ UndoAside => SwapInv'
<1> SUFFICES ASSUME SwapInv, UndoAside PROVE SwapInv'
  OBVIOUS
<1> DEFINE d == swap.at
<1>1. swap.pc = "undo" /\ swap.pc \in Forward \cup Backward /\ d \in Batch /\ d \in Dest /\ Done(d)
  BY AtUndo DEF UndoAside
<1>2. UNCHANGED <<aside, staged, before, target>>
  BY DEF UndoAside
<1>3. CASE /\ swap' = [swap EXCEPT !.pc = "undoin"]
           /\ spare' = [spare EXCEPT ![d] = live[d]] /\ live' = [live EXCEPT ![d] = Absent]
  <2>1. Moves("undoin", d, swap.failed)
    BY <1>3 DEF Moves, SwapInv, SwapTypeOK, SwapCall, Busy
  <2>2. \A e \in Dest : e # d => live'[e] = live[e]
    BY <1>3 DEF SwapInv, SwapTypeOK
  <2>3. SwapTypeOK' /\ Open(d)'
    BY <1>1, <1>2, <1>3, <2>1 DEF SwapInv, SwapTypeOK, Open, Done, Content, Moves
  <2>4. Place' /\ Current' /\ Over'
    BY <1>1, <2>1, <2>3 DEF Moves, Place, Current, Over, Forward, Batch, Open
  <2>5. Passed' /\ Ahead' /\ Outside'
    BY <1>1, <1>2, <2>1, <2>2, Around, Ranges
    DEF SwapInv, Moves, Passed, Ahead, Outside, Forward, Backward, Batch, Dest, Done, Undone, Kept
  <2> QED BY <2>3, <2>4, <2>5 DEF SwapInv
<1>4. CASE Unwind(d, {d}) /\ UNCHANGED <<live, spare>>
  BY <1>1, <1>2, <1>4, UnwindInv DEF SwapInv, SwapTypeOK, Done, Kept
<1> QED BY <1>3, <1>4 DEF UndoAside

\* The destination while nothing is in its place on the way back.
LEMMA AtGap ==
  ASSUME SwapInv, swap.pc \in {"undoin", "putback"}
  PROVE  /\ swap.pc \in Forward \cup Backward
         /\ swap.at \in Batch /\ swap.at \in Dest /\ Open(swap.at)
BY Ranges DEF SwapInv, Place, Current, Backward, Batch, Dest

\* The old tree is back, or the new one has to be put back.
LEMMA UndoInInv == SwapInv /\ UndoIn => SwapInv'
<1> SUFFICES ASSUME SwapInv, UndoIn PROVE SwapInv'
  OBVIOUS
<1> DEFINE d == swap.at
<1>1. /\ swap.pc = "undoin" /\ swap.pc \in Forward \cup Backward
      /\ d \in Batch /\ d \in Dest /\ Open(d)
  BY AtGap DEF UndoIn, Swapping
<1>2. UNCHANGED <<staged, before, target>>
  BY DEF UndoIn
<1>3. CASE /\ live' = [live EXCEPT ![d] = aside[d]] /\ aside' = [aside EXCEPT ![d] = Absent]
           /\ spare' = [spare EXCEPT ![d] = Absent] /\ Unwind(d, {})
  <2>1. /\ live' \in [Dest -> Content] /\ aside' \in [Dest -> Content]
        /\ spare' \in [Dest -> Content] /\ live'[d] = before[d]
    BY <1>1, <1>3 DEF SwapInv, SwapTypeOK, Content, Open
  <2>2. \A e \in Dest : e # d => live'[e] = live[e] /\ aside'[e] = aside[e]
    BY <1>3 DEF SwapInv, SwapTypeOK
  <2> QED BY <1>1, <1>2, <1>3, <2>1, <2>2, UnwindInv DEF SwapInv, SwapTypeOK, Kept
<1>4. CASE swap' = [swap EXCEPT !.pc = "putback"] /\ UNCHANGED <<live, aside, spare>>
  <2>1. Moves("putback", d, swap.failed)
    BY <1>4 DEF Moves, SwapInv, SwapTypeOK, SwapCall, Busy
  <2> QED BY <1>1, <1>2, <1>4, <2>1, StageInv
<1> QED BY <1>3, <1>4 DEF UndoIn

\* The undoing of a swap has failed: the destination is named.
LEMMA PutBackInv == SwapInv /\ PutBack => SwapInv'
<1> SUFFICES ASSUME SwapInv, PutBack PROVE SwapInv'
  OBVIOUS
<1> DEFINE d == swap.at
<1>1. swap.pc \in Forward \cup Backward /\ d \in Batch /\ d \in Dest /\ Open(d)
  BY AtGap DEF PutBack, Swapping
<1>2. UNCHANGED <<aside, staged, before, target>> /\ Unwind(d, {d})
  BY DEF PutBack
<1>3. live' \in [Dest -> Content] /\ spare' \in [Dest -> Content]
  BY <1>1 DEF PutBack, SwapInv, SwapTypeOK, Content
<1>4. \A e \in Dest : e # d => live'[e] = live[e] /\ aside'[e] = aside[e]
  BY <1>2 DEF PutBack, SwapInv, SwapTypeOK
<1> QED BY <1>1, <1>2, <1>3, <1>4, UnwindInv DEF SwapInv, SwapTypeOK, Open, Kept

\* The exception is raised once there is nothing left to undo.
LEMMA RaiseInv == SwapInv /\ Raise => SwapInv'
<1> SUFFICES ASSUME SwapInv, Raise PROVE SwapInv'
  OBVIOUS
<1>1. /\ swap.pc = "undo" /\ swap.at < swap.first /\ staged' = Empty
      /\ UNCHANGED <<live, aside, spare, before, target>>
  BY DEF Raise, Swapping
<1>2. Moves("raised", swap.at, swap.failed)
  BY DEF Raise, Moves, SwapInv, SwapTypeOK, SwapCall, Ended
<1>3. SwapTypeOK' /\ Outside' /\ Place' /\ Current' /\ Passed' /\ Ahead'
  BY <1>1, <1>2
  DEF SwapInv, SwapTypeOK, Outside, Place, Current, Passed, Ahead, Moves, Forward, Backward,
     Empty, Content
<1>4. \A e \in Batch : Undone(e) /\ Kept(e)
  BY <1>1, Around, Ranges DEF Batch, Backward
<1>5. Over'
  BY <1>1, <1>2, <1>4 DEF Over, Moves, Undone, Kept, Batch
<1> QED BY <1>3, <1>5 DEF SwapInv

-----------------------------------------------------------------------------
(* The process and the trees' owners.                                      *)

\* As long as a call runs, nothing in its batch is lost.
LEMMA BusyKept ==
  ASSUME SwapInv, swap.pc \in Busy
  PROVE  \A e \in Batch : Kept(e)
<1>1. CASE swap.pc = "landed"
  BY <1>1 DEF SwapInv, Passed, Done, Kept
<1>2. CASE swap.pc = "undo"
  BY <1>2, Around, Ranges DEF SwapInv, Passed, Backward, Batch, Done, Kept
<1>3. CASE swap.pc \in Forward \cup {"undoin", "putback"}
  <2>1. Kept(swap.at)
    BY <1>3 DEF SwapInv, Current, Forward, Untouched, Open, Kept
  <2>2. swap.at \in Batch
    BY <1>3 DEF SwapInv, Place
  <2>3. \A e \in Batch : e # swap.at => Kept(e)
    BY <1>3, <2>2, Around, Ranges DEF Batch, Done, Kept, Backward
  <2> QED BY <2>1, <2>3
<1> QED BY <1>1, <1>2, <1>3 DEF Busy, Forward

\* The process dies.
LEMMA SwapDiesInv == SwapInv /\ SwapDies => SwapInv'
<1> SUFFICES ASSUME SwapInv, SwapDies PROVE SwapInv'
  OBVIOUS
<1>1. swap.pc \in Busy /\ UNCHANGED <<live, aside, spare, staged, before, target>>
  BY DEF SwapDies
<1>2. Moves("dead", swap.at, swap.failed)
  BY DEF SwapDies, Moves, SwapInv, SwapTypeOK, SwapCall, Ended
<1>3. SwapTypeOK' /\ Outside' /\ Place' /\ Current' /\ Passed' /\ Ahead'
  BY <1>1, <1>2
  DEF SwapInv, SwapTypeOK, Outside, Place, Current, Passed, Ahead, Moves, Forward, Backward
<1>4. Over'
  BY <1>1, <1>2, BusyKept DEF Over, Moves, Kept, Batch
<1> QED BY <1>3, <1>4 DEF SwapInv

\* Between calls a tree is written or removed.
LEMMA RewriteInv ==
  ASSUME SwapInv, NEW d \in Dest, NEW tree \in Content, Rewrite(d, tree)
  PROVE  SwapInv'
<1>1. swap' = NoCall /\ before' = live' /\ aside' = Empty /\ spare' = Empty
      /\ staged' = Empty /\ target' = Empty
  BY DEF Rewrite
<1>2. live' \in [Dest -> Content] /\ Empty \in [Dest -> Content]
  BY DEF Rewrite, SwapInv, SwapTypeOK, Empty, Content
<1>3. NoCall \in SwapCall /\ NoCall.pc = "idle"
  BY SwapAssumption DEF SwapAssumption, NoCall, SwapCall, Ended, Dest
<1>4. SwapTypeOK' /\ Outside'
  BY <1>1, <1>2, <1>3 DEF SwapTypeOK, Outside
<1>5. Place' /\ Current' /\ Passed' /\ Ahead' /\ Over'
  BY <1>1, <1>3 DEF Place, Current, Passed, Ahead, Over, Forward, Backward
<1> QED BY <1>4, <1>5 DEF SwapInv

\* Every step keeps the invariant.
LEMMA SwapNextInv == SwapInv /\ [SwapNext]_swapVars => SwapInv'
<1> SUFFICES ASSUME SwapInv, [SwapNext]_swapVars PROVE SwapInv'
  OBVIOUS
<1>1. CASE SwapStep
  BY <1>1, MoveAsideInv, MoveInInv, MoveInFailsInv, RestoreInv, LandInv,
     UndoFreshInv, UndoAsideInv, UndoInInv, PutBackInv, RaiseInv DEF SwapStep
<1>2. CASE SwapDies
  BY <1>2, SwapDiesInv
<1>3. CASE \E f \in Dest, trees \in [Dest -> Tree] : Begin(f, trees)
  BY <1>3, BeginInv
<1>4. CASE \E d \in Dest, tree \in Content : Rewrite(d, tree)
  BY <1>4, RewriteInv
<1>5. CASE UNCHANGED swapVars
  BY <1>5 DEF swapVars, SwapInv, SwapTypeOK, Place, Current, Passed, Ahead, Over, Outside,
     Batch, Done, Untouched, Open, Undone, Kept
<1> QED BY <1>1, <1>2, <1>3, <1>4, <1>5 DEF SwapNext

\* What the invariant says when a call is over, and when it is not.
LEMMA SwapInvImplies == SwapInv => SwapTypeOK /\ AllOrNothing /\ NothingLost
<1> SUFFICES ASSUME SwapInv PROVE SwapTypeOK /\ AllOrNothing /\ NothingLost
  OBVIOUS
<1>1. AllOrNothing
  BY DEF SwapInv, Over, AllOrNothing, Swapping, Undone
<1>2. CASE swap.pc \in Busy \cup {"raised", "dead"}
  <2>1. \A e \in Batch : Kept(e)
    BY <1>2, BusyKept DEF SwapInv, Over
  <2>2. \A e \in Dest : e \in Batch \/ live[e] = before[e]
    BY Ranges DEF SwapInv, Outside, Batch, Dest
  <2> QED BY <1>1, <2>1, <2>2 DEF SwapInv, NothingLost, Kept
<1>3. CASE swap.pc \in {"idle", "returned"}
  BY <1>1, <1>3 DEF SwapInv, Over, NothingLost
<1> QED BY <1>2, <1>3, Ranges DEF SwapCall, Ended

\* swap_dirs, for a batch of any length and any faults: the variables' types,
\* that it lands whole or leaves every destination as it was but those that its
\* exception names, and that no old tree is gone before the batch has landed.
THEOREM SwapSafety == SwapSpec => [](SwapTypeOK /\ AllOrNothing /\ NothingLost)
<1>1. SwapInit => SwapInv
  BY SwapInitInv
<1>2. SwapInv /\ [SwapNext]_swapVars => SwapInv'
  BY SwapNextInv
<1> QED BY <1>1, <1>2, SwapInvImplies, PTL DEF SwapSpec

(***************************************************************************)
(* SeedStore: publisher and client.                                        *)
(***************************************************************************)

\* The types of the store, the publisher and the client.
StoreTypeOK ==
  /\ clock \in 0..MaxTime /\ runs \in 0..MaxRuns
  /\ gathered \in [Corpus -> Time \cup {Never}] /\ index \in [Corpus -> Time \cup {Never}]
  /\ members \in SUBSET Corpus /\ torn \in SUBSET Corpus /\ listed \in BOOLEAN
  /\ manifest \in [Corpus -> Manifests]
  /\ bundles \in [Corpus -> [Time -> Build \cup {Never}]]
  /\ built \in [Corpus -> [Time -> 0..MaxBuilds]]
  /\ pub \in Publisher
ClientTypeOK == client \in Client

\* The publisher has a gathered version in hand while it writes a member, and a
\* build to spare; a manifest names a gathered version.
Writing ==
  /\ pub.pc \in {"bundle", "manifest"} => gathered[pub.cur] \in Time
  /\ pub.pc = "bundle" => built[pub.cur][gathered[pub.cur]] < MaxBuilds
  /\ \A c \in Corpus : manifest[c] = NoFile \/ manifest[c].version \in Time

\* The call that a client waits for swaps in the whole tree of its manifest.
Installing ==
  /\ client.pc \in {"stage", "swap", "stamp"} => client.whole
  /\ client.pc \in {"swap", "stamp"} => \A d \in Batch : target[d] = client.man.version
  /\ client.pc = "stamp" => swap.pc = "returned"
  /\ client.pc = "bundle" => client.man.version \in Time

SeedInv == StoreTypeOK /\ ClientTypeOK /\ Writing /\ SwapInv /\ Installing

(***************************************************************************)
(* The index, and what it lists.                                           *)
(***************************************************************************)

\* The publisher is putting a bundle and a manifest of c in place of the old ones.
Rewriting(c) == pub.pc \in {"bundle", "manifest"} /\ c = pub.cur

\* The entries a run is going to write are of members, so that the prune leaves their
\* bundles alone, and can be installed, but for the one it is rewriting and what a run
\* before it has torn.  A run that knows of no tuple has found no index.
EntriesInv ==
  /\ pub.todo \subseteq members
  /\ pub.pc \in {"choose", "bundle", "manifest"} => pub.cur \in members
  /\ ~PubAt("idle") => \A c \in Corpus : pub.entries[c] # Never =>
       c \in members /\ (c \in torn \/ Rewriting(c) \/ Installable(c))
  /\ ~PubAt("idle") /\ ~pub.compat => ~listed
  /\ ~listed => index = NoEntries

ListedInv == EntriesInv /\ IndexInstallable

\* A new tree is a tree; a batch that is being undone, or has been, does not have its
\* new workspace in place, and a process that died has left the order as it was.
OrderInv ==
  /\ swap.pc # "idle" => target[Workspace] \in Tree
  /\ swap.pc \in {"undoin", "putback"} => swap.at < Workspace
  /\ swap.first = IndexDir /\ swap.pc \in Backward \cup {"raised"} =>
       live[Workspace] \in {Absent, before[Workspace]}
  /\ swap.pc = "dead" => IndexFirst

\* What the proofs use of the assumptions on the constants.
LEMMA SeedConstants ==
  /\ N = 2 /\ Dest = {1, 2} /\ IndexDir \in Dest /\ Workspace \in Dest
  /\ Time \subseteq Tree /\ Broken \in Tree /\ Tree = Time \cup {0}
  /\ MaxTime \in Nat /\ MaxBuilds \in Nat \ {0} /\ MaxRuns \in Nat
  /\ Local \in Corpus
<1>1. /\ N = 2 /\ Tree = Time \cup {0} /\ Broken = 0 /\ Local \in Corpus
      /\ MaxTime \in Nat /\ MaxBuilds \in Nat \ {0} /\ MaxRuns \in Nat
  BY SeedAssumption DEF SeedAssumption, Broken
<1>2. Dest = {1, 2}
  BY <1>1 DEF Dest
<1> QED BY <1>1, <1>2 DEF IndexDir, Workspace

\* The first state.
LEMMA SeedInitInv == SeedInit => SeedInv
<1> SUFFICES ASSUME SeedInit PROVE SeedInv
  OBVIOUS
<1>1. StoreTypeOK
  <2>1. NoRun \in Publisher
    BY SeedConstants DEF NoRun, NoEntries, Publisher, PubStages, Never
  <2>2. NoFile \in Manifests /\ NoEntries \in [Corpus -> Time \cup {Never}]
    BY DEF NoFile, NoEntries, Manifests, Never
  <2>3. [c \in Corpus |-> [t \in Time |-> 0]] \in [Corpus -> [Time -> 0..MaxBuilds]]
    BY SeedConstants
  <2>4. [c \in Corpus |-> [t \in Time |-> Never]] \in [Corpus -> [Time -> Build \cup {Never}]]
    OBVIOUS
  <2>5. clock \in 0..MaxTime /\ runs \in 0..MaxRuns
    BY SeedConstants DEF SeedInit
  <2>6. manifest \in [Corpus -> Manifests]
    BY <2>2 DEF SeedInit
  <2> QED BY <2>1, <2>2, <2>3, <2>4, <2>5, <2>6 DEF SeedInit, StoreTypeOK
<1>2. ClientTypeOK /\ Installing
  BY DEF SeedInit, ClientTypeOK, Installing, NoClient, Client, ClientStages, Manifests, NoFile,
     Never
<1>3. Writing
  BY DEF SeedInit, Writing, NoRun
<1>4. SwapInv
  BY SwapInitInv DEF SeedInit
<1> QED BY <1>1, <1>2, <1>3, <1>4 DEF SeedInv

-----------------------------------------------------------------------------
(* Every step is a swap's step, or leaves the swap alone.                  *)

\* What a client unpacks is a tree.
LEMMA UnpackedTree == ClientTypeOK => Unpacked \in Tree
BY SeedConstants DEF ClientTypeOK, Client, Manifests, Unpacked, Never, Broken

\* Whatever the store, the publisher and the client do, the two directories change
\* by the swap's own steps.
LEMMA SwapRefined ==
  ASSUME SeedInv, [SeedNext]_seedVars
  PROVE  [SwapNext]_swapVars
<1>1. CASE Publishing
  BY <1>1 DEF Publishing, StartRun, Take, Skip, UpToDate, DropOldBundles, WriteBundle,
     WriteManifest, MembersDone, Prune, WriteIndex, PublisherDies
<1>2. CASE Seeding
  <2>1. CASE \E first \in Dest : StageTree(first)
    <3>1. [d \in Dest |-> Unpacked] \in [Dest -> Tree]
      BY UnpackedTree DEF SeedInv
    <3> QED BY <2>1, <3>1 DEF StageTree, SwapNext
  <2>2. CASE Swap
    BY <2>2 DEF Swap, SwapNext
  <2>3. CASE Gather
    <3>1. clock < MaxTime => clock + 1 \in Content
      BY SeedConstants DEF SeedInv, StoreTypeOK, Time, Content
    <3> QED BY <2>3, <3>1, SeedConstants DEF Gather, SwapNext
  <2>4. CASE Record
    <3>1. live[IndexDir] \in Content
      BY SeedConstants DEF SeedInv, SwapInv, SwapTypeOK
    <3> QED BY <2>4, <3>1, SeedConstants DEF Record, SwapNext
  <2>5. CASE ClientDies
    BY <2>5 DEF ClientDies, SwapNext
  <2>6. CASE \/ \E seeding, refresh \in BOOLEAN : StartGather(seeding, refresh)
             \/ \E covers \in BOOLEAN : LoadIndex(covers)
             \/ LoadManifest \/ (\E whole \in BOOLEAN : Download(whole))
             \/ Verify \/ SeedFails \/ Installed \/ Stamp
    BY <2>6 DEF StartGather, LoadIndex, LoadManifest, Download, Verify, SeedFails, Installed, Stamp
  <2> QED BY <1>2, <2>1, <2>2, <2>3, <2>4, <2>5, <2>6 DEF Seeding
<1>3. CASE UNCHANGED seedVars
  BY <1>3 DEF seedVars
<1> QED BY <1>1, <1>2, <1>3 DEF SeedNext

-----------------------------------------------------------------------------
(* The publisher's steps.                                                  *)

\* A run begins with the entries of the old index it carries forward.
LEMMA StartRunInv ==
  ASSUME SeedInv, NEW now \in SUBSET Corpus, NEW targets \in SUBSET Corpus,
         NEW force \in BOOLEAN, NEW prune \in BOOLEAN, StartRun(now, targets, force, prune)
  PROVE  StoreTypeOK' /\ Writing'
<1>1. pub' \in Publisher
  BY SeedConstants DEF StartRun, SeedInv, StoreTypeOK, Publisher, PubStages, CarriedForward, Never
<1>2. pub'.pc = "next" /\ runs' \in 0..MaxRuns
  BY SeedConstants DEF StartRun, SeedInv, StoreTypeOK
<1> QED BY <1>1, <1>2 DEF StartRun, SeedInv, StoreTypeOK, Writing, store

\* A member is taken, and may be gathered first.
LEMMA TakeInv ==
  ASSUME SeedInv, NEW c \in Corpus, NEW fresh \in BOOLEAN, Take(c, fresh)
  PROVE  StoreTypeOK' /\ Writing'
<1>1. pub' \in Publisher /\ pub'.pc = "choose"
  BY DEF Take, SeedInv, StoreTypeOK, Publisher, PubStages
<1>2. clock' \in 0..MaxTime /\ gathered' \in [Corpus -> Time \cup {Never}]
  BY SeedConstants DEF Take, SeedInv, StoreTypeOK, Time
<1> QED BY <1>1, <1>2 DEF Take, SeedInv, StoreTypeOK, Writing, store

\* A member without a gathered version, or one that failed, is passed over.
LEMMA SkipInv == SeedInv /\ Skip => StoreTypeOK' /\ Writing'
<1> SUFFICES ASSUME SeedInv, Skip PROVE StoreTypeOK' /\ Writing'
  OBVIOUS
<1>1. NextMember \in Publisher /\ NextMember.pc = "next"
  BY SeedConstants DEF NextMember, SeedInv, StoreTypeOK, Publisher, PubStages
<1>2. \A c \in Corpus : [pub EXCEPT !.todo = @ \ {c}] \in Publisher
  BY DEF SeedInv, StoreTypeOK, Publisher
<1>3. pub' \in Publisher /\ pub'.pc = "next"
  BY <1>1, <1>2 DEF Skip, PubAt, SeedInv, StoreTypeOK, Publisher
<1> QED BY <1>3 DEF Skip, SeedInv, StoreTypeOK, Writing, store

\* A member whose manifest already names its version is left as it is.
LEMMA UpToDateInv == SeedInv /\ UpToDate => StoreTypeOK' /\ Writing'
<1> SUFFICES ASSUME SeedInv, UpToDate PROVE StoreTypeOK' /\ Writing'
  OBVIOUS
<1>1. pub' \in Publisher /\ pub'.pc = "next"
  BY SeedConstants DEF UpToDate, NextMember, SeedInv, StoreTypeOK, Publisher, PubStages
<1> QED BY <1>1 DEF UpToDate, SeedInv, StoreTypeOK, Writing, store

\* The member's old bundles are removed.
LEMMA DropOldBundlesInv == SeedInv /\ DropOldBundles => StoreTypeOK' /\ Writing'
<1> SUFFICES ASSUME SeedInv, DropOldBundles PROVE StoreTypeOK' /\ Writing'
  OBVIOUS
<1>1. pub' \in Publisher /\ pub'.pc = "bundle" /\ pub'.cur = pub.cur /\ pub.cur \in Corpus
  BY DEF DropOldBundles, SeedInv, StoreTypeOK, Publisher, PubStages
<1>2. bundles' \in [Corpus -> [Time -> Build \cup {Never}]]
  BY <1>1 DEF DropOldBundles, SeedInv, StoreTypeOK
<1>3. gathered[pub.cur] \in Time
  BY <1>1 DEF DropOldBundles, SeedInv, StoreTypeOK
<1> QED BY <1>1, <1>2, <1>3 DEF DropOldBundles, SeedInv, StoreTypeOK, Writing

\* The bundle is written; it is one build more than the version had.
LEMMA WriteBundleInv == SeedInv /\ WriteBundle => StoreTypeOK' /\ Writing'
<1> SUFFICES ASSUME SeedInv, WriteBundle PROVE StoreTypeOK' /\ Writing'
  OBVIOUS
<1> DEFINE c == pub.cur
           t == gathered[c]
<1>1. pub' \in Publisher /\ pub'.pc = "manifest" /\ pub'.cur = c /\ c \in Corpus
  BY DEF WriteBundle, SeedInv, StoreTypeOK, Publisher, PubStages
<1>2. t \in Time /\ built[c][t] \in 0..MaxBuilds /\ built[c][t] < MaxBuilds
  BY <1>1 DEF WriteBundle, PubAt, SeedInv, StoreTypeOK, Writing
<1>3. built[c][t] + 1 \in 0..MaxBuilds /\ built[c][t] + 1 \in Build
  BY <1>2, SeedConstants DEF Build
<1>4. /\ bundles' \in [Corpus -> [Time -> Build \cup {Never}]]
      /\ built' \in [Corpus -> [Time -> 0..MaxBuilds]]
  BY <1>1, <1>2, <1>3 DEF WriteBundle, SeedInv, StoreTypeOK
<1> QED BY <1>1, <1>2, <1>4 DEF WriteBundle, SeedInv, StoreTypeOK, Writing

\* The manifest names the version gathered.
LEMMA WriteManifestInv == SeedInv /\ WriteManifest => StoreTypeOK' /\ Writing'
<1> SUFFICES ASSUME SeedInv, WriteManifest PROVE StoreTypeOK' /\ Writing'
  OBVIOUS
<1> DEFINE c == pub.cur
           t == gathered[c]
<1>1. c \in Corpus /\ t \in Time /\ bundles[c][t] \in Build \cup {Never}
  BY DEF WriteManifest, PubAt, SeedInv, StoreTypeOK, Writing, Publisher
<1>2. NextMember \in Publisher /\ NextMember.pc = "next"
  BY SeedConstants DEF NextMember, SeedInv, StoreTypeOK, Publisher, PubStages
<1>3. pub' \in Publisher /\ pub'.pc = "next"
  BY <1>1, <1>2 DEF WriteManifest, Publisher
<1>4. manifest' \in [Corpus -> Manifests]
  BY <1>1 DEF WriteManifest, SeedInv, StoreTypeOK, Manifests
<1>5. \A k \in Corpus : manifest'[k] = NoFile \/ manifest'[k].version \in Time
  BY <1>1 DEF WriteManifest, SeedInv, StoreTypeOK, Writing
<1> QED BY <1>3, <1>4, <1>5 DEF WriteManifest, SeedInv, StoreTypeOK, Writing

\* The directories of those who are no members are removed.
LEMMA PruneInv == SeedInv /\ Prune => StoreTypeOK' /\ Writing'
<1> SUFFICES ASSUME SeedInv, Prune PROVE StoreTypeOK' /\ Writing'
  OBVIOUS
<1>1. pub' \in Publisher /\ pub'.pc \in {"prune", "index"}
  BY DEF Prune, PubAt, SeedInv, StoreTypeOK, Publisher, PubStages
<1>2. NoFile \in Manifests /\ [t \in Time |-> Never] \in [Time -> Build \cup {Never}]
  BY DEF NoFile, Manifests
<1>3. manifest' \in [Corpus -> Manifests] /\ bundles' \in [Corpus -> [Time -> Build \cup {Never}]]
  BY <1>2 DEF Prune, SeedInv, StoreTypeOK
<1> QED BY <1>1, <1>3 DEF Prune, SeedInv, StoreTypeOK, Writing

\* The end of a run, and the steps between its members.
LEMMA RunEndsInv ==
  ASSUME SeedInv, MembersDone \/ WriteIndex \/ PublisherDies
  PROVE  StoreTypeOK' /\ Writing'
<1>1. NoRun \in Publisher /\ NoRun.pc = "idle"
  BY SeedConstants DEF NoRun, NoEntries, Publisher, PubStages, Never
<1>2. CASE MembersDone
  <2>1. pub' \in Publisher /\ pub'.pc \in {"prune", "index"}
    BY <1>2 DEF MembersDone, SeedInv, StoreTypeOK, Publisher, PubStages
  <2> QED BY <1>2, <2>1 DEF MembersDone, SeedInv, StoreTypeOK, Writing, store
<1>3. CASE WriteIndex
  <2>1. index' \in [Corpus -> Time \cup {Never}] /\ listed' \in BOOLEAN
    BY <1>3 DEF WriteIndex, SeedInv, StoreTypeOK, Publisher
  <2> QED BY <1>1, <1>3, <2>1 DEF WriteIndex, SeedInv, StoreTypeOK, Writing
<1>4. CASE PublisherDies
  BY <1>1, <1>4 DEF PublisherDies, SeedInv, StoreTypeOK, Writing, store
<1> QED BY <1>2, <1>3, <1>4

\* The publisher leaves the client alone.
LEMMA PublishingInv == SeedInv /\ Publishing => SeedInv'
<1> SUFFICES ASSUME SeedInv, Publishing PROVE SeedInv'
  OBVIOUS
<1>1. StoreTypeOK' /\ Writing'
  BY StartRunInv, TakeInv, SkipInv, UpToDateInv, DropOldBundlesInv, WriteBundleInv,
     WriteManifestInv, PruneInv, RunEndsInv DEF Publishing
<1>2. UNCHANGED <<client, swapVars>>
  BY DEF Publishing, StartRun, Take, Skip, UpToDate, DropOldBundles, WriteBundle,
     WriteManifest, MembersDone, Prune, WriteIndex, PublisherDies
<1>3. SwapInv'
  BY <1>2, SwapNextInv DEF SeedInv
<1>4. ClientTypeOK' /\ Installing'
  BY <1>2 DEF SeedInv, ClientTypeOK, Installing, swapVars, Batch
<1> QED BY <1>1, <1>3, <1>4 DEF SeedInv

-----------------------------------------------------------------------------
(* The client's steps.                                                     *)

\* The client's steps that leave the store and the swap alone.
LEMMA QuietInv ==
  ASSUME SeedInv, UNCHANGED <<pubVars, swapVars>>, client' \in Client,
         client'.pc = "bundle" => client'.man.version \in Time,
         client'.pc = "stage" => client'.whole,
         client'.pc = "stamp" => client.pc = "swap" /\ swap.pc = "returned" /\ client'.whole
                                 /\ client'.man = client.man,
         client'.pc # "swap"
  PROVE  SeedInv'
<1>1. StoreTypeOK' /\ Writing'
  BY DEF SeedInv, StoreTypeOK, Writing, pubVars, store
<1>2. SwapInv'
  BY SwapNextInv DEF SeedInv
<1>3. ClientTypeOK' /\ Installing'
  BY DEF SeedInv, ClientTypeOK, Installing, swapVars, Batch
<1> QED BY <1>1, <1>2, <1>3 DEF SeedInv

\* The records a client may become.
LEMMA ClientRecords ==
  ASSUME ClientTypeOK
  PROVE  /\ NoClient \in Client /\ NoClient.pc = "idle"
         /\ \A pc \in ClientStages : /\ [NoClient EXCEPT !.pc = pc] \in Client
                                     /\ [NoClient EXCEPT !.pc = pc].pc = pc
                                     /\ [client EXCEPT !.pc = pc] \in Client
                                     /\ [client EXCEPT !.pc = pc].pc = pc
                                     /\ [client EXCEPT !.pc = pc].whole = client.whole
                                     /\ [client EXCEPT !.pc = pc].man = client.man
<1>1. NoClient \in Client
  BY DEF NoClient, Client, ClientStages, Manifests, NoFile, Never
<1>2. \A c \in Client, pc \in ClientStages :
        /\ [c EXCEPT !.pc = pc] \in Client /\ [c EXCEPT !.pc = pc].pc = pc
        /\ [c EXCEPT !.pc = pc].whole = c.whole /\ [c EXCEPT !.pc = pc].man = c.man
  BY DEF Client
<1> QED BY <1>1, <1>2 DEF ClientTypeOK, NoClient

\* Up to the staging.
LEMMA DecidingInv ==
  ASSUME SeedInv,
         \/ \E seeding, refresh \in BOOLEAN : StartGather(seeding, refresh)
         \/ \E covers \in BOOLEAN : LoadIndex(covers)
         \/ LoadManifest \/ SeedFails \/ Stamp
  PROVE  SeedInv'
<1> USE DEF ClientStages
<1>1. UNCHANGED <<pubVars, swapVars>>
  BY DEF StartGather, LoadIndex, LoadManifest, SeedFails, Stamp
<1>2. /\ client' \in Client /\ client'.pc \in {"idle", "index", "manifest", "bundle", "gather"}
      /\ client'.pc = "bundle" => client'.man.version \in Time
  <2>1. CASE \E seeding, refresh \in BOOLEAN : StartGather(seeding, refresh)
    <3>1. PICK seeding \in BOOLEAN, refresh \in BOOLEAN : StartGather(seeding, refresh)
      BY <2>1
    <3> DEFINE pc == IF seeding THEN "index" ELSE "gather"
    <3>2. client' = [[NoClient EXCEPT !.pc = pc] EXCEPT !.refresh = refresh]
      BY <3>1 DEF StartGather
    <3>3. [NoClient EXCEPT !.pc = pc] \in Client /\ [NoClient EXCEPT !.pc = pc].pc = pc
      BY ClientRecords DEF SeedInv
    <3> QED BY <3>2, <3>3 DEF Client
  <2>2. CASE \E covers \in BOOLEAN : LoadIndex(covers)
    <3>1. \/ client' = [client EXCEPT !.pc = "manifest"]
          \/ client' = [NoClient EXCEPT !.pc = "gather"]
      BY <2>2 DEF LoadIndex, GoOn
    <3>2. /\ [client EXCEPT !.pc = "manifest"] \in Client
          /\ [client EXCEPT !.pc = "manifest"].pc = "manifest"
      BY ClientRecords DEF SeedInv
    <3>3. /\ [NoClient EXCEPT !.pc = "gather"] \in Client
          /\ [NoClient EXCEPT !.pc = "gather"].pc = "gather"
      BY ClientRecords DEF SeedInv
    <3> QED BY <3>1, <3>2, <3>3
  <2>3. CASE LoadManifest
    <3>1. CASE client' = [NoClient EXCEPT !.pc = "gather"]
      BY <3>1, ClientRecords DEF SeedInv
    <3>2. CASE client' = [client EXCEPT !.pc = "bundle", !.man = manifest[Local]]
      <4>1. manifest[Local] \in Manifests
        BY SeedConstants DEF SeedInv, StoreTypeOK
      <4>2. manifest[Local].version \in Time
        BY <2>3, <3>2, SeedConstants DEF LoadManifest, ClientAt, GoOn, NoClient, SeedInv, Writing,
           ClientTypeOK, Client
      <4> QED BY <3>2, <4>1, <4>2 DEF SeedInv, ClientTypeOK, Client
    <3> QED BY <2>3, <3>1, <3>2 DEF LoadManifest, GoOn
  <2>4. CASE SeedFails \/ Stamp
    BY <2>4, ClientRecords DEF SeedFails, Stamp, GoOn, SeedInv
  <2> QED BY <2>1, <2>2, <2>3, <2>4
<1> QED BY <1>1, <1>2, QuietInv

\* The download, and the comparison of its digest.
LEMMA FetchingInv ==
  ASSUME SeedInv, (\E whole \in BOOLEAN : Download(whole)) \/ Verify
  PROVE  SeedInv'
<1>1. UNCHANGED <<pubVars, swapVars>>
  BY DEF Download, Verify
<1>2. CASE \E whole \in BOOLEAN : Download(whole)
  <2>1. PICK whole \in BOOLEAN : Download(whole)
    BY <1>2
  <2>2. CASE client' = [NoClient EXCEPT !.pc = "gather"]
    BY <1>1, <2>2, ClientRecords, QuietInv DEF SeedInv, ClientStages
  <2>3. CASE bundles[Local][client.man.version] # Never
    <3>1. client.man.version \in Time /\ Local \in Corpus
      BY <2>1, SeedConstants DEF Download, ClientAt, SeedInv, Installing
    <3>2. bundles[Local][client.man.version] \in Build
      BY <2>3, <3>1 DEF SeedInv, StoreTypeOK
    <3>3. client' \in Client /\ client'.pc = "verify"
      BY <2>1, <2>3, <3>2 DEF Download, SeedInv, ClientTypeOK, Client, ClientStages
    <3> QED BY <1>1, <3>3, QuietInv
  <2> QED BY <2>1, <2>2, <2>3 DEF Download, GoOn
<1>3. CASE Verify
  <2>1. CASE client' = [NoClient EXCEPT !.pc = "gather"]
    BY <1>1, <2>1, ClientRecords, QuietInv DEF SeedInv, ClientStages
  <2>2. CASE client.whole /\ client' = [client EXCEPT !.pc = "stage"]
    BY <1>1, <2>2, ClientRecords, QuietInv DEF SeedInv, ClientStages
  <2> QED BY <1>3, <2>1, <2>2 DEF Verify, GoOn
<1> QED BY <1>2, <1>3

\* The swap begins, with the whole tree of the client's manifest for every place.
LEMMA StagingInv ==
  ASSUME SeedInv, NEW first \in Dest, StageTree(first)
  PROVE  SeedInv'
<1>1. UNCHANGED pubVars /\ Begin(first, [d \in Dest |-> Unpacked])
  BY DEF StageTree
<1>2. client' = [client EXCEPT !.pc = "swap"] /\ client.whole
  BY DEF StageTree, ClientAt, SeedInv, Installing
<1>3. /\ client' \in Client /\ client'.pc = "swap" /\ client'.whole
      /\ client'.man = client.man
  BY <1>2, ClientRecords DEF SeedInv, ClientStages
<1>4. \A d \in Dest : d \in first..N => target'[d] = client.man.version
  BY <1>1, <1>2 DEF Begin, Unpacked
<1>5. Batch' = first..N /\ first..N \subseteq Dest
  BY <1>1, SeedConstants DEF Begin, Batch, Dest
<1>6. SwapInv'
  BY <1>1, UnpackedTree, BeginInv DEF SeedInv
<1>7. StoreTypeOK' /\ Writing'
  BY <1>1 DEF SeedInv, StoreTypeOK, Writing, pubVars, store
<1>8. ClientTypeOK' /\ Installing'
  BY <1>3, <1>4, <1>5 DEF ClientTypeOK, Installing
<1> QED BY <1>6, <1>7, <1>8 DEF SeedInv

\* A step of the swap.
LEMMA SwapStepInv == SeedInv /\ Swap => SeedInv'
<1> SUFFICES ASSUME SeedInv, Swap PROVE SeedInv'
  OBVIOUS
<1>1. UNCHANGED <<pubVars, client>> /\ SwapStep /\ client.pc = "swap"
  BY DEF Swap, ClientAt
<1>2. UNCHANGED target /\ swap'.first = swap.first
  BY <1>1 DEF SwapStep, MoveAside, MoveIn, MoveInFails, Restore, Land, UndoFresh, UndoAside,
     UndoIn, PutBack, Raise, Unwind, SeedInv, SwapInv, SwapTypeOK, SwapCall
<1>3. SwapInv'
  BY <1>1, SwapNextInv DEF SwapNext, SeedInv
<1>4. StoreTypeOK' /\ Writing' /\ ClientTypeOK' /\ Installing'
  BY <1>1, <1>2 DEF SeedInv, StoreTypeOK, Writing, ClientTypeOK, Installing, pubVars, store, Batch
<1> QED BY <1>3, <1>4 DEF SeedInv

\* The swap is over.
LEMMA InstalledInv == SeedInv /\ Installed => SeedInv'
<1> SUFFICES ASSUME SeedInv, Installed PROVE SeedInv'
  OBVIOUS
<1>1. UNCHANGED <<pubVars, swapVars>> /\ client.pc = "swap"
  BY DEF Installed, ClientAt
<1>2. CASE swap.pc = "returned" /\ client' = [client EXCEPT !.pc = "stamp"]
  <2>1. /\ client' \in Client /\ client'.pc = "stamp" /\ client'.whole = client.whole
        /\ client'.man = client.man
    BY <1>2, ClientRecords DEF SeedInv, ClientStages
  <2> QED BY <1>1, <1>2, <2>1, QuietInv DEF SeedInv, Installing
<1>3. CASE client' = [NoClient EXCEPT !.pc = "gather"]
  BY <1>1, <1>3, ClientRecords, QuietInv DEF SeedInv, ClientStages
<1> QED BY <1>2, <1>3 DEF Installed, Swapping, GoOn

\* The stages, the record and the death of a gather end its install.
LEMMA GatheringInv == SeedInv /\ (Gather \/ Record \/ ClientDies) => SeedInv'
<1> SUFFICES ASSUME SeedInv, Gather \/ Record \/ ClientDies PROVE SeedInv'
  OBVIOUS
<1>1. UNCHANGED <<gathered, members, store, pub, runs, built, torn>>
  BY DEF Gather, Record, ClientDies, pubVars
<1>2. clock' \in 0..MaxTime
  BY SeedConstants DEF Gather, Record, ClientDies, pubVars, SeedInv, StoreTypeOK
<1>3. client' = NoClient \/ client' = [client EXCEPT !.pc = "record"]
  BY DEF Gather, Record, ClientDies
<1>4. client' \in Client /\ client'.pc \in {"idle", "record"}
  <2>1. [client EXCEPT !.pc = "record"] \in Client /\ [client EXCEPT !.pc = "record"].pc = "record"
    BY ClientRecords DEF SeedInv, ClientStages
  <2> QED BY <1>3, <2>1, ClientRecords DEF SeedInv
<1>5. StoreTypeOK' /\ Writing'
  BY <1>1, <1>2 DEF SeedInv, StoreTypeOK, Writing, store
<1>6. [SwapNext]_swapVars
  BY SwapRefined DEF SeedNext, Seeding
<1>7. SwapInv' /\ ClientTypeOK' /\ Installing'
  BY <1>4, <1>6, SwapNextInv DEF SeedInv, ClientTypeOK, Installing
<1> QED BY <1>5, <1>7 DEF SeedInv

\* Every step keeps the invariant.
LEMMA SeedNextInv == SeedInv /\ [SeedNext]_seedVars => SeedInv'
<1> SUFFICES ASSUME SeedInv, [SeedNext]_seedVars PROVE SeedInv'
  OBVIOUS
<1>1. CASE Publishing
  BY <1>1, PublishingInv
<1>2. CASE Seeding
  BY <1>2, DecidingInv, FetchingInv, StagingInv, SwapStepInv, InstalledInv, GatheringInv DEF Seeding
<1>3. CASE UNCHANGED seedVars
  <2>1. SwapInv'
    BY <1>3, SwapNextInv DEF SeedInv, seedVars
  <2> QED BY <1>3, <2>1 DEF SeedInv, StoreTypeOK, ClientTypeOK, Writing, Installing, seedVars,
          pubVars, store, swapVars, Batch
<1> QED BY <1>1, <1>2, <1>3 DEF SeedNext

-----------------------------------------------------------------------------
(* What the index lists.                                                   *)

\* What the publisher's record holds.
LEMMA PublisherFields ==
  ASSUME SeedInv
  PROVE  /\ pub.cur \in Corpus /\ pub.todo \subseteq Corpus /\ pub.pc \in PubStages
         /\ pub.entries \in [Corpus -> Time \cup {Never}] /\ pub.compat \in BOOLEAN
         /\ pub = [pc |-> pub.pc, todo |-> pub.todo, cur |-> pub.cur, force |-> pub.force,
                   prune |-> pub.prune, compat |-> pub.compat, entries |-> pub.entries]
BY DEF SeedInv, StoreTypeOK, Publisher

\* The records the publisher may become.
LEMMA PublisherSteps ==
  ASSUME SeedInv
  PROVE  /\ NoRun.pc = "idle" /\ NoRun.todo = {}
         /\ NextMember.pc = "next" /\ NextMember.todo \subseteq pub.todo
         /\ NextMember.entries = pub.entries /\ NextMember.compat = pub.compat
         /\ \A pc \in PubStages : LET p == [pub EXCEPT !.pc = pc] IN
              p.pc = pc /\ p.todo = pub.todo /\ p.cur = pub.cur /\ p.entries = pub.entries
              /\ p.compat = pub.compat
BY PublisherFields DEF NoRun, NextMember

\* A publisher that goes on with the same entries, over the same store.
LEMMA KeepsEntries ==
  ASSUME SeedInv, ListedInv, UNCHANGED <<members, store, torn>>, ~PubAt("idle"),
         pub'.pc \in {"next", "choose", "prune", "index"},
         pub.pc \in {"next", "choose", "prune", "index"},
         pub'.pc = "choose" => pub'.cur \in members,
         pub'.todo \subseteq pub.todo, pub'.entries = pub.entries,
         pub.compat => pub'.compat
  PROVE  ListedInv'
BY DEF ListedInv, EntriesInv, IndexInstallable, PubAt, Rewriting, Installable, store

\* A run begins.
LEMMA StartRunListed ==
  ASSUME SeedInv, ListedInv, NEW now \in SUBSET Corpus, NEW targets \in SUBSET Corpus,
         NEW force \in BOOLEAN, NEW prune \in BOOLEAN, StartRun(now, targets, force, prune)
  PROVE  ListedInv'
<1>1. UNCHANGED <<store, torn>> /\ PubAt("idle") /\ members' = now /\ targets \subseteq now
  BY DEF StartRun
<1>2. /\ pub'.pc = "next" /\ pub'.todo = targets /\ pub'.compat = listed
      /\ pub'.entries = [c \in Corpus |-> IF c \in now THEN index[c] ELSE Never]
  BY DEF StartRun, CarriedForward
<1>3. \A c \in Corpus : pub'.entries[c] # Never =>
        c \in now /\ (c \in torn \/ Installable(c))
  BY <1>1, <1>2 DEF ListedInv, IndexInstallable
<1> QED BY <1>1, <1>2, <1>3 DEF ListedInv, EntriesInv, IndexInstallable, PubAt, Rewriting, Installable,
       store

\* The steps between members.
LEMMA BetweenListed ==
  ASSUME SeedInv, ListedInv,
         \/ \E c \in Corpus, fresh \in BOOLEAN : Take(c, fresh)
         \/ Skip \/ UpToDate \/ MembersDone
  PROVE  ListedInv'
<1>1. UNCHANGED <<members, store, torn>>
  BY DEF Take, Skip, UpToDate, MembersDone
<1>2. CASE \E c \in Corpus, fresh \in BOOLEAN : Take(c, fresh)
  <2>1. PICK c \in Corpus : /\ pub.pc = "next" /\ c \in pub.todo
                            /\ pub' = [pub EXCEPT !.pc = "choose", !.cur = c]
    BY <1>2 DEF Take, PubAt
  <2>2. /\ pub'.pc = "choose" /\ pub'.cur = c /\ pub'.todo = pub.todo
        /\ pub'.entries = pub.entries /\ pub'.compat = pub.compat
    BY <2>1, PublisherFields
  <2>3. c \in members
    BY <2>1 DEF ListedInv, EntriesInv
  <2> QED BY <1>1, <2>1, <2>2, <2>3, KeepsEntries DEF PubAt
<1>3. CASE Skip
  <2>1. /\ pub.pc \in {"choose", "next"} /\ pub'.pc = "next" /\ pub'.todo \subseteq pub.todo
        /\ pub'.entries = pub.entries /\ pub'.compat = pub.compat
    <3>1. CASE pub.pc = "choose" /\ pub' = NextMember
      BY <3>1, PublisherSteps
    <3>2. ASSUME NEW c \in pub.todo, pub.pc = "next", pub' = [pub EXCEPT !.todo = @ \ {c}]
          PROVE  /\ pub'.pc = "next" /\ pub'.todo \subseteq pub.todo
                 /\ pub'.entries = pub.entries /\ pub'.compat = pub.compat
      BY <3>2, PublisherFields
    <3> QED BY <1>3, <3>1, <3>2 DEF Skip, PubAt
  <2> QED BY <1>1, <2>1, KeepsEntries DEF PubAt
<1>4. CASE UpToDate
  <2>1. /\ pub.pc = "choose" /\ pub'.pc = "next" /\ pub'.todo \subseteq pub.todo
        /\ pub'.entries = pub.entries /\ pub'.compat = TRUE
    BY <1>4, PublisherFields DEF UpToDate, PubAt, NextMember
  <2> QED BY <1>1, <2>1, KeepsEntries DEF PubAt
<1>5. CASE MembersDone
  <2>1. pub.pc = "next" /\ \E pc \in {"prune", "index"} : pub' = [pub EXCEPT !.pc = pc]
    BY <1>5 DEF MembersDone, PubAt
  <2>2. /\ pub'.pc \in {"prune", "index"} /\ pub'.todo \subseteq pub.todo
        /\ pub'.entries = pub.entries /\ pub'.compat = pub.compat
    BY <2>1, PublisherSteps DEF PubStages
  <2> QED BY <1>1, <2>1, <2>2, KeepsEntries DEF PubAt
<1> QED BY <1>2, <1>3, <1>4, <1>5

\* A member's bundle and manifest are written: nobody else's are.
LEMMA RewritingListed ==
  ASSUME SeedInv, ListedInv, DropOldBundles \/ WriteBundle \/ WriteManifest
  PROVE  ListedInv'
<1>0. PICK k \in Corpus : k = pub.cur
  BY PublisherFields
<1>1. /\ UNCHANGED <<members, index, listed>> /\ k \in Corpus /\ k \in members
      /\ pub.pc \in {"choose", "bundle", "manifest"} /\ gathered[k] \in Time
  BY <1>0, PublisherFields DEF DropOldBundles, WriteBundle, WriteManifest, PubAt, ListedInv, EntriesInv,
     SeedInv, StoreTypeOK, Writing
<1>2. \A c \in Corpus \ {k} : bundles'[c] = bundles[c] /\ manifest'[c] = manifest[c]
  BY <1>0, <1>1 DEF DropOldBundles, WriteBundle, WriteManifest, SeedInv, StoreTypeOK
<1>3. \A c \in Corpus \ {k} : Installable(c)' = Installable(c)
  BY <1>0, <1>2 DEF Installable
<1>4. CASE DropOldBundles \/ WriteBundle
  <2>1. /\ pub'.pc \in {"bundle", "manifest"} /\ pub'.cur = k /\ pub'.todo = pub.todo
        /\ pub'.entries = pub.entries /\ pub'.compat = pub.compat /\ torn' = torn
    <3>1. \E pc \in {"bundle", "manifest"} : pub' = [pub EXCEPT !.pc = pc] /\ torn' = torn
      BY <1>0, <1>4 DEF DropOldBundles, WriteBundle
    <3> QED BY <1>0, <3>1, PublisherFields
  <2>2. ASSUME NEW c \in Corpus, pub'.entries[c] # Never
        PROVE  c \in members' /\ (c \in torn' \/ Rewriting(c)' \/ Installable(c)')
    BY <1>0, <1>1, <1>3, <2>1, <2>2 DEF ListedInv, EntriesInv, PubAt, Rewriting
  <2> QED BY <1>0, <1>1, <2>1, <2>2 DEF ListedInv, EntriesInv, IndexInstallable, PubAt
<1>5. CASE WriteManifest
  <2> DEFINE t == gathered[k]
  <2>1. /\ pub'.pc = "next" /\ pub'.todo \subseteq pub.todo /\ pub'.compat = TRUE
        /\ pub'.entries = [pub.entries EXCEPT ![k] = t]
        /\ torn' = torn \ {k} /\ bundles' = bundles
        /\ manifest' = [manifest EXCEPT ![k] = [version |-> t, build |-> bundles[k][t]]]
    BY <1>0, <1>5, PublisherFields DEF WriteManifest, NextMember
  <2>2. Installable(k)'
    <3>1. manifest'[k] = [version |-> t, build |-> bundles[k][t]]
      BY <1>0, <1>1, <2>1 DEF SeedInv, StoreTypeOK
    <3>2. manifest'[k].version = t /\ manifest'[k].build = bundles'[k][t] /\ t # Never
      BY <1>0, <1>1, <2>1, <3>1, SeedConstants DEF Time, Never
    <3>3. manifest'[k] # NoFile
      BY <3>2 DEF NoFile
    <3>4. bundles'[k][manifest'[k].version] = manifest'[k].build
      BY <3>2
    <3> QED BY <3>3, <3>4 DEF Installable
  <2>3. ASSUME NEW c \in Corpus, pub'.entries[c] # Never
        PROVE  c \in members' /\ (c \in torn' \/ Rewriting(c)' \/ Installable(c)')
    <3>1. CASE c = k
      BY <1>0, <1>1, <2>2, <3>1 DEF Installable
    <3>2. CASE c # k
      <4>1. pub.entries[c] # Never
        BY <1>0, <2>1, <2>3, <3>2, PublisherFields
      <4> QED BY <1>0, <1>1, <1>3, <2>1, <3>2, <4>1 DEF ListedInv, EntriesInv, PubAt, Rewriting
    <3> QED BY <3>1, <3>2
  <2> QED BY <1>0, <1>1, <2>1, <2>3 DEF ListedInv, EntriesInv, IndexInstallable, PubAt
<1> QED BY <1>4, <1>5

\* The prune takes no member's directory.
LEMMA PruneListed == SeedInv /\ ListedInv /\ Prune => ListedInv'
<1> SUFFICES ASSUME SeedInv, ListedInv, Prune PROVE ListedInv'
  OBVIOUS
<1>1. pub.pc = "prune" /\ UNCHANGED <<members, index, listed, torn>>
  BY DEF Prune, PubAt
<1>2. CASE Doomed = {} /\ pub' = [pub EXCEPT !.pc = "index"] /\ UNCHANGED <<manifest, bundles>>
  <2>1. /\ pub'.pc = "index" /\ pub'.todo = pub.todo /\ pub'.entries = pub.entries
        /\ pub'.compat = pub.compat
    BY <1>2, PublisherSteps DEF PubStages
  <2> QED BY <1>1, <1>2, <2>1, KeepsEntries DEF PubAt, store
<1>3. CASE \E c \in Doomed : /\ manifest' = [manifest EXCEPT ![c] = NoFile]
                             /\ bundles' = [bundles EXCEPT ![c] = [t \in Time |-> Never]]
                             /\ UNCHANGED pub
  <2>1. PICK k \in Doomed : /\ manifest' = [manifest EXCEPT ![k] = NoFile]
                            /\ bundles' = [bundles EXCEPT ![k] = [t \in Time |-> Never]]
                            /\ UNCHANGED pub
    BY <1>3
  <2>2. k \in Corpus /\ k \notin members
    BY <2>1 DEF Doomed
  <2>3. \A c \in members : manifest'[c] = manifest[c] /\ bundles'[c] = bundles[c]
    BY <2>1, <2>2 DEF SeedInv, StoreTypeOK
  <2>4. \A c \in members : Installable(c)' = Installable(c)
    BY <2>3 DEF Installable
  <2>5. ASSUME NEW c \in Corpus, pub'.entries[c] # Never
        PROVE  c \in members' /\ (c \in torn' \/ Rewriting(c)' \/ Installable(c)')
    BY <1>1, <2>1, <2>4, <2>5 DEF ListedInv, EntriesInv, PubAt, Rewriting
  <2> QED BY <1>1, <2>1, <2>5 DEF ListedInv, EntriesInv, IndexInstallable, PubAt
<1> QED BY <1>2, <1>3 DEF Prune

\* A run ends, and writes the index if it knows what it is compatible with; or dies.
LEMMA RunEndsListed ==
  ASSUME SeedInv, ListedInv, WriteIndex \/ PublisherDies
  PROVE  ListedInv'
<1>1. pub' = NoRun /\ pub'.pc = "idle" /\ pub'.todo = {} /\ UNCHANGED <<members, manifest, bundles>>
  BY PublisherSteps DEF WriteIndex, PublisherDies, store
<1>2. \A c \in Corpus : Installable(c)' = Installable(c)
  BY <1>1 DEF Installable
<1>3. CASE WriteIndex
  <2>1. pub.pc = "index" /\ torn' = torn
    BY <1>3 DEF WriteIndex, PubAt
  <2>2. CASE pub.compat
    <3>1. index' = pub.entries /\ listed' = TRUE
      BY <1>3, <2>2 DEF WriteIndex
    <3>2. \A c \in Corpus \ torn : pub.entries[c] # Never => Installable(c)
      BY <2>1 DEF ListedInv, EntriesInv, PubAt, Rewriting
    <3> QED BY <1>1, <1>2, <2>1, <3>1, <3>2 DEF ListedInv, EntriesInv, IndexInstallable, PubAt
  <2>3. CASE ~pub.compat
    <3>1. UNCHANGED <<index, listed>>
      BY <1>3, <2>3 DEF WriteIndex
    <3>2. index = NoEntries
      BY <2>1, <2>3 DEF ListedInv, EntriesInv, PubAt
    <3>3. \A c \in Corpus : index'[c] = Never
      BY <3>1, <3>2 DEF NoEntries
    <3> QED BY <1>1, <3>1, <3>3 DEF ListedInv, EntriesInv, IndexInstallable, PubAt
  <2> QED BY <2>2, <2>3 DEF SeedInv, StoreTypeOK, Publisher
<1>4. CASE PublisherDies
  <2>1. UNCHANGED <<index, listed>> /\ torn' = torn \cup {c \in Corpus : index[c] # Never /\ ~Installable(c)}
    BY <1>4 DEF PublisherDies, store
  <2> QED BY <1>1, <1>2, <2>1 DEF ListedInv, EntriesInv, IndexInstallable, PubAt
<1> QED BY <1>3, <1>4

LEMMA ListedNextInv == SeedInv /\ ListedInv /\ [SeedNext]_seedVars => ListedInv'
<1> SUFFICES ASSUME SeedInv, ListedInv, [SeedNext]_seedVars PROVE ListedInv'
  OBVIOUS
<1>1. CASE Publishing
  BY <1>1, StartRunListed, BetweenListed, RewritingListed, PruneListed, RunEndsListed DEF Publishing
<1>2. CASE Seeding \/ UNCHANGED seedVars
  <2>1. UNCHANGED <<members, store, pub, torn>>
    BY <1>2 DEF Seeding, StartGather, LoadIndex, LoadManifest, Download, Verify, StageTree, SeedFails,
       Swap, Installed, Stamp, Gather, Record, ClientDies, seedVars, pubVars
  <2> QED BY <2>1 DEF ListedInv, EntriesInv, IndexInstallable, PubAt, Rewriting, Installable, store
<1> QED BY <1>1, <1>2 DEF SeedNext

-----------------------------------------------------------------------------
(* The order of the two directories.                                       *)

\* What the order rests on, wherever the call is.
LEMMA OrderKept == SwapInv /\ OrderInv => IndexFirst
<1> SUFFICES ASSUME SwapInv, OrderInv, swap.pc # "idle", swap.first = 1,
                    live[2] = target[2], target[2] # before[2]
             PROVE  live[1] = target[1]
  BY DEF IndexFirst, IndexDir, Workspace
<1>1. N = 2 /\ Batch = {1, 2} /\ Absent \notin Tree /\ target[2] \in Tree
  BY SeedConstants, SwapAssumption DEF OrderInv, Batch, Workspace
<1>2. swap.pc \in Forward => swap.at = 2
  BY <1>1 DEF SwapInv, Place, Ahead, Untouched, Forward
<1>3. swap.pc \notin Backward \cup {"raised"}
  BY <1>1 DEF OrderInv, IndexDir, Workspace
<1>4. CASE swap.pc \in Forward
  BY <1>1, <1>2, <1>4 DEF SwapInv, Passed, Done
<1>5. CASE swap.pc \in {"landed", "returned"}
  BY <1>1, <1>5 DEF SwapInv, Passed, Over, Done
<1>6. CASE swap.pc = "dead"
  BY <1>6 DEF OrderInv, IndexFirst, IndexDir, Workspace
<1> QED BY <1>3, <1>4, <1>5, <1>6 DEF SwapInv, SwapTypeOK, SwapCall, Busy, Ended, Forward, Backward

\* A call that gives up on a destination has no new workspace in place.
LEMMA GivesUp ==
  ASSUME SwapInv, OrderInv, NEW d \in Dest, NEW lost \in SUBSET Dest, Unwind(d, lost),
         UNCHANGED <<before, target>>, swap.pc # "idle",
         swap.first = 1 => live'[2] \in {Absent, before[2]}
  PROVE  OrderInv'
<1>1. Moves("undo", d - 1, swap.failed \cup lost)
  BY UnwindMoves DEF SwapInv, SwapTypeOK
<1> QED BY <1>1 DEF OrderInv, Moves, IndexDir, Workspace

LEMMA OrderStep ==
  ASSUME SwapInv, OrderInv, SwapStep
  PROVE  OrderInv'
<1> USE DEF Workspace, IndexDir
<1>1. N = 2 /\ Dest = {1, 2} /\ Absent \notin Tree /\ swap \in SwapCall /\ swap.first \in Dest
  BY SeedConstants, SwapAssumption DEF SwapInv, SwapTypeOK, SwapCall
<1>2. UNCHANGED <<before, target>>
  BY DEF SwapStep, MoveAside, MoveIn, MoveInFails, Restore, Land, UndoFresh, UndoAside, UndoIn,
     PutBack, Raise
<1>3. CASE \/ \E pc \in {"in", "restore", "landed", "returned"} : swap' = [swap EXCEPT !.pc = pc]
           \/ swap' = [swap EXCEPT !.pc = "aside", !.at = swap.at + 1]
  <2>1. swap'.pc \in {"in", "restore", "landed", "returned", "aside"} /\ swap.pc # "idle"
    BY <1>1, <1>3 DEF SwapCall, SwapStep, MoveAside, MoveIn, MoveInFails, Restore, Land, UndoFresh,
       UndoAside, UndoIn, PutBack, Raise, Undoing, Swapping
  <2> QED BY <1>2, <2>1 DEF OrderInv, Backward
<1>4. ASSUME NEW d \in Dest, NEW lost \in SUBSET Dest, Unwind(d, lost), d = swap.at,
             \/ (MoveAside \/ UndoAside) /\ UNCHANGED live
             \/ MoveInFails \/ Restore \/ UndoFresh \/ UndoIn \/ PutBack
      PROVE  OrderInv'
  <2>1. swap.pc # "idle"
    BY <1>4 DEF MoveAside, MoveInFails, Restore, UndoFresh, UndoAside, UndoIn, PutBack, Undoing,
       Swapping
  <2>2. ASSUME swap.first = 1
        PROVE  live'[2] \in {Absent, before[2]}
    <3>1. Batch = {1, 2} /\ live \in [Dest -> Content]
      BY <1>1, <2>2 DEF Batch, SwapInv, SwapTypeOK
    <3>2. CASE MoveAside /\ UNCHANGED live
      BY <1>1, <1>4, <3>1, <3>2 DEF MoveAside, Swapping, SwapInv, Current, Ahead, Untouched, Forward
    <3>3. CASE MoveInFails
      BY <1>1, <1>4, <3>1, <3>3 DEF MoveInFails, Swapping, SwapInv, Current, Ahead, Untouched, Open, Forward
    <3>4. CASE Restore
      BY <1>1, <1>4, <3>1, <3>4 DEF Restore, Swapping, SwapInv, Current, Ahead, Untouched, Open, Forward
    <3>5. CASE UndoFresh \/ (UndoAside /\ UNCHANGED live)
      <4>1. swap.pc = "undo" /\ d = 1
        BY <1>1, <1>4, <3>1, <3>5 DEF UndoFresh, UndoAside, Undoing, Swapping, SwapInv, Place
      <4>2. live'[2] = live[2]
        BY <1>1, <1>4, <3>1, <3>5, <4>1 DEF UndoFresh
      <4> QED BY <2>2, <4>1, <4>2 DEF OrderInv, Backward
    <3>6. CASE UndoIn \/ PutBack
      <4>1. swap.pc \in {"undoin", "putback"} /\ d = 1
        BY <1>1, <1>4, <3>6 DEF UndoIn, PutBack, Swapping, OrderInv
      <4>2. \/ live' = live
            \/ \E tree : live' = [live EXCEPT ![1] = tree]
        BY <1>4, <3>6, <4>1 DEF UndoIn, PutBack
      <4>3. live'[2] = live[2]
        BY <1>1, <3>1, <4>2
      <4>4. live[2] \in {Absent, before[2]}
        BY <2>2, <4>1 DEF OrderInv, Backward
      <4> QED BY <4>3, <4>4
    <3> QED BY <1>4, <3>2, <3>3, <3>4, <3>5, <3>6
  <2> QED BY <1>2, <1>4, <2>1, <2>2, GivesUp
<1>5. CASE UndoAside /\ swap' = [swap EXCEPT !.pc = "undoin"]
  <2>1. swap'.pc = "undoin" /\ swap'.at = swap.at /\ swap'.first = swap.first /\ swap.pc = "undo"
    BY <1>1, <1>5 DEF SwapCall, UndoAside, Undoing, Swapping
  <2>2. swap.at < 2 /\ swap.at >= swap.first
    BY <1>1, <1>5, <2>1 DEF UndoAside, Undoing, SwapInv, Place, Batch, SwapTypeOK, SwapCall
  <2>3. swap.first = 1 => live'[2] = live[2]
    BY <1>1, <1>5, <2>2 DEF UndoAside, Unwind, SwapInv, SwapTypeOK, SwapCall
  <2> QED BY <1>2, <2>1, <2>2, <2>3 DEF OrderInv, Backward
<1>6. CASE UndoIn /\ swap' = [swap EXCEPT !.pc = "putback"] /\ UNCHANGED live
  <2>1. swap'.pc = "putback" /\ swap'.at = swap.at /\ swap'.first = swap.first /\ swap.pc = "undoin"
    BY <1>1, <1>6 DEF SwapCall, UndoIn, Swapping
  <2> QED BY <1>2, <1>6, <2>1 DEF OrderInv, Backward
<1>7. CASE Raise
  <2>1. swap'.pc = "raised" /\ swap'.first = swap.first /\ swap.pc = "undo" /\ live' = live
    BY <1>1, <1>7 DEF SwapCall, Raise, Swapping
  <2> QED BY <1>2, <2>1 DEF OrderInv, Backward
<1> QED
  <2>1. CASE MoveAside
    <3>1. swap.at \in Dest
      BY <1>1, <2>1 DEF MoveAside, Swapping, SwapInv, Place, Forward, Batch, SwapTypeOK, SwapCall, Dest
    <3> QED BY <1>3, <1>4, <2>1, <3>1 DEF MoveAside
  <2>2. CASE MoveIn \/ Land
    BY <1>3, <2>2 DEF MoveIn, Land
  <2>3. CASE MoveInFails \/ Restore
    <3>1. swap.at \in Dest
      BY <1>1, <2>3 DEF MoveInFails, Restore, Swapping, SwapInv, Place, Forward, Batch, SwapTypeOK,
         SwapCall, Dest
    <3> QED BY <1>3, <1>4, <2>3, <3>1 DEF MoveInFails, Restore
  <2>4. CASE UndoFresh \/ UndoAside
    <3>1. swap.at \in Dest
      BY <1>1, <2>4 DEF UndoFresh, UndoAside, Undoing, SwapInv, SwapTypeOK, SwapCall
    <3> QED BY <1>4, <1>5, <2>4, <3>1 DEF UndoFresh, UndoAside
  <2>5. CASE UndoIn \/ PutBack
    <3>1. swap.at \in Dest
      BY <1>1, <2>5 DEF UndoIn, PutBack, Swapping, SwapInv, Place, Forward, Batch, SwapTypeOK,
         SwapCall, Dest
    <3> QED BY <1>4, <1>6, <2>5, <3>1 DEF UndoIn, PutBack
  <2> QED BY <1>7, <2>1, <2>2, <2>3, <2>4, <2>5 DEF SwapStep

LEMMA OrderNextInv == SwapInv /\ OrderInv /\ [SwapNext]_swapVars => OrderInv'
<1> SUFFICES ASSUME SwapInv, OrderInv, [SwapNext]_swapVars PROVE OrderInv'
  OBVIOUS
<1>1. CASE SwapStep
  BY <1>1, OrderStep
<1>2. CASE SwapDies
  <2>1. swap'.pc = "dead" /\ swap'.first = swap.first /\ swap.pc # "idle"
    BY <1>2 DEF SwapDies, SwapInv, SwapTypeOK, SwapCall, Busy
  <2>2. IndexFirst' /\ target'[Workspace] \in Tree
    BY <1>2, <2>1, OrderKept DEF SwapDies, IndexFirst, OrderInv
  <2> QED BY <2>1, <2>2 DEF OrderInv, Backward
<1>3. CASE \E f \in Dest, trees \in [Dest -> Tree] : Begin(f, trees)
  <2>1. PICK f \in Dest, trees \in [Dest -> Tree] : Begin(f, trees)
    BY <1>3
  <2>2. swap'.pc = "aside" /\ target'[2] = trees[2] /\ trees[2] \in Tree
    BY <2>1, SeedConstants DEF Begin
  <2> QED BY <2>2 DEF OrderInv, Backward, Workspace
<1>4. CASE \E d \in Dest, tree \in Content : Rewrite(d, tree)
  BY <1>4 DEF Rewrite, NoCall, OrderInv, Backward
<1>5. CASE UNCHANGED swapVars
  BY <1>5 DEF swapVars, OrderInv, IndexFirst
<1> QED BY <1>1, <1>2, <1>3, <1>4, <1>5 DEF SwapNext

-----------------------------------------------------------------------------
(* The theorems.                                                           *)

\* The invariant of the store, the publisher, the client and its swap.
LEMMA SeedInvariant == SeedSpec => []SeedInv
<1>1. SeedInit => SeedInv
  BY SeedInitInv
<1>2. SeedInv /\ [SeedNext]_seedVars => SeedInv'
  BY SeedNextInv
<1> QED BY <1>1, <1>2, PTL DEF SeedSpec

\* The variables keep their types, for any corpora, times and bounds.
THEOREM SeedTypes == SeedSpec => []SeedTypeOK
<1>1. SeedInv => SeedTypeOK
  BY SwapInvImplies DEF SeedInv, SeedTypeOK, StoreTypeOK, ClientTypeOK
<1> QED BY <1>1, SeedInvariant, PTL

\* What the client does to its two directories is what SwapDirs specifies: each
\* step of the store, the publisher and the client is one of its steps or none.
THEOREM SeedSwaps == SeedSpec => SwapSpec
<1>1. SeedInit => SwapInit
  BY DEF SeedInit
<1>2. SeedInv /\ [SeedNext]_seedVars => [SwapNext]_swapVars
  BY SwapRefined
<1> QED BY <1>1, <1>2, SeedInvariant, PTL DEF SeedSpec, SwapSpec

\* An install lands whole or leaves both directories as they were but what its
\* exception names, and loses neither's old tree before it has landed, also when
\* the gather is killed.
THEOREM SeedInstallsSafely == SeedSpec => [](AllOrNothing /\ NothingLost)
BY SeedSwaps, SwapSafety, PTL

\* An install that succeeds has put the whole tree its manifest names in every
\* place, although the bundle was read later and may have been rebuilt or cut off.
THEOREM SeedInstalls == SeedSpec => []InstalledAsPublished
<1>1. SeedInv => InstalledAsPublished
  BY SwapInvImplies DEF SeedInv, Installing, InstalledAsPublished, ClientAt, AllOrNothing, Swapping
<1> QED BY <1>1, SeedInvariant, PTL

\* Between runs of the publisher, a client can install everything that the index lists
\* but what a run tore by dying: entries that are carried forward are of members, whose
\* bundles no prune takes, and a bundle's manifest is written before it is listed.
THEOREM ListedIsInstallable == SeedSpec => []IndexInstallable
<1>1. SeedInit => ListedInv
  BY DEF SeedInit, ListedInv, EntriesInv, IndexInstallable, NoRun, NoEntries, PubAt
<1>2. SeedInv /\ ListedInv /\ [SeedNext]_seedVars => ListedInv'
  BY ListedNextInv
<1>3. ListedInv => IndexInstallable
  BY DEF ListedInv
<1> QED BY <1>1, <1>2, <1>3, SeedInvariant, PTL DEF SeedSpec

\* A new workspace is never in place beside the old index, on the way forward, on the
\* way back, and after a death at any rename.
THEOREM IndexGoesFirst == SeedSpec => []IndexFirst
<1>1. SeedInit => OrderInv
  BY DEF SeedInit, SwapInit, NoCall, OrderInv, Backward
<1>2. SeedInv /\ OrderInv /\ [SeedNext]_seedVars => OrderInv'
  BY SwapRefined, OrderNextInv DEF SeedInv
<1>3. SeedInv /\ OrderInv => IndexFirst
  BY OrderKept DEF SeedInv
<1> QED BY <1>1, <1>2, <1>3, SeedInvariant, PTL DEF SeedSpec
================================================================================
