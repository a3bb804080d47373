------------------------------- MODULE SwapDirs -------------------------------
(***************************************************************************)
(* Replacing several live directory trees as one unit: each tree is moved  *)
(* aside, the staged one is renamed into its place, and when a rename      *)
(* fails what was done is undone in reverse.                               *)
(*                                                                         *)
(* Source: ietf_llm/atomicio.py (swap_dir, swap_dirs).  Its callers        *)
(* (CloudCorpusStore.seed_workspace, seed.fetch._install_tree) stage every *)
(* new tree first, and swap the index before the workspace.                *)
(*                                                                         *)
(* One action is one rename or one rmtree.  Any of them may fail, and the  *)
(* process may die between any two.  One caller at a time swaps a given    *)
(* batch: nothing in the module excludes two.                              *)
(***************************************************************************)
EXTENDS Integers

CONSTANTS
  N,         \* the directories a batch may replace, in the order it swaps them
  Tree,      \* what a directory may hold
  Absent,    \* "there is no such directory"
  SwapFaults \* a subset of {"rename", "rmtree", "die"}

ASSUME SwapAssumption ==
  /\ N \in Nat \ {0}
  /\ Absent \notin Tree
  /\ SwapFaults \subseteq {"rename", "rmtree", "die"}

Dest    == 1..N
Content == Tree \cup {Absent}
Empty   == [d \in Dest |-> Absent]

VARIABLES
  live,   \* what each destination holds
  aside,  \* the tree that was moved out of its way, in a dot-prefixed sibling
  spare,  \* the new tree, moved out again while a swap is undone
  staged, \* the new tree of each destination, until it is in place
  swap,   \* the call's local variables, below
  before, \* history: live when the call began
  target  \* history: the trees it was given

swapVars == <<live, aside, spare, staged, swap, before, target>>

Busy  == {"aside", "in", "restore", "undo", "undoin", "putback", "landed"}
Ended == {"idle", "returned", "raised", "dead"}
SwapCall ==
  [pc     : Busy \cup Ended,
   first  : Dest,            \* the batch is first..N
   at     : 0..N,            \* the destination it deals with
   failed : SUBSET Dest]     \* the destinations the exception says are not restored

Batch == swap.first..N
Swapping(stage) == swap.pc = stage

NoCall == [pc |-> "idle", first |-> 1, at |-> 0, failed |-> {}]

SwapInit ==
  /\ live \in [Dest -> Content]
  /\ aside = Empty /\ spare = Empty /\ staged = Empty
  /\ swap = NoCall
  /\ before = live /\ target = Empty

-----------------------------------------------------------------------------
(* The way forward.                                                        *)

\* A batch of the destinations from f on, to be replaced by these trees.
Begin(f, trees) ==
  /\ swap.pc \in Ended
  /\ swap' = [pc |-> "aside", first |-> f, at |-> f, failed |-> {}]
  /\ staged' = [d \in Dest |-> IF d \in f..N THEN trees[d] ELSE Absent]
  /\ target' = staged' /\ before' = live
  /\ aside' = Empty /\ spare' = Empty
  /\ UNCHANGED live

\* swap_dirs gives up on destination d and unwinds those before it.
Unwind(d, lost) == swap' = [swap EXCEPT !.pc = "undo", !.at = d - 1, !.failed = @ \cup lost]

\* swap_dir's first rename, unless there is nothing to move.
MoveAside ==
  LET d == swap.at IN
  /\ Swapping("aside")
  /\ \/ /\ swap' = [swap EXCEPT !.pc = "in"]
        /\ aside' = [aside EXCEPT ![d] = live[d]]
        /\ live' = [live EXCEPT ![d] = Absent]
     \/ /\ "rename" \in SwapFaults /\ live[d] # Absent
        /\ Unwind(d, {})
        /\ UNCHANGED <<live, aside>>
  /\ UNCHANGED <<spare, staged, before, target>>

\* Its second rename.
MoveIn ==
  LET d == swap.at IN
  /\ Swapping("in")
  /\ live' = [live EXCEPT ![d] = staged[d]]
  /\ staged' = [staged EXCEPT ![d] = Absent]
  /\ swap' = IF d = N THEN [swap EXCEPT !.pc = "landed"]
                      ELSE [swap EXCEPT !.pc = "aside", !.at = d + 1]
  /\ UNCHANGED <<aside, spare, before, target>>

MoveInFails ==
  /\ Swapping("in") /\ "rename" \in SwapFaults
  /\ IF aside[swap.at] = Absent THEN Unwind(swap.at, {})
                                ELSE swap' = [swap EXCEPT !.pc = "restore"]
  /\ UNCHANGED <<live, aside, spare, staged, before, target>>

\* The tree set aside is renamed back; when that fails as well the error says so.
Restore ==
  LET d == swap.at IN
  /\ Swapping("restore")
  /\ \/ /\ live' = [live EXCEPT ![d] = aside[d]]
        /\ aside' = [aside EXCEPT ![d] = Absent]
        /\ Unwind(d, {})
     \/ /\ "rename" \in SwapFaults
        /\ Unwind(d, {d})
        /\ UNCHANGED <<live, aside>>
  /\ UNCHANGED <<spare, staged, before, target>>

\* Mutant of Land: the trees set aside are removed while one is still to be swapped.
LandEarly ==
  /\ swap.pc \in {"landed", "aside"}
  /\ swap' = IF Swapping("landed") THEN [swap EXCEPT !.pc = "returned"] ELSE swap
  /\ aside' = Empty
  /\ UNCHANGED <<live, spare, staged, before, target>>

\* Mutant of Land: a tree set aside that cannot be removed counts as a failed swap.
LandOrUnwind ==
  /\ Swapping("landed")
  /\ \/ swap' = [swap EXCEPT !.pc = "returned"] /\ aside' = Empty
     \/ Unwind(N + 1, {}) /\ UNCHANGED aside
  /\ UNCHANGED <<live, spare, staged, before, target>>

\* Every swap is done: what was set aside is removed (a leftover stays hidden).
Land ==
  /\ Swapping("landed")
  /\ swap' = [swap EXCEPT !.pc = "returned"]
  /\ aside' = Empty
  /\ UNCHANGED <<live, spare, staged, before, target>>

-----------------------------------------------------------------------------
(* The way back, from the last swap that was done to the first.            *)

Undoing == Swapping("undo") /\ swap.at >= swap.first

\* There was nothing before: the new tree is removed, or stays and is named.
UndoFresh ==
  LET d == swap.at IN
  /\ Undoing /\ aside[d] = Absent
  /\ \/ live' = [live EXCEPT ![d] = Absent] /\ Unwind(d, {})
     \/ "rmtree" \in SwapFaults /\ Unwind(d, {d}) /\ UNCHANGED live
  /\ UNCHANGED <<aside, spare, staged, before, target>>

\* swap_dir(dest, old): the new tree is moved out of the way ...
UndoAside ==
  LET d == swap.at IN
  /\ Undoing /\ aside[d] # Absent
  /\ \/ /\ swap' = [swap EXCEPT !.pc = "undoin"]
        /\ spare' = [spare EXCEPT ![d] = live[d]]
        /\ live' = [live EXCEPT ![d] = Absent]
     \/ "rename" \in SwapFaults /\ Unwind(d, {d}) /\ UNCHANGED <<live, spare>>
  /\ UNCHANGED <<aside, staged, before, target>>

\* ... and the old one renamed back ...
UndoIn ==
  LET d == swap.at IN
  /\ Swapping("undoin")
  /\ \/ /\ live' = [live EXCEPT ![d] = aside[d]]
        /\ aside' = [aside EXCEPT ![d] = Absent]
        /\ spare' = [spare EXCEPT ![d] = Absent]
        /\ Unwind(d, {})
     \/ /\ "rename" \in SwapFaults
        /\ swap' = [swap EXCEPT !.pc = "putback"]
        /\ UNCHANGED <<live, aside, spare>>
  /\ UNCHANGED <<staged, before, target>>

\* Mutant of PutBack: the exception does not name the destination.
PutBackSilently ==
  LET d == swap.at IN
  /\ Swapping("putback")
  /\ live' = [live EXCEPT ![d] = spare[d]]
  /\ spare' = [spare EXCEPT ![d] = Absent]
  /\ Unwind(d, {})
  /\ UNCHANGED <<aside, staged, before, target>>

\* ... or else the new one; either way the destination is named.
PutBack ==
  LET d == swap.at IN
  /\ Swapping("putback")
  /\ \/ /\ live' = [live EXCEPT ![d] = spare[d]]
        /\ spare' = [spare EXCEPT ![d] = Absent]
     \/ "rename" \in SwapFaults /\ UNCHANGED <<live, spare>>
  /\ Unwind(d, {d})
  /\ UNCHANGED <<aside, staged, before, target>>

\* The exception leaves swap_dirs, and the caller removes what it had staged.
Raise ==
  /\ Swapping("undo") /\ swap.at < swap.first
  /\ swap' = [swap EXCEPT !.pc = "raised"]
  /\ staged' = Empty
  /\ UNCHANGED <<live, aside, spare, before, target>>

-----------------------------------------------------------------------------
(* The process and the trees' owners.                                      *)

\* The process dies; the directories stay as they are.
SwapDies ==
  /\ "die" \in SwapFaults /\ swap.pc \in Busy
  /\ swap' = [swap EXCEPT !.pc = "dead"]
  /\ UNCHANGED <<live, aside, spare, staged, before, target>>

\* Between calls the owner of a tree writes it, or it is removed.  What a dead call
\* left beside it is nobody's any more.
Rewrite(d, tree) ==
  /\ swap.pc \in Ended
  /\ live' = [live EXCEPT ![d] = tree]
  /\ aside' = Empty /\ spare' = Empty /\ staged' = Empty
  /\ swap' = NoCall
  /\ before' = live' /\ target' = Empty

SwapStep ==
  \/ MoveAside \/ MoveIn \/ MoveInFails \/ Restore \/ Land
  \/ UndoFresh \/ UndoAside \/ UndoIn \/ PutBack \/ Raise

SwapNext ==
  \/ SwapStep \/ SwapDies
  \/ \E f \in Dest, trees \in [Dest -> Tree] : Begin(f, trees)
  \/ \E d \in Dest, tree \in Content : Rewrite(d, tree)

SwapSpec == SwapInit /\ [][SwapNext]_swapVars

-----------------------------------------------------------------------------
(* Properties.                                                             *)

\* Every variable stays within the values its comment gives.
SwapTypeOK ==
  /\ live \in [Dest -> Content] /\ aside \in [Dest -> Content]
  /\ spare \in [Dest -> Content] /\ staged \in [Dest -> Content]
  /\ before \in [Dest -> Content] /\ target \in [Dest -> Content]
  /\ swap \in SwapCall

\* swap_dirs lands the whole batch, or raises with every destination as it was
\* but those the exception names, whatever renames fail on the way and on the
\* way back ("the whole batch either lands or leaves every dest exactly as it
\* was before this call").
AllOrNothing ==
  /\ Swapping("returned") => \A d \in Batch : live[d] = target[d]
  /\ Swapping("raised") => \A d \in Batch \ swap.failed : live[d] = before[d]

\* What a destination held is there, or beside it, until the whole batch has
\* landed, also when the process dies in between ("never destroyed data, but
\* possibly absent rather than restored").
NothingLost ==
  swap.pc # "idle" =>
    \/ \A d \in Dest : before[d] \in {Absent, live[d], aside[d]}
    \/ \A d \in Batch : live[d] = target[d]
=============================================================================
