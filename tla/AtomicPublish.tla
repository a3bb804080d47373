---------------------------- MODULE AtomicPublish ----------------------------
(***************************************************************************)
(* What publishing promises the readers of one corpus (docs/storage.md,    *)
(* "Atomic publish" and "Fenced flip"): the corpus has one current         *)
(* version, whole; a publish replaces it by a version nobody has seen yet, *)
(* in one step; a version that is no longer current may lose parts at any  *)
(* time, and nothing else changes.  CloudPublish implements it, and the    *)
(* bucket that CloudRead reads is one that keeps it.                       *)
(***************************************************************************)
EXTENDS Integers

CONSTANTS Version, NoVersion, Part

VARIABLES
  current,    \* what a reader of the corpus finds, or NoVersion
  past,       \* the versions that were current before it
  kept        \* the parts there are of each of them

Init ==
  /\ current = NoVersion /\ past = {}
  /\ kept = [v \in Version |-> {}]

Publish(v) ==
  /\ v \notin past \cup {current}
  /\ current' = v
  /\ past' = past \cup ({current} \ {NoVersion})
  /\ kept' = [kept EXCEPT ![v] = Part]

Reap(v, gone) ==
  /\ v \in past
  /\ kept' = [kept EXCEPT ![v] = @ \ gone]
  /\ UNCHANGED <<current, past>>

Next == \E v \in Version : Publish(v) \/ \E gone \in SUBSET Part : Reap(v, gone)

Spec == Init /\ [][Next]_<<current, past, kept>>
==============================================================================
