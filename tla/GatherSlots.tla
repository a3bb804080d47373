----------------------------- MODULE GatherSlots -----------------------------
(***************************************************************************)
(* What the fleet's gather slots promise ("At most                         *)
(* IETF_LLM_GATHER_MAX_INFLIGHT gathers run across the fleet",             *)
(* docs/storage.md): no more than Cap entries at a time; a holder comes in *)
(* by itself, over expired entries only, and a renewal or a release is of  *)
(* one entry and leaves the others alone.  FleetRecords implements it by   *)
(* compare-and-swap on one record; GatherRunner keeps it, with a slot that *)
(* is got or lost in one step.                                             *)
(***************************************************************************)
EXTENDS Integers, FiniteSets

CONSTANTS Holder, Cap

VARIABLES
  taken,    \* the holders that have an entry
  live      \* those whose entry has not expired

Init == taken = {} /\ live = {}

\* The expired entries are swept out.  An update may take longer than a slot lasts.
Acquire(h) ==
  LET kept == live \cup {h} IN
  /\ Cardinality(kept) <= Cap
  /\ taken' = kept
  /\ live' \in {kept, live \ {h}}

\* An entry that has expired but is still there is renewed like any other.
Renew(h) ==
  /\ h \in taken
  /\ live' \in {live \cup {h}, live \ {h}}
  /\ UNCHANGED taken

Release(h) ==
  /\ taken' = taken \ {h}
  /\ live' = live \ {h}

Expire(late) ==
  /\ live' = live \ late
  /\ UNCHANGED taken

Next ==
  \/ \E h \in Holder : Acquire(h) \/ Renew(h) \/ Release(h)
  \/ \E late \in SUBSET live : Expire(late)

Spec == Init /\ [][Next]_<<taken, live>>
==============================================================================
