--------------------------- MODULE MCFleetRecords ---------------------------
(* A small instance of FleetRecords for TLC.                               *)
EXTENDS FleetRecords, TLC

FleetSymmetry == Permutations(Gather) \cup Permutations(Host) \cup Permutations(Key)
=============================================================================
