---------------------------- MODULE MCIndexBuild ----------------------------
(* A small instance of IndexBuild for TLC.                                 *)
EXTENDS IndexBuild, TLC

IndexSymmetry == Permutations(File) \cup Permutations(Model) \cup Permutations(Width)
=============================================================================
