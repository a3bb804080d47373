--------------------------- MODULE MCCloudPublish ---------------------------
(* CloudPublish for TLC.  The gathers are interchangeable; versions are not *)
(* (they are ordered), nor is anything else.                                *)
EXTENDS CloudPublish, TLC

GatherSymmetry == Permutations(Gather)
==============================================================================
