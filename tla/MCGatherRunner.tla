---------------------------- MODULE MCGatherRunner ----------------------------
(* GatherRunner for TLC: hosts, corpora, gathers and stop calls are          *)
(* interchangeable, and the runs of safety properties are bounded: at most   *)
(* one gather goes on after its lease or slot has lapsed, and a stop is      *)
(* asked for only where the gathers are of one corpus and no host has died.  *)
EXTENDS GatherRunner, TLC

RunnerSymmetry ==
  Permutations(Host) \cup Permutations(Corpus) \cup Permutations(Gather)

OneCorpus == \A f, g \in Gather : None \in {of[f], of[g]} \/ of[f] = of[g]
Stopped   == \E s \in Stopper : stop[s].pc # "idle"
Bounds ==
  /\ Cardinality(overrun) <= 1
  /\ (Stopped \/ overrun # {}) => alive = Host
  /\ Stopped => OneCorpus
===============================================================================
