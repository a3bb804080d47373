------------------------------- MODULE MCGather -------------------------------
(* The two halves of a gather, one at a time: its process (GatherChild, over  *)
(* the store of HttpStore), and its publish (CloudPublish).  They share       *)
(* nothing; the first state picks the one that runs, and gathers are their    *)
(* processes, which keeps the symmetry group small.                           *)
EXTENDS CloudPublish, GatherChild, TLC

VARIABLE scene  \* the half that runs

halfVars == <<vars, childVars, scene>>

GatherInit ==
  /\ Init /\ ChildInit
  /\ scene \in {"publish", "process", "exit"}
  /\ scene = "process" \/ stored = [u \in Url |-> Absent]

\* The processes may come to rest; a publish, by itself, must not.
Process == ChildNext \/ UNCHANGED childVars

\* Bounds: where the server exits in an orderly way, the store is empty at first and
\* the Datatracker's documents stay as they are.
Bounds == (scene = "process" => ~reap.on) /\ (scene = "exit" => changes = 0)

GatherNext ==
  \/ scene = "publish" /\ Next /\ UNCHANGED <<childVars, scene>>
  \/ scene # "publish" /\ UNCHANGED <<vars, scene>> /\ Process /\ Bounds'

GatherSpec == GatherInit /\ [][GatherNext]_halfVars

GatherSymmetry == Permutations(Gather \cup Child)
===============================================================================
