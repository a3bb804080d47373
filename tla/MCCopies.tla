------------------------------- MODULE MCCopies -------------------------------
(* The copies a host makes of what was published, one kind at a time: the     *)
(* versions of a corpus that a server reads from the bucket (CloudRead), and  *)
(* the seeds that a client installs from a seed store (SeedStore).  They      *)
(* share nothing; the first state picks the one that runs.                    *)
EXTENDS CloudRead, SeedStore

VARIABLE scene  \* the kind that is made

copyVars == <<vars, seedVars, scene>>

CopyInit == Init /\ SeedInit /\ scene \in {"read", "seed"}

\* The seed store may come to rest; a server's calls, by themselves, must not.
Seeds == SeedNext \/ UNCHANGED seedVars

\* Bound: a client is killed within a swap between two runs of the publisher, who reads
\* nothing of what it swaps.
Bound == swap.pc = "dead" => PubAt("idle")

CopyNext ==
  \/ scene = "read" /\ Next /\ UNCHANGED <<seedVars, scene>>
  \/ scene = "seed" /\ Seeds /\ Bound' /\ UNCHANGED <<vars, scene>>

CopySpec == CopyInit /\ [][CopyNext]_copyVars
===============================================================================
