------------------------------- MODULE MCParts -------------------------------
(* Parts that share nothing, one at a time: the versions of a corpus that a   *)
(* server has resolved (CloudRead), the answers of live lookups (LiveCache),  *)
(* the drafts of a subscription corpus (DraftSources), the threads of its     *)
(* mail (MailThreads), the sweep of a server's probes (ProbeSweep) and its    *)
(* answers on stdio (StdioWriter).  The first state picks the one that runs;  *)
(* calls are lookups and gathers, and processes are probes, which keeps the   *)
(* symmetry group small.                                                      *)
EXTENDS CloudRead, LiveCache, DraftSources, MailThreads, ProbeSweep, StdioWriter, TLC

VARIABLE scene  \* the part that runs

corpusVars == <<draftVars, archive>>
serverVars == <<probeVars, writerVars>>
partVars   == <<vars, liveVars, corpusVars, serverVars, scene>>

PartInit ==
  /\ Init /\ LiveInit /\ DraftInit /\ MailInit /\ ProbeInit /\ WriterInit
  /\ scene \in {"resolve", "live", "drafts", "threads", "probes", "stdio"}
  /\ scene = "drafts" \/ posted = {}  \* one state of a part that does not run

PartNext ==
  \/ scene = "resolve" /\ Next /\ UNCHANGED <<liveVars, corpusVars, serverVars>>
  \/ scene = "live" /\ LiveNext /\ UNCHANGED <<vars, corpusVars, serverVars>>
  \/ scene = "drafts" /\ DraftNext /\ UNCHANGED <<vars, liveVars, archive, serverVars>>
  \/ scene = "threads" /\ MailNext /\ UNCHANGED <<vars, liveVars, draftVars, serverVars>>
  \/ scene = "probes" /\ ProbeNext /\ UNCHANGED <<vars, liveVars, corpusVars, writerVars>>
  \/ scene = "stdio" /\ WriterNext /\ UNCHANGED <<vars, liveVars, corpusVars, probeVars>>

PartSpec == PartInit /\ [][PartNext /\ UNCHANGED scene]_partVars

PartSymmetry ==
  Permutations(Call \cup Lookup \cup Run) \cup Permutations(Process \cup Probe)
    \cup Permutations(LiveUrl)
==============================================================================
