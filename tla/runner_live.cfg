\* A host that may die, failing requests and thread starts; no symmetry, since liveness is checked.
CONSTANTS
  Host = {h1}
  Corpus = {c1}
  Gather = {g1, g2}
  Stopper = {}
  None = none
  Workers = 1
  QueueMax = 2
  Faults = {"crash", "error", "spawn"}
SPECIFICATION FairSpec
CHECK_DEADLOCK FALSE
PROPERTIES
  JobsEnd
  RecordSettles
