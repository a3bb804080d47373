\* One host, one corpus: a client restarts as soon as it may, also while the old job is cleaned up. TLC stops when every call is over.
CONSTANTS
  Host = {h1}
  Corpus = {c1}
  Gather = {g1, g2, g3}
  Stopper = {s1}
  None = none
  Workers = 2
  QueueMax = 2
  Faults = {"error", "lapse", "crash"}
SPECIFICATION Spec
CONSTRAINT Bounds
CHECK_DEADLOCK FALSE
SYMMETRY RunnerSymmetry
INVARIANTS
  CleanupApart
