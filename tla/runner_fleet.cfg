\* Two hosts, two corpora and one fleet slot, and a host's queue holds one job: jobs wait for the slot, or for their corpus; one lease or slot lapses under its gather, hosts die, and with one corpus a stop is asked for on either host.
CONSTANTS
  Host = {h1, h2}
  Corpus = {c1, c2}
  Gather = {g1, g2}
  Stopper = {s1}
  None = none
  Workers = 1
  QueueMax = 1
  Faults = {"lapse", "error", "crash"}
SPECIFICATION Spec
CONSTRAINT Bounds
CHECK_DEADLOCK FALSE
SYMMETRY RunnerSymmetry
INVARIANTS
  FleetBounds
PROPERTIES
  RecordTrue
