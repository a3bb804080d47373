\* Two hosts and one corpus, whose lease lapses under a gather that goes on.
CONSTANTS
  Host = {h1, h2}
  Corpus = {c1}
  Gather = {g1, g2}
  Stopper = {}
  None = none
  Workers = 2
  QueueMax = 1
  Faults = {"lapse"}
SPECIFICATION Spec
CHECK_DEADLOCK FALSE
PROPERTIES
  LostStaysLocal
