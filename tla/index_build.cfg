\* Two files, two texts of which one may be split; two changes; every fault but a failed probe.
CONSTANTS
  File = {f1, f2}
  Text = {s, l}
  Long = {l}
  Model = {m1, m2}
  Width = {w1, w2}
  None = none
  MinDocs = 1
  MaxChanges = 2
  Faults = {"embed", "short", "twin", "limit", "cancel", "crash", "topics", "model"}
SPECIFICATION Spec
SYMMETRY IndexSymmetry
INVARIANTS
  IndexInv
  RowsTrue
  TopicsTrue
PROPERTIES
  StaysSearchable
