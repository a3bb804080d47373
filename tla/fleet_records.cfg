\* Three gathers on two hosts, two at a time; heartbeats come in time.
CONSTANTS
  Gather = {g1, g2, g3}
  Host = {h1, h2}
  Cap = 2
  TTL = 2
  Interval = 1
  Delay = 0
  Tries = 3
  Key = {k}
  MaxStamp = 2
  Faults = {"crash", "error"}
SPECIFICATION Spec
CHECK_DEADLOCK FALSE
SYMMETRY FleetSymmetry
INVARIANTS
  FleetInv
  AdditionsPersisted
PROPERTIES
  NoUpdateLost
  ImplementsSlots
