\* Stall > TTL: a publisher may outstay its lease, and a superseded version is reaped at once; every fault happens. No symmetry, since liveness is checked.
CONSTANTS
  Gather = {g1, g2}
  NoGather = nobody
  Version = {1, 2}
  File = {f}
  Manifest = manifest
  Retain = 1
  TTL = 1
  Delay = 0
  Stall = 2
  Skew = 0
  OrderedIds = FALSE
  Faults = {"crash", "error", "lapse", "resend"}
SPECIFICATION FairSpec
PROPERTIES
  NoZombieOverwrite
  DeadHolderYields
  PublishEnds
