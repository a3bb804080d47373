\* The S3 client resends an applied conditional put.
CONSTANTS
  Gather = {g1, g2}
  NoGather = nobody
  Version = {1, 2}
  File = {f}
  Manifest = manifest
  Retain = 2
  TTL = 3
  Delay = 1
  Stall = 1
  Skew = 0
  OrderedIds = FALSE
  Faults = {"resend"}
SPECIFICATION Spec
SYMMETRY GatherSymmetry
INVARIANTS
  CurrentComplete
