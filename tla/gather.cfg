\* One of: two publishing gathers, three versions, Delay + Stall + Skew < TTL, so that no gather outstays its confirmed lease; two gathers' processes, started twice in all, over one store, one request of each run, of one document whose body changes once; with every fault but a resent flip.
CONSTANTS
  Gather = {g1, g2}
  NoGather = nobody
  Version = {1, 2, 3}
  File = {f}
  Manifest = manifest
  Retain = 2
  TTL = 4
  Delay = 1
  Stall = 1
  Skew = 1
  OrderedIds = FALSE
  Faults = {"crash", "error", "lapse"}
  Child = {g1, g2}
  Url = {u}
  Etag = {e1, e2}
  Absent = absent
  MaxChanges = 1
  MaxRequests = 1
  MaxSpawns = 2
  HttpFaults = {"net", "unread", "full"}
  ChildFaults = {"spawn", "raise", "killed", "stop", "stuck", "exit", "die"}
SPECIFICATION GatherSpec
SYMMETRY GatherSymmetry
INVARIANTS
  CurrentComplete
  OnePublisher
  ChildInv
  ResponsesTrue
PROPERTIES
  ImplementsAtomicPublish
