\* One of: two pinned calls of two reads, two versions, restarts; two lookups at a time, three in all, two processes, two documents; three gathers, two at a time, of three drafts; three mails; four probes, two at a time; five answers. Calls are lookups and gathers, and processes probes, as model values.
CONSTANTS
  Call = {c1, c2}
  Pinned = {c1, c2}
  MaxVersion = 2
  File = {f}
  Manifest = manifest
  Reads = 2
  TTL = 2
  Latency = 1
  Faults = {"restart"}
  Lookup = {c1, c2}
  Process = {p1, p2}
  LiveUrl = {u1, u2}
  Nobody = nobody
  MaxNow = 4
  MaxLookups = 3
  LiveTTL = 2
  FetchTime = 1
  Slots = 1
  LiveFaults = {"fetch", "disk", "exit"}
  Run = {c1, c2}
  NoRun = nobody
  Draft = {d1, d2, d3}
  Named = {d3}
  Authored = {d3}
  Cited = {d2}
  MaxRuns = 3
  DraftFaults = {"outage", "crash", "early"}
  MaxMail = 3
  MaxDate = 2
  MaxRefs = 1
  Window = 0
  Probe = {p1, p2}
  NoProbe = nobody
  MaxClock = 4
  MaxProbes = 4
  SweepTTL = 2
  FailureTTL = 1
  MaxSent = 5
  QueueItems = 2
SPECIFICATION PartSpec
CHECK_DEADLOCK FALSE
SYMMETRY PartSymmetry
INVARIANTS
  PinsHold
  CacheFreshEnough
  LiveInv
  AnswersTrue
  ThreadsTrue
  ProbeInv
  WriterInv
PROPERTIES
  
  ChosenStay
