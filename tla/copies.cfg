\* One of: one pinned call and one read without a pin, of three versions of which only the current one is sure to stay; one client and a seed store of two corpora, published twice. Every fault happens.
CONSTANTS
  Call = {c1, c2}
  Pinned = {c1}
  MaxVersion = 3
  File = {f}
  Manifest = manifest
  Reads = 1
  TTL = 1
  Latency = 0
  Faults = {"error", "restart"}
  N = 2
  Tree = {0, 1, 2, 3}
  Absent = absent
  SwapFaults = {"rename", "rmtree", "die"}
  Corpus = {a, b}
  Local = a
  MaxTime = 3
  MaxBuilds = 2
  MaxRuns = 2
  Margin = 0
  SeedFaults = {"request", "short", "gather", "stage", "die"}
SPECIFICATION CopySpec
INVARIANTS
  ReadInv
  AllOrNothing
  NothingLost
  IndexInstallable
  InstalledAsPublished
  IndexFirst
PROPERTIES
  NeverLostToReap
