\* Two hosts that may lose their disks, three UIDs in two chunks, one renumbering, three gathers.
CONSTANTS
  Host = {h1, h2}
  Uid = {0, 1, 2}
  ChunkSize = 2
  MaxEpoch = 2
  MaxGathers = 3
  Retries = 1
  Faults = {"imap", "short", "store", "wipe"}
SPECIFICATION Spec
CHECK_DEADLOCK FALSE
SYMMETRY MailSymmetry
INVARIANTS
  MailInv
  ThreadsNearlyWhole
PROPERTIES
  StoredMailStays
