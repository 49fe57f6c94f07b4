\* Two relays, two faults, fewer unroutable rows than a batch holds.
CONSTANTS
  p1 = p1  p2 = p2
  Relays = {p1, p2}
  Subjects = {"transfer.debited", "transfer.completed"}
  batchSize = 2
  MaxRows = 3
  MaxUnroutable = 1
  MaxFaults = 2
SPECIFICATION FairSpec
INVARIANTS Inv PublishedIsInStream
PROPERTIES EventuallyPublished KeepsChannel
CHECK_DEADLOCK FALSE
