\* One relay, no fault, as many unroutable rows as a batch holds.
CONSTANTS
  p1 = p1  p2 = p2
  Relays = {p1}
  Subjects = {"transfer.debited", "transfer.completed"}
  batchSize = 2
  MaxRows = 3
  MaxUnroutable = 2
  MaxFaults = 0
SPECIFICATION FairSpec
PROPERTY EventuallyPublished
CHECK_DEADLOCK FALSE
