\* Two relays, two rows, no fault.
CONSTANTS
  p1 = p1  p2 = p2
  Relays = {p1, p2}
  Subjects = {"transfer.debited", "transfer.completed"}
  batchSize = 2
  MaxRows = 2
  MaxUnroutable = 1
  MaxFaults = 0
SPECIFICATION Spec
INVARIANT NoDoublePublish
CHECK_DEADLOCK FALSE
