\* Any three of eight requests, two faults.
CONSTANTS
  r1 = r1  r2 = r2  r3 = r3  r4 = r4  r5 = r5  r6 = r6  r7 = r7  r8 = r8
  k1 = k1  None = None
  alice = alice  bob = bob  carol = carol
  Requests = {r1, r2, r3, r4, r5, r6, r7, r8}
  Keys = {k1}
  Key <- MCKey
  Body <- MCBody
  Accounts = {alice, bob}
  Statuses = {"ACTIVE", "FROZEN"}
  MaxArrivals = 3
  MaxFaults = 2
SPECIFICATION Spec
INVARIANTS Inv SameAnswer AcceptedIsDurable OneTransferPerKey RefusedLeavesNothing
