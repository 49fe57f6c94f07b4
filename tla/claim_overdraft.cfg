\* Two workers, two transfers competing for the balance, no faults.
CONSTANTS
  t1 = t1  t2 = t2
  alice = alice  bob = bob  floatIDR = floatIDR  floatUSD = floatUSD
  w1 = w1  w2 = w2
  ZeroAccount = ZeroAccount
  Transfers = {t1, t2}
  Accounts = {alice, bob, floatIDR}
  FloatAccounts <- MCFloatAccounts
  Source <- MCSource
  Dest <- MCDest
  Amount <- MCAmount
  Currency <- MCCurrency
  Seed <- MCSeed
  Workers = {w1, w2}
  BankOutcomes = {"ack", "error"}
  Statuses = {"ACTIVE"}
  MaxFaults = 0
SPECIFICATION Spec
INVARIANT NeverOverdrawn
