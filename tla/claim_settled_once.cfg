\* One worker, one fault.
CONSTANTS
  t1 = t1  t2 = t2
  alice = alice  bob = bob  floatIDR = floatIDR  floatUSD = floatUSD
  w1 = w1  w2 = w2
  ZeroAccount = ZeroAccount
  Transfers = {t1}
  Accounts = {alice, bob, floatIDR}
  FloatAccounts <- MCFloatAccounts
  Source <- MCSource
  Dest <- MCDest
  Amount <- MCAmount
  Currency <- MCCurrency
  Seed <- MCSeed
  Workers = {w1}
  BankOutcomes = {"ack", "error"}
  Statuses = {"ACTIVE"}
  MaxFaults = 1
SPECIFICATION Spec
INVARIANT SettledOnce
