\* Two workers and a direct caller.
CONSTANTS
  t1 = t1
  alice = alice  bob = bob  floatIDR = floatIDR
  w1 = w1  w2 = w2  test = test
  ZeroAccount = ZeroAccount
  Transfers = {t1}
  Accounts = {alice, bob, floatIDR}
  FloatAccounts <- MCFloatAccounts
  Source <- MCSource
  Dest <- MCDest
  Amount <- MCAmount
  Currency <- MCCurrency
  Seed <- MCSeed
  Workers = {w1, w2, test}
  BankOutcomes = {"ack", "error"}
  Statuses = {"ACTIVE"}
  MaxFaults = 1
  Callers = {test}
  Requests = 1
  MaxAckPending = 2
  MaxPrefetch = 1
  MaxCalls = 1
  Repeats = {2}
  MaxMishaps = 1
  MaxHangs = 1
SPECIFICATION EngineFairSpec
INVARIANTS AllInv AckedIsSuperseded NeverStranded
PROPERTIES AnnouncedSettles StreamDrains
