\* Two transfers, one of them refused its debit for want of a clearing account,
\* two workers, account freezes, a fault, a fair schedule.
CONSTANTS
  t1 = t1  t2 = t2
  alice = alice  bob = bob  floatIDR = floatIDR  floatUSD = floatUSD
  w1 = w1  w2 = w2
  ZeroAccount = ZeroAccount
  Transfers = {t1, t2}
  Accounts = {alice, bob, floatIDR}
  FloatAccounts <- MCFloatAccounts
  Source <- MCSource
  Dest <- MCDest
  Amount <- MCAmount
  Currency <- MCCurrencies
  Seed <- MCSeedTwice
  Workers = {w1, w2}
  BankOutcomes = {"ack", "error"}
  Statuses = {"ACTIVE", "FROZEN"}
  MaxFaults = 1
SPECIFICATION FairSpec
INVARIANTS Inv NeverPaidAndRefunded PaidOnlyIfBacked SettledMatchesLedger
           AnnouncedOnce AnnouncedIsTrue
PROPERTIES KeepsContract RowsAdvance ResumesUntilSettled
