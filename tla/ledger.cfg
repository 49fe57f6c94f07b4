\* Two writers, two accounts, two currencies, three transactions, a fault.
CONSTANTS
  alice = alice  bob = bob  w1 = w1  w2 = w2
  Ids = {alice, bob}
  Currencies = {"IDR", "USD"}
  MaxInt = 3
  Writers = {w1, w2}
  Postings <- MCPostings
  Deposits <- MCDeposits
  MaxTx = 3
  MaxFaults = 1
SPECIFICATION Spec
INVARIANTS Inv WholePostings OnlySeedsDrift
PROPERTIES BalanceIsTrue KeepsLedger
