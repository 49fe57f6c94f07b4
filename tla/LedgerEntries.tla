--------------------------- MODULE LedgerEntries ----------------------------
(***************************************************************************)
(* Ledger entries as values (internal/domain/ledger, internal/domain/      *)
(* money): the two entries of a posting, signed amounts, and the int64     *)
(* arithmetic of Go, with MaxInt as its largest number.                    *)
(***************************************************************************)
EXTENDS Integers, FiniteSets, Functions

CONSTANTS
  Ids,         \* account ids
  Currencies,  \* currency codes
  MaxInt       \* the largest int64

ASSUME IntAssumption == MaxInt \in Nat

MinInt == -MaxInt - 1

\* An addition or negation that overflows wraps around.
Wrap(n) == ((n - MinInt) % (MaxInt - MinInt + 1)) + MinInt

\* A row of ledger_entries.  Transaction ids are fresh: the n-th one handed
\* out.  The description tells a seeded balance from a posting.
Entry == [tx : Nat, account : Ids, type : {"DEBIT", "CREDIT"}, amount : Nat,
          currency : Currencies, description : {"posting", "seed"}]

\* A posting that is asked for: its arguments, not yet validated.
Request == [src : Ids, dst : Ids, amount : Int, currency : Currencies]

\* Mutant: NewPosting without its check of the accounts.
AcceptsSelf(p) == p.amount > 0

\* NewPosting accepts: the amount is valid and not zero, the accounts differ.
Accepts(p) == p.amount > 0 /\ p.src # p.dst

Debit(tx, p) ==
  [tx |-> tx, account |-> p.src, type |-> "DEBIT", amount |-> p.amount,
   currency |-> p.currency, description |-> "posting"]

Credit(tx, p) ==
  [tx |-> tx, account |-> p.dst, type |-> "CREDIT", amount |-> p.amount,
   currency |-> p.currency, description |-> "posting"]

\* seedBalance of the integration tests: a credit without a debit.
SeedCredit(tx, p) == [Credit(tx, p) EXCEPT !.description = "seed"]

\* Mutant: the sign is not looked at.
UnsignedAmount(e) == e.amount

SignedAmount(e) == IF e.type = "DEBIT" THEN -e.amount ELSE e.amount

\* What is summed up, for each entry.
Signed == [e \in Entry |-> SignedAmount(e)]

Amounts == [e \in Entry |-> e.amount]

\* The two entries are those of a posting: they balance each other.
Balances(e, f) ==
  /\ e.tx = f.tx /\ e.amount = f.amount /\ e.currency = f.currency
  /\ e.type # f.type /\ e.account # f.account
  /\ e.description = "posting" /\ f.description = "posting"
=============================================================================
