--------------------------- MODULE TransferDomain ---------------------------
(***************************************************************************)
(* The domain packages the saga is built from: the Transfer aggregate and  *)
(* its state machine (internal/domain/transfer), double-entry postings     *)
(* (internal/domain/ledger) and accounts (internal/domain/account), as     *)
(* operators on values.  A transfer's immutable fields (accounts, amount,  *)
(* currency) are constants; its mutable fields form a record.              *)
(***************************************************************************)
EXTENDS Integers, Sequences, FiniteSets, FiniteSetsExt

CONSTANTS
  Transfers,      \* transfer ids
  Accounts,       \* ids with a row in the accounts table
  FloatAccounts,  \* currency -> id of its clearing account (a partial map)
  ZeroAccount,    \* what the map lookup yields for any other currency
  Source, Dest,   \* transfer -> account id
  Amount,         \* transfer -> minor units
  Currency,       \* transfer -> currency code
  Seed            \* account -> currency -> balance before the first transfer

\* transfer.New rejects a zero amount and equal accounts; the transfers table
\* refers to rows of accounts.
ASSUME DomainAssumption ==
  /\ Source \in [Transfers -> Accounts]
  /\ Dest \in [Transfers -> Accounts]
  /\ \A t \in Transfers : Source[t] # Dest[t]
  /\ Amount \in [Transfers -> Nat \ {0}]
  /\ ZeroAccount \notin Accounts

\* There are finitely many transfers, and balances are whole minor units.
ASSUME BalanceAssumption ==
  /\ IsFiniteSet(Transfers)
  /\ \A t \in Transfers : Seed[Source[t]][Currency[t]] \in Int
  /\ \A c \in DOMAIN FloatAccounts : Seed[FloatAccounts[c]][c] \in Int

-----------------------------------------------------------------------------
(* The state machine of a transfer.                                        *)

State == {"PENDING", "DEBITED", "BANK_CALLED", "CREDITED", "COMPLETED",
          "FAILED", "COMPENSATING"}

validTransitions ==
  [s \in State |->
     CASE s = "PENDING"      -> {"DEBITED", "FAILED"}
       [] s = "DEBITED"      -> {"BANK_CALLED", "COMPENSATING"}
       [] s = "BANK_CALLED"  -> {"CREDITED", "COMPENSATING"}
       [] s = "CREDITED"     -> {"COMPLETED", "COMPENSATING"}
       [] s = "COMPENSATING" -> {"FAILED"}
       [] OTHER              -> {}]

Terminal == {s \in State : validTransitions[s] = {}}

\* The empty string of an external_ref or failure_reason column.
None == "none"

\* The reasons a transfer can fail for: the account cannot transact, the
\* balance does not cover the amount, the bank call returned an error.
Reason == {None, "account", "funds", "bank"}

ExternalRef == {None, "BANK-REF"}

\* No path of the state machine is longer than four transitions.
MaxVersion == 5

\* The mutable columns of a row of transfers, and of a *Transfer in memory.
Transfer ==
  [state : State, version : 1..MaxVersion, debitPosted : BOOLEAN,
   creditPosted : BOOLEAN, externalRef : ExternalRef, failureReason : Reason]

New ==
  [state |-> "PENDING", version |-> 1, debitPosted |-> FALSE,
   creditPosted |-> FALSE, externalRef |-> None, failureReason |-> None]

CanTransition(x, next) == next \in validTransitions[x.state]

Transition(x, next) == [x EXCEPT !.state = next, !.version = @ + 1]

-----------------------------------------------------------------------------
(* Ledger postings.  A transfer can cause four, and each determines the    *)
(* account debited, the account credited and the amount.                   *)

Leg == {"debit", "credit", "reverseDebit", "reverseCredit"}

Float(t) == IF Currency[t] \in DOMAIN FloatAccounts
            THEN FloatAccounts[Currency[t]] ELSE ZeroAccount

Posting(t, leg) ==
  CASE leg = "debit"         -> [from |-> Source[t], to |-> Float(t)]
    [] leg = "credit"        -> [from |-> Float(t), to |-> Dest[t]]
    [] leg = "reverseDebit"  -> [from |-> Float(t), to |-> Source[t]]
    [] leg = "reverseCredit" -> [from |-> Dest[t], to |-> Float(t)]

\* NewPosting accepts the pair, and both inserts of PostEntries satisfy the
\* foreign key of ledger_entries, so that its transaction commits.
CanPost(t, leg) ==
  LET p == Posting(t, leg)
  IN  p.from # p.to /\ {p.from, p.to} \subseteq Accounts

\* What n postings of a leg add to account a's balance.
SignedAmount(t, leg, n, a) ==
  LET p == Posting(t, leg)  m == n * Amount[t]
  IN  (IF p.to = a THEN m ELSE 0) - (IF p.from = a THEN m ELSE 0)

\* The sum over ledger_entries, posted[t][leg] being the number of postings:
\* for each transfer its legs, and then the transfers.
Moves(posted, a) ==
  [t \in Transfers |->
     SumFunctionOnSet([l \in Leg |-> SignedAmount(t, l, posted[t][l], a)], Leg)]

BalanceOf(posted, a, cur) ==
  Seed[a][cur] + SumFunctionOnSet(Moves(posted, a), {t \in Transfers : Currency[t] = cur})
=============================================================================
