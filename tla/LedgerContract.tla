--------------------------- MODULE LedgerContract ---------------------------
(***************************************************************************)
(* What the ledger promises to those who read it: it only grows, by whole  *)
(* postings, each under a transaction id of its own, or by a deposit.      *)
(***************************************************************************)
EXTENDS LedgerEntries

VARIABLE ledger

Unused(tx) == \A e \in ledger : e.tx # tx

PostWhole(d, c) ==
  /\ Unused(d.tx) /\ Balances(d, c)
  /\ ledger' = ledger \cup {d, c}

\* Money comes in on one side only, from outside the engine.
DepositWhole(c) ==
  /\ Unused(c.tx) /\ c.type = "CREDIT" /\ c.description = "seed"
  /\ ledger' = ledger \cup {c}

LInit == ledger = {}

LNext ==
  \/ \E d, c \in ledger' : PostWhole(d, c)
  \/ \E c \in ledger' : DepositWhole(c)

LSpec == LInit /\ [][LNext]_ledger
=============================================================================
