--------------------------- MODULE MCLedgerStore ----------------------------
(***************************************************************************)
(* LedgerStore for TLC, with integers of three bits: -4..3.  Two postings  *)
(* of 2, in opposite directions, and two seeds of 3 overflow the totals.   *)
(***************************************************************************)
EXTENDS LedgerStore

CONSTANTS alice, bob, w1, w2

Money(src, dst, amount, currency) ==
  [src |-> src, dst |-> dst, amount |-> amount, currency |-> currency]

MCPostings == {Money(alice, bob, 2, "IDR"), Money(bob, alice, 2, "IDR"),
               Money(alice, bob, 3, "USD"), Money(alice, alice, 1, "IDR"),
               Money(alice, bob, 0, "IDR")}
MCDeposits == {Money(bob, alice, 3, "IDR")}
=============================================================================
