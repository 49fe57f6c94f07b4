--------------------------- MODULE MCTransferSaga ---------------------------
(***************************************************************************)
(* Instances of the saga for TLC.  Transfers come from alice, who holds    *)
(* enough for either of t1 and t2, but not for both, or for t1 twice.      *)
(* Nothing seeds the clearing accounts: the one for IDR has been given a   *)
(* row of accounts, the one for USD has none.                              *)
(***************************************************************************)
EXTENDS TransferSaga

CONSTANTS t1, t2, alice, bob, floatIDR, floatUSD, w1, w2

MCFloatAccounts == [c \in {"IDR", "USD"} |-> IF c = "IDR" THEN floatIDR ELSE floatUSD]
MCSource == [t \in Transfers |-> alice]
MCDest == [t \in Transfers |-> bob]
MCAmount == [t \in Transfers |-> IF t = t1 THEN 2 ELSE 1]
MCCurrency == [t \in Transfers |-> "IDR"]
MCCurrencies == [t \in Transfers |-> IF t = t1 THEN "IDR" ELSE "USD"]
Holding(n) ==
  [a \in Accounts \cup {floatUSD} |-> [c \in {"IDR", "USD"} |-> IF a = alice THEN n ELSE 0]]
MCSeed == Holding(2)
MCSeedTwice == Holding(4)
=============================================================================
