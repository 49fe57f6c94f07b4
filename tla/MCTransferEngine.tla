-------------------------- MODULE MCTransferEngine --------------------------
(***************************************************************************)
(* Instances of the engine for TLC: transfers from alice to bob.           *)
(***************************************************************************)
EXTENDS TransferEngine

CONSTANTS t1, alice, bob, floatIDR, w1, w2, test

MCFloatAccounts == [c \in {"IDR"} |-> floatIDR]
MCSource == [t \in Transfers |-> alice]
MCDest == [t \in Transfers |-> bob]
MCAmount == [t \in Transfers |-> 1]
MCCurrency == [t \in Transfers |-> "IDR"]
MCSeed == [a \in Accounts |-> [c \in {"IDR"} |-> IF a = alice THEN 2 ELSE 0]]
=============================================================================
