--------------------------- MODULE MCBankGateway ----------------------------
(* BankGateway for TLC.                                                    *)
EXTENDS BankGateway

CONSTANTS c1, c2, c3
=============================================================================
