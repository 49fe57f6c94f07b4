-------------------------- MODULE TransferContract --------------------------
(***************************************************************************)
(* What the engine promises about each transfer, without workers, copies   *)
(* in memory, repeated calls or failures: its state, which ledger legs     *)
(* have been posted at least once, and whether the bank has acknowledged   *)
(* it.  A state is entered only when the effect it stands for has taken    *)
(* place, and an effect first takes place only in the states listed here.  *)
(***************************************************************************)
CONSTANT Transfers

VARIABLES
  state,  \* transfer -> lifecycle state
  legs,   \* transfer -> legs posted at least once
  acked   \* transfers the bank has acknowledged

contractVars == <<state, legs, acked>>

CInit ==
  /\ state = [t \in Transfers |-> "PENDING"]
  /\ legs = [t \in Transfers |-> {}]
  /\ acked = {}

Enter(t, s) ==
  /\ state' = [state EXCEPT ![t] = s]
  /\ UNCHANGED <<legs, acked>>

\* The first debit is posted while the transfer is PENDING, or by a caller
\* that passed its checks before another one failed the transfer.
PostDebit(t) ==
  /\ state[t] \in {"PENDING", "FAILED"}
  /\ legs' = [legs EXCEPT ![t] = @ \cup {"debit"}]
  /\ UNCHANGED <<state, acked>>

\* The first credit is posted on top of a debit and an acknowledgement.
PostCredit(t) ==
  /\ state[t] = "BANK_CALLED"
  /\ legs' = [legs EXCEPT ![t] = @ \cup {"credit"}]
  /\ UNCHANGED <<state, acked>>

\* The first refund is posted while the transfer is being compensated.
PostRefund(t) ==
  /\ state[t] = "COMPENSATING"
  /\ legs' = [legs EXCEPT ![t] = @ \cup {"reverseDebit"}]
  /\ UNCHANGED <<state, acked>>

\* The bank acknowledges a debited transfer, possibly to a caller that
\* another one has overtaken on its way to FAILED.
Acknowledge(t) ==
  /\ state[t] \in {"DEBITED", "COMPENSATING", "FAILED"}
  /\ acked' = acked \cup {t}
  /\ UNCHANGED <<state, legs>>

Debited(t)      == state[t] = "PENDING" /\ "debit" \in legs[t] /\ Enter(t, "DEBITED")
Refused(t)      == state[t] = "PENDING" /\ Enter(t, "FAILED")
BankCalled(t)   == state[t] = "DEBITED" /\ t \in acked /\ Enter(t, "BANK_CALLED")
Compensating(t) == state[t] = "DEBITED" /\ Enter(t, "COMPENSATING")
Credited(t)     == state[t] = "BANK_CALLED" /\ "credit" \in legs[t] /\ Enter(t, "CREDITED")
Completed(t)    == state[t] = "CREDITED" /\ Enter(t, "COMPLETED")
Refunded(t)     == state[t] = "COMPENSATING" /\ "reverseDebit" \in legs[t] /\ Enter(t, "FAILED")

CNext ==
  \E t \in Transfers :
    \/ PostDebit(t) \/ PostCredit(t) \/ PostRefund(t) \/ Acknowledge(t)
    \/ Debited(t) \/ Refused(t) \/ BankCalled(t) \/ Compensating(t)
    \/ Credited(t) \/ Completed(t) \/ Refunded(t)

CSpec == CInit /\ [][CNext]_contractVars
=============================================================================
