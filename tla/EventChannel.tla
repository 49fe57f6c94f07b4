---------------------------- MODULE EventChannel ----------------------------
(***************************************************************************)
(* What the outbox, the relay and the stream promise together: rows are    *)
(* written and stay, and the stream gains copies of rows that have been    *)
(* written with a subject it takes, in any order and any number of times.  *)
(***************************************************************************)
EXTENDS Naturals, Sequences

CONSTANT Subjects  \* subjects that are written to the outbox

VARIABLES
  rows,  \* the subjects of the rows, in id order
  log    \* the rows of the messages in the stream, in stream order

channelVars == <<rows, log>>

\* The subjects that the worker gives the stream.
StreamSubjects == {"transfer.requested", "transfer.debited",
                   "transfer.bank_called", "transfer.credited"}

ChInit == rows \in Seq(Subjects) /\ log = <<>>

ChWrite(s) == rows' = Append(rows, s) /\ UNCHANGED log

ChPublish(i) ==
  /\ rows[i] \in StreamSubjects
  /\ log' = Append(log, i)
  /\ UNCHANGED rows

ChNext ==
  \/ \E s \in Subjects : ChWrite(s)
  \/ \E i \in DOMAIN rows : ChPublish(i)

ChSpec == ChInit /\ [][ChNext]_channelVars
=============================================================================
