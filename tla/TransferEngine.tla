--------------------------- MODULE TransferEngine ---------------------------
(***************************************************************************)
(* The engine from the outbox back to the saga: the relay publishes rows   *)
(* of the outbox, JetStream delivers their messages to the workers, and    *)
(* each worker calls Execute for the transfer that a message names and     *)
(* acks or naks it (nats/consumer.go, cmd/worker).                         *)
(*                                                                         *)
(* The relay is what EventChannel says of it.  The transfers were accepted *)
(* by the API, whose transfer.requested rows are the first of the outbox.  *)
(* Their payload is the TransferEvent, which has no transfer_id field: the *)
(* worker cannot tell which transfer it is about and naks it.  So a saga   *)
(* starts by a direct call of Execute, as the integration tests make it.   *)
(***************************************************************************)
EXTENDS TransferSaga

CONSTANTS
  Callers,        \* direct callers of Execute among the Workers
  Requests,       \* outbox rows that the API has written
  MaxAckPending,  \* messages that may be delivered and not acked
  MaxPrefetch,    \* messages that a worker fetches ahead
  MaxCalls,       \* bound: direct calls
  Repeats,        \* bound: rows that are published more than once
  MaxMishaps,     \* bound: rows published again, late and lost answers, errors,
                  \* crashes, hangs
  MaxHangs        \* bound: workers that wait for a bank that does not answer

ASSUME EngineAssumption ==
  /\ Callers \subseteq Workers
  /\ Requests \in Nat
  /\ MaxAckPending \in Nat /\ MaxPrefetch \in Nat
  /\ MaxCalls \in Nat /\ MaxMishaps \in Nat /\ MaxHangs \in Nat

VARIABLES
  msgs,    \* the stream: the row of each message and its state at the consumer
  buffer,  \* worker -> messages delivered to it and not yet taken
  job,     \* worker -> the message in its handler and what the handler says
  hung,    \* workers whose bank call does not return
  calls,   \* direct calls so far
  mishaps  \* mishaps so far

queueVars == <<msgs, buffer, job, hung, calls, mishaps>>

engineVars == <<vars, queueVars>>

Consumers == Workers \ Callers

\* new: not delivered yet; out: delivered, AckWait running; due: to be
\* delivered again; acked: done with.
Message == [row : Nat \ {0}, st : {"new", "out", "due", "acked"}]

NoJob == [pc |-> "none", msg |-> 0]

\* The rows of the outbox, the API's first, and the transfer one names.
Subject(i) == IF i <= Requests THEN "transfer.requested"
                               ELSE outbox[i - Requests].subject

Rows == [i \in 1..(Requests + Len(outbox)) |-> Subject(i)]

Named(i) == i > Requests

TransferOf(i) == outbox[i - Requests].id

Channel ==
  INSTANCE EventChannel WITH
    Subjects <- EventType \cup {"transfer.requested"},
    rows <- Rows,
    log <- [k \in DOMAIN msgs |-> msgs[k].row]

Mark(k, st) == msgs' = [msgs EXCEPT ![k].st = st]

Unacked == {k \in DOMAIN msgs : msgs[k].st \in {"out", "due"}}

Mishap == mishaps < MaxMishaps /\ mishaps' = mishaps + 1

InStream(i) == \E k \in DOMAIN msgs : msgs[k].row = i

EngineInit ==
  /\ Init
  /\ msgs = <<>>
  /\ buffer = [w \in Consumers |-> <<>>]
  /\ job = [w \in Workers |-> NoJob]
  /\ hung = {}
  /\ calls = 0
  /\ mishaps = 0

-----------------------------------------------------------------------------
(* The relay and JetStream.                                                *)

\* A row may be published again: the relay's mark may fail, and relays race.
Publish(i) ==
  /\ i \in DOMAIN Rows
  /\ Rows[i] \in Channel!StreamSubjects
  /\ IF InStream(i) THEN i \in Repeats /\ Mishap ELSE UNCHANGED mishaps
  /\ msgs' = Append(msgs, [row |-> i, st |-> "new"])
  /\ UNCHANGED <<vars, buffer, job, hung, calls>>

PublishFirst(i) == ~InStream(i) /\ Publish(i)

\* A message goes to a worker that has asked for more.  No new one does while
\* MaxAckPending messages are unacked.
Deliver(w, k) ==
  /\ k \in DOMAIN msgs
  /\ \/ msgs[k].st = "new" /\ Cardinality(Unacked) < MaxAckPending
     \/ msgs[k].st = "due"
  /\ Len(buffer[w]) < MaxPrefetch
  /\ Mark(k, "out")
  /\ buffer' = [buffer EXCEPT ![w] = Append(@, k)]
  /\ UNCHANGED <<vars, job, hung, calls, mishaps>>

\* Worker w has message k and works on: AckWait seldom ends before it answers.
Has(w, k) == w \notin hung /\ (k \in Range(buffer[w]) \/ job[w].msg = k)

\* AckWait is over, whether or not a worker still has the message.
AckWait(k) ==
  /\ k \in DOMAIN msgs
  /\ msgs[k].st = "out"
  /\ IF \E w \in Consumers : Has(w, k) THEN Mishap ELSE UNCHANGED mishaps
  /\ Mark(k, "due")
  /\ UNCHANGED <<vars, buffer, job, hung, calls>>

-----------------------------------------------------------------------------
(* The worker: Subscribe's loop and its handler.                           *)

RowOf(w) == msgs[job[w].msg].row

Says(w, pc) == job' = [job EXCEPT ![w].pc = pc]

\* Mutant: the message is acked before it is handled.
HandleAcked(w, k, pc) ==
  /\ job[w] = NoJob
  /\ buffer[w] # <<>> /\ k = Head(buffer[w])
  /\ job' = [job EXCEPT ![w] = [pc |-> pc, msg |-> k]]
  /\ buffer' = [buffer EXCEPT ![w] = Tail(@)]
  /\ Mark(k, "acked")
  /\ UNCHANGED <<hung, calls, mishaps>>

\* Subscribe's loop takes the next message and calls the handler, which says
\* "ok" or "err" or calls Execute.
Handle(w, k, pc) ==
  /\ job[w] = NoJob
  /\ buffer[w] # <<>> /\ k = Head(buffer[w])
  /\ job' = [job EXCEPT ![w] = [pc |-> pc, msg |-> k]]
  /\ buffer' = [buffer EXCEPT ![w] = Tail(@)]
  /\ UNCHANGED <<msgs, hung, calls, mishaps>>

\* ParseTransferID fails.
HandleUnnamed(w, k) ==
  /\ Handle(w, k, "err")
  /\ ~Named(msgs[k].row)
  /\ UNCHANGED vars

\* Mutant: Execute returns nil for a transfer in any state.
HandleNone(w, k) ==
  /\ Handle(w, k, "ok")
  /\ Named(msgs[k].row)
  /\ UNCHANGED vars

\* Mutant: Execute returns an error for a settled transfer.
HandleSettledFails(w, k) ==
  /\ Handle(w, k, "err")
  /\ Named(msgs[k].row)
  /\ row[TransferOf(msgs[k].row)].state \in Terminal
  /\ UNCHANGED vars

\* Execute returns nil for a settled transfer.
HandleSettled(w, k) ==
  /\ Handle(w, k, "ok")
  /\ Named(msgs[k].row)
  /\ row[TransferOf(msgs[k].row)].state \in Terminal
  /\ UNCHANGED vars

\* Execute loads the transfer and begins its step.
HandleExecute(w, k) ==
  /\ Handle(w, k, "call")
  /\ Named(msgs[k].row)
  /\ Execute(w, TransferOf(msgs[k].row))

\* What Execute returns to the handler once w is idle again: nil only after
\* the outbox row of the step.
Returns(w) ==
  IF job[w].pc = "call" /\ worker'[w] = Idle
  THEN Says(w, IF worker[w].pc = "outbox" THEN "ok" ELSE "err")
  ELSE UNCHANGED job

SagaStep(w) ==
  /\ w \notin hung
  /\ Step(w)
  /\ Returns(w)
  /\ UNCHANGED <<msgs, buffer, hung, calls, mishaps>>

\* Mutant: the handler drops the error.
StepErrorDropped(w) ==
  /\ Mishap
  /\ w \notin hung
  /\ Abort(w)
  /\ job' = [job EXCEPT ![w] = IF @.pc = "call" THEN [@ EXCEPT !.pc = "ok"] ELSE @]
  /\ UNCHANGED <<msgs, buffer, hung, calls>>

\* A repository call fails.
StepFails(w) ==
  /\ Mishap
  /\ w \notin hung
  /\ Abort(w)
  /\ job' = [job EXCEPT ![w] = IF @.pc = "call" THEN [@ EXCEPT !.pc = "err"] ELSE @]
  /\ UNCHANGED <<msgs, buffer, hung, calls>>

\* The bank does not answer, and no deadline ends the call.
Hang(w) ==
  /\ Mishap
  /\ worker[w].pc = "bank"
  /\ w \notin hung
  /\ Cardinality(hung) < MaxHangs
  /\ hung' = hung \cup {w}
  /\ UNCHANGED <<vars, msgs, buffer, job, calls>>

\* msg.Ack.
Ack(w) ==
  /\ job[w].pc = "ok"
  /\ Mark(job[w].msg, "acked")
  /\ job' = [job EXCEPT ![w] = NoJob]
  /\ UNCHANGED <<vars, buffer, hung, calls, mishaps>>

\* msg.Nak, when the handler has failed; a message that is acked stays so.
Nak(w) ==
  /\ job[w].pc = "err"
  /\ IF msgs[job[w].msg].st = "acked" THEN UNCHANGED msgs ELSE Mark(job[w].msg, "due")
  /\ job' = [job EXCEPT ![w] = NoJob]
  /\ UNCHANGED <<vars, buffer, hung, calls, mishaps>>

\* The answer does not reach the server; its error is not looked at.
AnswerLost(w) ==
  /\ job[w].pc \in {"ok", "err"}
  /\ Mishap
  /\ job' = [job EXCEPT ![w] = NoJob]
  /\ UNCHANGED <<vars, msgs, buffer, hung, calls>>

\* A worker dies and is started again.
Crash(w) ==
  /\ Mishap
  /\ IF worker[w] = Idle THEN UNCHANGED vars ELSE Abort(w)
  /\ job' = [job EXCEPT ![w] = NoJob]
  /\ buffer' = [buffer EXCEPT ![w] = <<>>]
  /\ hung' = hung \ {w}
  /\ UNCHANGED <<msgs, calls>>

\* Execute is called without a message.
Call(d, id) ==
  /\ calls < MaxCalls /\ calls' = calls + 1
  /\ Execute(d, id)
  /\ UNCHANGED <<msgs, buffer, job, hung, mishaps>>

-----------------------------------------------------------------------------

\* What worker w does when nothing fails.
Work(w) ==
  \/ \E k \in DOMAIN msgs :
       HandleUnnamed(w, k) \/ HandleSettled(w, k) \/ HandleExecute(w, k)
  \/ SagaStep(w)
  \/ Ack(w) \/ Nak(w)

EngineNext ==
  \/ \E i \in DOMAIN Rows : Publish(i)
  \/ \E w \in Consumers, k \in DOMAIN msgs : Deliver(w, k)
  \/ \E k \in DOMAIN msgs : AckWait(k)
  \/ \E w \in Consumers : Work(w)
  \/ \E w \in Consumers : AnswerLost(w) \/ Crash(w) \/ Hang(w)
  \/ \E w \in Workers : StepFails(w)
  \/ \E d \in Callers : SagaStep(d) \/ \E id \in Transfers : Call(d, id)

EngineSpec == EngineInit /\ [][EngineNext]_engineVars

\* A transfer has at most three rows that the stream takes.
MaxMsgs == Requests + 3 * Cardinality(Transfers) + MaxMishaps

\* Workers that are not hung go on.  The relay publishes every row that the
\* stream takes, once at least.  JetStream redelivers after AckWait, and
\* passes over no message for ever: workers fetch far more messages ahead
\* than are refused and redelivered at a time.
EngineFairness ==
  /\ \A w \in Consumers : WF_engineVars(Work(w))
  /\ \A d \in Callers : WF_engineVars(SagaStep(d))
  /\ WF_engineVars(\E i \in DOMAIN Rows : PublishFirst(i))
  /\ WF_engineVars(\E k \in DOMAIN msgs : AckWait(k))
  /\ \A k \in 1..MaxMsgs : SF_engineVars(\E w \in Consumers : Deliver(w, k))

EngineFairSpec == EngineSpec /\ EngineFairness

-----------------------------------------------------------------------------
(* Safety.                                                                 *)

\* Every variable has its type.
EngineTypeOK ==
  /\ msgs \in Seq(Message)
  /\ buffer \in [Consumers -> Seq(Nat)]
  /\ \A w \in Consumers : \A i \in DOMAIN buffer[w] : buffer[w][i] \in DOMAIN msgs
  /\ job \in [Workers -> [pc : {"none", "call", "ok", "err"}, msg : Nat]]
  /\ \A w \in Workers : job[w].pc # "none" => job[w].msg \in DOMAIN msgs
  /\ hung \subseteq Consumers
  /\ calls \in 0..MaxCalls
  /\ mishaps \in 0..MaxMishaps

\* The saga has gone on from the event of row i: the transfer is settled, or
\* a later row of the outbox carries it on.
Superseded(i) ==
  \/ IsSettled(TransferOf(i))
  \/ \E j \in DOMAIN outbox : j > i - Requests /\ outbox[j].id = TransferOf(i)

\* A message is acked only when it is no longer needed: its transfer is
\* settled, or a later outbox row will take the saga further.  So Subscribe
\* may ack although redeliveries of the message are still being handled, and
\* a crash at any point leaves a message that resumes the saga.
AckedIsSuperseded ==
  \A k \in DOMAIN msgs : msgs[k].st = "acked" =>
    Named(msgs[k].row) /\ Superseded(msgs[k].row)

\* A transfer that is under way and has been announced is never forgotten:
\* an outbox row of it is still to be published, or a message still to be
\* acked.
NeverStranded ==
  \A t \in Transfers :
    ~IsSettled(t) /\ IsAnnounced(t) =>
      \E i \in DOMAIN outbox :
        /\ outbox[i].id = t /\ outbox[i].subject \in Channel!StreamSubjects
        /\ \A k \in DOMAIN msgs :
             msgs[k].row = Requests + i => msgs[k].st # "acked"

\* What makes them inductive: a handler executes the transfer that its
\* message names, and says nil only once that message is superseded.
EngineInv ==
  /\ AckedIsSuperseded
  /\ \A k \in DOMAIN msgs : msgs[k].row \in DOMAIN Rows
  /\ \A d \in Callers : job[d] = NoJob
  /\ \A w \in Workers :
       /\ job[w].pc = "call" /\ worker[w] # Idle =>
            Named(RowOf(w)) /\ worker[w].id = TransferOf(RowOf(w))
       /\ job[w].pc = "ok" => Named(RowOf(w)) /\ Superseded(RowOf(w))

\* Inductive: the stream, the handlers of Subscribe and the saga agree.
AllInv == Inv /\ EngineTypeOK /\ EngineInv

-----------------------------------------------------------------------------
(* Liveness.                                                               *)

\* Once a saga has announced its first step, messages alone settle the
\* transfer, although workers crash, answers are lost, repository calls fail,
\* messages come twice or late and a worker waits for the bank for ever.
AnnouncedSettles == \A t \in Transfers : IsAnnounced(t) ~> IsSettled(t)

\* No message that names a transfer goes round for ever: in the end all are
\* acked, and only those that name none are left to be redelivered.
StreamDrains ==
  <>[](\A k \in DOMAIN msgs : Named(msgs[k].row) => msgs[k].st = "acked")

\* A transfer that the API has accepted is processed by the worker.
AcceptedIsProcessed ==
  \A t \in Transfers : <>(row[t].state # "PENDING")
=============================================================================
