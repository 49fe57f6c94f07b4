------------------------ MODULE TransferEngineProofs ------------------------
(***************************************************************************)
(* The engine's steps are steps of the saga, and no transfer is forgotten  *)
(* between the outbox and the workers, for any number of workers, messages *)
(* and mishaps.                                                            *)
(***************************************************************************)
EXTENDS TransferEngine, TransferSagaProofs, WellFoundedInduction

-----------------------------------------------------------------------------
(* The engine drives the saga.                                             *)

\* Consumers and direct callers are the callers of the saga.
LEMMA Members == Consumers \subseteq Workers /\ Callers \subseteq Workers
BY EngineAssumption DEF Consumers

\* A row that names a transfer is a row of the saga's outbox.
LEMMA NamedRow ==
  ASSUME Inv, NEW i \in DOMAIN Rows, Named(i)
  PROVE  /\ i - Requests \in DOMAIN outbox
         /\ TransferOf(i) \in Transfers
<1>1. i \in 1..(Requests + Len(outbox)) /\ i > Requests /\ Requests \in Nat
  BY EngineAssumption DEF Rows, Named
<1>2. outbox \in Seq(OutboxRow)
  BY DEF Inv, TypeOK, OutboxRow
<1>3. i - Requests \in DOMAIN outbox
  BY <1>1, <1>2
<1>4. PICK r : r = outbox[i - Requests]
  OBVIOUS
<1>5. r \in OutboxRow
  BY <1>3, <1>4, OutboxRows DEF Inv
<1>6. r.id \in Transfers
  BY <1>5 DEF OutboxRow
<1> QED
  BY <1>3, <1>4, <1>6 DEF TransferOf

\* A step of the engine is a step of the saga, or leaves it alone.
LEMMA StepIsSaga ==
  ASSUME AllInv, [EngineNext]_engineVars
  PROVE  [Next]_vars
<1>1. CASE \E i \in DOMAIN Rows : Publish(i)
  BY <1>1 DEF Publish
<1>2. CASE \E w \in Consumers, k \in DOMAIN msgs : Deliver(w, k)
  BY <1>2 DEF Deliver
<1>3. CASE \E k \in DOMAIN msgs : AckWait(k)
  BY <1>3 DEF AckWait
<1>4. ASSUME NEW w \in Consumers, Work(w) PROVE [Next]_vars
  <2>1. w \in Workers
    BY Members
  <2>2. ASSUME NEW k \in DOMAIN msgs, HandleExecute(w, k) PROVE [Next]_vars
    <3>1. msgs[k].row \in DOMAIN Rows /\ Named(msgs[k].row)
      BY <2>2 DEF AllInv, EngineInv, HandleExecute
    <3>2. TransferOf(msgs[k].row) \in Transfers
      BY <3>1, NamedRow DEF AllInv
    <3> QED
      BY <2>1, <2>2, <3>2 DEF HandleExecute, Next
  <2>3. CASE SagaStep(w)
    BY <2>1, <2>3 DEF SagaStep, Next
  <2> QED
    BY <1>4, <2>2, <2>3 DEF Work, HandleUnnamed, HandleSettled, Ack, Nak
<1>5. ASSUME NEW w \in Consumers, AnswerLost(w) \/ Crash(w) \/ Hang(w) PROVE [Next]_vars
  BY <1>5, Members DEF AnswerLost, Crash, Hang, Next
<1>6. ASSUME NEW w \in Workers, StepFails(w) PROVE [Next]_vars
  BY <1>6 DEF StepFails, Next
<1>7. ASSUME NEW d \in Callers, SagaStep(d) PROVE [Next]_vars
  BY <1>7, Members DEF SagaStep, Next
<1>8. ASSUME NEW d \in Callers, NEW id \in Transfers, Call(d, id) PROVE [Next]_vars
  BY <1>8, Members DEF Call, Next
<1>9. CASE UNCHANGED engineVars
  BY <1>9 DEF engineVars
<1> QED
  BY <1>1, <1>2, <1>3, <1>4, <1>5, <1>6, <1>7, <1>8, <1>9 DEF EngineNext

-----------------------------------------------------------------------------
(* What a step of the saga keeps for the messages.                         *)

\* The outbox changes only by a row that a worker writes.
LEMMA OnlyWrites ==
  ASSUME [Next]_vars, outbox' # outbox
  PROVE  \E w \in Workers : WriteOutbox(w)
BY DEF Next, Step, Execute, LockForUpdate, GetBalance, PostEntries, PostingRejected,
       BankAcknowledges, BankFails, UpdateState, UpdateConflict, AppendEvent, Abort,
       SaveAccount, vars

\* Rows of the outbox stay where and as they are.
LEMMA RowsStay ==
  ASSUME Inv, [Next]_vars
  PROVE  /\ outbox \in Seq(OutboxRow) /\ outbox' \in Seq(OutboxRow)
         /\ Len(outbox') >= Len(outbox)
         /\ \A i \in DOMAIN outbox : i \in DOMAIN outbox' /\ outbox'[i] = outbox[i]
<1>1. outbox \in Seq(OutboxRow) /\ outbox' \in Seq(OutboxRow)
  BY NextInv DEF Inv, TypeOK, OutboxRow
<1>2. CASE outbox' # outbox
  <2>1. PICK e : outbox' = Append(outbox, e)
    BY <1>2, OnlyWrites DEF WriteOutbox
  <2> QED
    BY <1>1, <2>1
<1> QED
  BY <1>1, <1>2

\* A settled transfer stays settled.
LEMMA StaysSettled ==
  ASSUME Inv, [Next]_vars, NEW t \in Transfers, IsSettled(t)
  PROVE  IsSettled(t)'
<1>1. CASE row' # row
  <2>1. PICK w \in Workers : UpdateState(w)
    BY <1>1, OnlyUpdates
  <2>2. PICK id, y : id = worker[w].id /\ y = worker[w].t
    OBVIOUS
  <2>3. row' = [row EXCEPT ![id] = y] /\ y.state \in validTransitions[row[id].state]
    BY <2>1, <2>2, UpdateMoves
  <2>4. t # id
    BY <2>3 DEF IsSettled, Terminal
  <2> QED
    BY <2>3, <2>4 DEF IsSettled, Inv, TypeOK
<1> QED
  BY <1>1 DEF IsSettled

\* A row keeps its place and its transfer, and stays superseded.
LEMMA RowKept ==
  ASSUME Inv, [Next]_vars, NEW i \in DOMAIN Rows
  PROVE  /\ i \in DOMAIN Rows'
         /\ Named(i) => TransferOf(i)' = TransferOf(i)
         /\ Named(i) /\ Superseded(i) => Superseded(i)'
<1>1. i \in DOMAIN Rows'
  BY RowsStay, EngineAssumption DEF Rows
<1> SUFFICES ASSUME Named(i)
             PROVE  TransferOf(i)' = TransferOf(i) /\ (Superseded(i) => Superseded(i)')
  BY <1>1
<1>2. i - Requests \in DOMAIN outbox /\ TransferOf(i) \in Transfers
  BY NamedRow
<1>3. TransferOf(i)' = TransferOf(i)
  BY <1>2, RowsStay DEF TransferOf
<1>4. PICK t \in Transfers : t = TransferOf(i)
  BY <1>2
<1>5. ASSUME IsSettled(t) PROVE Superseded(i)'
  BY <1>3, <1>4, <1>5, StaysSettled DEF Superseded
<1>6. ASSUME NEW j \in DOMAIN outbox, j > i - Requests, outbox[j].id = t
      PROVE  Superseded(i)'
  <2>1. j \in DOMAIN outbox' /\ outbox'[j].id = t
    BY <1>6, RowsStay
  <2> QED
    BY <2>1, <1>3, <1>4, <1>6 DEF Superseded
<1> QED
  BY <1>3, <1>4, <1>5, <1>6 DEF Superseded

-----------------------------------------------------------------------------
(* The invariant of the engine.                                            *)

\* Messages stay in the stream and keep their rows.
MsgsStay ==
  /\ msgs' \in Seq(Message)
  /\ \A k \in DOMAIN msgs : k \in DOMAIN msgs' /\ msgs'[k].row = msgs[k].row

\* What EngineTypeOK and EngineInv say of the job of worker w.
JobInv(w) ==
  /\ job[w].pc # "none" => job[w].msg \in DOMAIN msgs
  /\ job[w].pc = "call" /\ worker[w] # Idle =>
       Named(RowOf(w)) /\ worker[w].id = TransferOf(RowOf(w))
  /\ job[w].pc = "ok" => Named(RowOf(w)) /\ Superseded(RowOf(w))

\* A job stays right while its worker does nothing.
LEMMA OtherJob ==
  ASSUME AllInv, [Next]_vars, MsgsStay, NEW v \in Workers,
         job'[v] = job[v], worker'[v] = worker[v]
  PROVE  JobInv(v)'
<1>1. CASE job[v].pc = "none"
  BY <1>1 DEF JobInv
<1>2. CASE job[v].pc # "none"
  <2>1. job[v].msg \in DOMAIN msgs
    BY <1>2 DEF AllInv, EngineTypeOK
  <2>2. PICK i : i = RowOf(v)
    OBVIOUS
  <2>3. i \in DOMAIN Rows /\ RowOf(v)' = i /\ job'[v].msg \in DOMAIN msgs'
    BY <2>1, <2>2 DEF AllInv, EngineInv, RowOf, MsgsStay
  <2>4. /\ Named(i) => TransferOf(i)' = TransferOf(i)
        /\ Named(i) /\ Superseded(i) => Superseded(i)'
    BY <2>3, RowKept DEF AllInv
  <2>5. /\ job[v].pc = "call" /\ worker[v] # Idle => Named(i) /\ worker[v].id = TransferOf(i)
        /\ job[v].pc = "ok" => Named(i) /\ Superseded(i)
    BY <2>2 DEF AllInv, EngineInv
  <2>6. /\ job'[v].pc = "call" /\ worker'[v] # Idle =>
             Named(i) /\ worker'[v].id = TransferOf(i)'
        /\ job'[v].pc = "ok" => Named(i) /\ Superseded(i)'
    BY <2>4, <2>5
  <2> QED
    BY <2>3, <2>6 DEF JobInv, Named
<1> QED
  BY <1>1, <1>2

\* A step of the engine keeps the invariant when the jobs stay right, the
\* counters and buffers stay typed, and what it acks is superseded.
LEMMA EngineKept ==
  ASSUME AllInv, [Next]_vars, MsgsStay,
         buffer' \in [Consumers -> Seq(Nat)],
         \A w \in Consumers : \A i \in DOMAIN buffer'[w] : buffer'[w][i] \in DOMAIN msgs',
         job' \in [Workers -> [pc : {"none", "call", "ok", "err"}, msg : Nat]],
         \A w \in Workers : JobInv(w)',
         \A d \in Callers : job'[d] = NoJob,
         hung' \subseteq Consumers, calls' \in 0..MaxCalls, mishaps' \in 0..MaxMishaps,
         \A k \in DOMAIN msgs' : k \notin DOMAIN msgs =>
           msgs'[k].row \in DOMAIN Rows /\ msgs'[k].st # "acked",
         \A k \in DOMAIN msgs : msgs'[k].st = "acked" =>
           Named(msgs[k].row) /\ Superseded(msgs[k].row)
  PROVE  AllInv'
<1>1. Inv'
  BY NextInv DEF AllInv
<1>2. EngineTypeOK'
  BY DEF EngineTypeOK, MsgsStay, JobInv
<1>3. ASSUME NEW k \in DOMAIN msgs'
      PROVE  /\ msgs'[k].row \in DOMAIN Rows'
             /\ msgs'[k].st = "acked" => Named(msgs'[k].row) /\ Superseded(msgs[k].row)'
  <2>1. PICK i : i = msgs'[k].row
    OBVIOUS
  <2>2. i \in DOMAIN Rows
    BY <1>3, <2>1 DEF AllInv, EngineInv, MsgsStay
  <2>3. i \in DOMAIN Rows' /\ (Named(i) /\ Superseded(i) => Superseded(i)')
    BY <2>2, RowKept DEF AllInv
  <2>4. msgs'[k].st = "acked" => Named(i) /\ Superseded(i)
    BY <1>3, <2>1 DEF MsgsStay
  <2>5. msgs'[k].st = "acked" => Named(i) /\ Superseded(i)'
    BY <2>3, <2>4
  <2> QED
    BY <2>1, <2>3, <2>5 DEF Superseded, TransferOf
<1>4. EngineInv'
  <2>1. AckedIsSuperseded'
    BY <1>3 DEF AckedIsSuperseded, Named
  <2> QED
    BY <1>3, <2>1 DEF EngineInv, JobInv
<1> QED
  BY <1>1, <1>2, <1>4 DEF AllInv

Job == [pc : {"none", "call", "ok", "err"}, msg : Nat]

\* Only worker w does something, and its job is right after it.
LEMMA OneJob ==
  ASSUME AllInv, [Next]_vars, MsgsStay, NEW w \in Workers, NEW j \in Job,
         job' = [job EXCEPT ![w] = j], JobInv(w)', w \in Callers => j = NoJob,
         \A v \in Workers : v # w => worker'[v] = worker[v]
  PROVE  /\ job' \in [Workers -> [pc : {"none", "call", "ok", "err"}, msg : Nat]]
         /\ \A v \in Workers : JobInv(v)'
         /\ \A d \in Callers : job'[d] = NoJob
<1>1. job \in [Workers -> Job]
  BY DEF AllInv, EngineTypeOK, Job
<1>2. job' \in [Workers -> Job] /\ job'[w] = j /\ \A v \in Workers : v # w => job'[v] = job[v]
  BY <1>1
<1>3. \A v \in Workers : JobInv(v)'
  BY <1>2, OtherJob
<1>4. \A d \in Callers : job'[d] = NoJob
  BY <1>2, Members DEF AllInv, EngineInv
<1> QED
  BY <1>2, <1>3, <1>4 DEF Job

\* No worker does anything.
LEMMA NoOnesJob ==
  ASSUME AllInv, [Next]_vars, MsgsStay, UNCHANGED <<job, worker>>
  PROVE  /\ job' \in [Workers -> [pc : {"none", "call", "ok", "err"}, msg : Nat]]
         /\ \A v \in Workers : JobInv(v)'
         /\ \A d \in Callers : job'[d] = NoJob
BY OtherJob DEF AllInv, EngineTypeOK, EngineInv

\* What marking a message changes.
LEMMA Marking ==
  ASSUME AllInv, NEW k \in DOMAIN msgs, NEW st \in {"new", "out", "due", "acked"},
         Mark(k, st)
  PROVE  /\ MsgsStay /\ DOMAIN msgs' = DOMAIN msgs
         /\ msgs'[k].st = st
         /\ \A l \in DOMAIN msgs : l # k => msgs'[l] = msgs[l]
<1>1. msgs \in Seq(Message) /\ msgs' = [msgs EXCEPT ![k].st = st]
  BY DEF AllInv, EngineTypeOK, Mark
<1>2. PICK m : m = [msgs[k] EXCEPT !.st = st]
  OBVIOUS
<1>3. msgs[k] \in Message
  BY <1>1
<1>4. m \in Message /\ m.row = msgs[k].row /\ m.st = st
  BY <1>2, <1>3 DEF Message
<1>5. msgs' = [msgs EXCEPT ![k] = m]
  BY <1>1, <1>2
<1>6. msgs' \in Seq(Message) /\ DOMAIN msgs' = DOMAIN msgs
  BY <1>1, <1>4, <1>5
<1> QED
  BY <1>1, <1>4, <1>5, <1>6 DEF MsgsStay

\* What is acked already is superseded.
LEMMA AckedAlready ==
  ASSUME AllInv, NEW k \in DOMAIN msgs, msgs[k].st = "acked"
  PROVE  Named(msgs[k].row) /\ Superseded(msgs[k].row)
BY DEF AllInv, EngineInv, AckedIsSuperseded

\* Nothing happens to the messages.
LEMMA MsgsSame ==
  ASSUME AllInv, UNCHANGED msgs
  PROVE  /\ MsgsStay
         /\ \A k \in DOMAIN msgs' : k \notin DOMAIN msgs =>
              msgs'[k].row \in DOMAIN Rows /\ msgs'[k].st # "acked"
         /\ \A k \in DOMAIN msgs : msgs'[k].st = "acked" =>
              Named(msgs[k].row) /\ Superseded(msgs[k].row)
BY AckedAlready DEF MsgsStay, AllInv, EngineTypeOK

\* Buffers and counters that stay as they are stay typed.
LEMMA RestSame ==
  ASSUME AllInv, MsgsStay
  PROVE  /\ UNCHANGED buffer =>
              /\ buffer' \in [Consumers -> Seq(Nat)]
              /\ \A w \in Consumers : \A i \in DOMAIN buffer'[w] :
                   buffer'[w][i] \in DOMAIN msgs'
         /\ UNCHANGED hung => hung' \subseteq Consumers
         /\ UNCHANGED calls => calls' \in 0..MaxCalls
         /\ UNCHANGED mishaps \/ Mishap => mishaps' \in 0..MaxMishaps
<1>1. mishaps \in 0..MaxMishaps /\ MaxMishaps \in Nat
  BY EngineAssumption DEF AllInv, EngineTypeOK
<1>2. UNCHANGED mishaps \/ Mishap => mishaps' \in 0..MaxMishaps
  BY <1>1 DEF Mishap
<1> QED
  BY <1>2 DEF AllInv, EngineTypeOK, MsgsStay

\* The relay publishes a row.
LEMMA PublishInv ==
  ASSUME AllInv, NEW i \in DOMAIN Rows, Publish(i)
  PROVE  AllInv'
<1>1. [Next]_vars /\ UNCHANGED <<vars, buffer, job, hung, calls>>
  BY DEF Publish
<1>2. PICK m : m = [row |-> i, st |-> "new"]
  OBVIOUS
<1>3. msgs' = Append(msgs, m) /\ msgs \in Seq(Message)
  BY <1>2 DEF Publish, AllInv, EngineTypeOK
<1>4. m \in Message /\ m.row = i /\ m.st # "acked"
  BY <1>2, EngineAssumption DEF Message, Rows
<1>5. /\ MsgsStay
      /\ \A k \in DOMAIN msgs' : k \notin DOMAIN msgs => msgs'[k] = m
      /\ \A k \in DOMAIN msgs : msgs'[k] = msgs[k]
  BY <1>3, <1>4 DEF MsgsStay
<1>6. UNCHANGED mishaps \/ Mishap
  BY DEF Publish
<1>7. UNCHANGED <<job, worker>>
  BY <1>1 DEF vars
<1> QED
  BY <1>1, <1>4, <1>5, <1>6, <1>7, NoOnesJob, RestSame, AckedAlready, EngineKept

\* JetStream delivers a message.
LEMMA DeliverInv ==
  ASSUME AllInv, NEW w \in Consumers, NEW k \in DOMAIN msgs, Deliver(w, k)
  PROVE  AllInv'
<1>1. [Next]_vars /\ UNCHANGED <<vars, job, hung, calls, mishaps>> /\ Mark(k, "out")
  BY DEF Deliver
<1>2. /\ MsgsStay /\ DOMAIN msgs' = DOMAIN msgs
      /\ msgs'[k].st = "out" /\ \A l \in DOMAIN msgs : l # k => msgs'[l] = msgs[l]
  BY <1>1, Marking
<1>3. PICK q : q = Append(buffer[w], k)
  OBVIOUS
<1>4. buffer' = [buffer EXCEPT ![w] = q] /\ buffer \in [Consumers -> Seq(Nat)]
  BY <1>3 DEF Deliver, AllInv, EngineTypeOK
<1>5. k \in Nat /\ buffer[w] \in Seq(Nat)
        /\ \A i \in DOMAIN buffer[w] : buffer[w][i] \in DOMAIN msgs
  BY DEF AllInv, EngineTypeOK
<1>6. q \in Seq(Nat) /\ \A i \in DOMAIN q : q[i] \in DOMAIN msgs
  BY <1>3, <1>5
<1>7. /\ buffer' \in [Consumers -> Seq(Nat)]
      /\ \A v \in Consumers : \A i \in DOMAIN buffer'[v] : buffer'[v][i] \in DOMAIN msgs'
  BY <1>2, <1>4, <1>6 DEF AllInv, EngineTypeOK
<1>8. UNCHANGED <<job, worker>>
  BY <1>1 DEF vars
<1> QED
  BY <1>1, <1>2, <1>7, <1>8, NoOnesJob, RestSame, AckedAlready, EngineKept

\* AckWait is over.
LEMMA AckWaitInv ==
  ASSUME AllInv, NEW k \in DOMAIN msgs, AckWait(k)
  PROVE  AllInv'
<1>1. [Next]_vars /\ UNCHANGED <<vars, buffer, job, hung, calls>> /\ Mark(k, "due")
  BY DEF AckWait
<1>2. /\ MsgsStay /\ DOMAIN msgs' = DOMAIN msgs
      /\ msgs'[k].st = "due" /\ \A l \in DOMAIN msgs : l # k => msgs'[l] = msgs[l]
  BY <1>1, Marking
<1>3. UNCHANGED mishaps \/ Mishap
  BY DEF AckWait
<1>4. UNCHANGED <<job, worker>>
  BY <1>1 DEF vars
<1> QED
  BY <1>1, <1>2, <1>3, <1>4, NoOnesJob, RestSame, AckedAlready, EngineKept

\* The message that a worker takes leaves its buffer; the rest follows from
\* its job being right.
LEMMA HandleInv ==
  ASSUME AllInv, [Next]_vars, NEW w \in Consumers, NEW k \in DOMAIN msgs,
         NEW pc \in {"call", "ok", "err"}, Handle(w, k, pc),
         \A v \in Workers : v # w => worker'[v] = worker[v],
         pc = "call" /\ worker'[w] # Idle =>
           Named(msgs[k].row) /\ worker'[w].id = TransferOf(msgs[k].row),
         pc = "ok" => Named(msgs[k].row) /\ Superseded(msgs[k].row)
  PROVE  AllInv'
<1>1. UNCHANGED <<msgs, hung, calls, mishaps>> /\ buffer[w] # <<>>
  BY DEF Handle
<1>2. PICK q : q = Tail(buffer[w])
  OBVIOUS
<1>3. buffer' = [buffer EXCEPT ![w] = q] /\ buffer \in [Consumers -> Seq(Nat)]
  BY <1>2 DEF Handle, AllInv, EngineTypeOK
<1>4. buffer[w] \in Seq(Nat) /\ \A i \in DOMAIN buffer[w] : buffer[w][i] \in DOMAIN msgs
  BY DEF AllInv, EngineTypeOK
<1>5. q \in Seq(Nat) /\ \A i \in DOMAIN q : q[i] \in DOMAIN msgs
  BY <1>1, <1>2, <1>4
<1>6. /\ buffer' \in [Consumers -> Seq(Nat)]
      /\ \A v \in Consumers : \A i \in DOMAIN buffer'[v] : buffer'[v][i] \in DOMAIN msgs'
  BY <1>1, <1>3, <1>5 DEF AllInv, EngineTypeOK
<1>7. MsgsStay
  BY <1>1, MsgsSame
<1>8. PICK j : j = [pc |-> pc, msg |-> k]
  OBVIOUS
<1>9. j \in Job /\ job' = [job EXCEPT ![w] = j] /\ j.pc = pc /\ j.msg = k
  <2>1. msgs \in Seq(Message)
    BY DEF AllInv, EngineTypeOK
  <2>2. k \in Nat
    BY <2>1
  <2>3. j \in Job /\ j.pc = pc /\ j.msg = k
    BY <1>8, <2>2 DEF Job
  <2>4. job' = [job EXCEPT ![w] = j]
    BY <1>8 DEF Handle
  <2> QED
    BY <2>3, <2>4
<1>10. w \in Workers /\ w \notin Callers
  BY Members DEF Consumers
<1>11. job'[w] = j
  BY <1>9, <1>10 DEF AllInv, EngineTypeOK
<1>12. PICK i : i = msgs[k].row
  OBVIOUS
<1>13. i \in DOMAIN Rows /\ RowOf(w)' = i
  BY <1>1, <1>9, <1>11, <1>12 DEF RowOf, AllInv, EngineInv
<1>14. /\ Named(i) => TransferOf(i)' = TransferOf(i)
       /\ Named(i) /\ Superseded(i) => Superseded(i)'
  BY <1>13, RowKept DEF AllInv
<1>15. /\ job'[w].pc = "call" /\ worker'[w] # Idle =>
             Named(i) /\ worker'[w].id = TransferOf(i)'
       /\ job'[w].pc = "ok" => Named(i) /\ Superseded(i)'
       /\ job'[w].msg \in DOMAIN msgs'
  BY <1>1, <1>9, <1>11, <1>12, <1>14
<1>16. JobInv(w)'
  BY <1>13, <1>15 DEF JobInv, Named
<1>17. /\ job' \in [Workers -> [pc : {"none", "call", "ok", "err"}, msg : Nat]]
       /\ \A v \in Workers : JobInv(v)'
       /\ \A d \in Callers : job'[d] = NoJob
  BY <1>7, <1>9, <1>10, <1>16, OneJob
<1> QED
  BY <1>1, <1>6, <1>7, <1>17, MsgsSame, RestSame, EngineKept

\* A step is for the transfer that Execute is called with.
LEMMA FirstCallId ==
  ASSUME NEW id, NEW x
  PROVE  FirstCall(id, x) = Idle \/ FirstCall(id, x).id = id
BY DEF FirstCall, At, Advance, compensate, failWith

\* A worker takes a message, whatever the handler does with it at first.
LEMMA HandleAllInv ==
  ASSUME AllInv, NEW w \in Consumers, NEW k \in DOMAIN msgs,
         HandleUnnamed(w, k) \/ HandleSettled(w, k) \/ HandleExecute(w, k)
  PROVE  AllInv'
<1>1. CASE HandleUnnamed(w, k)
  <2>1. UNCHANGED worker /\ [Next]_vars /\ Handle(w, k, "err")
    BY <1>1 DEF HandleUnnamed, vars
  <2> QED
    BY <2>1, HandleInv
<1>2. CASE HandleSettled(w, k)
  <2>1. UNCHANGED worker /\ [Next]_vars /\ Handle(w, k, "ok")
    BY <1>2 DEF HandleSettled, vars
  <2>2. Named(msgs[k].row) /\ Superseded(msgs[k].row)
    BY <1>2 DEF HandleSettled, Superseded, IsSettled
  <2> QED
    BY <2>1, <2>2, HandleInv
<1>3. CASE HandleExecute(w, k)
  <2>1. Handle(w, k, "call") /\ Named(msgs[k].row)
    BY <1>3 DEF HandleExecute
  <2>2. PICK id : id = TransferOf(msgs[k].row)
    OBVIOUS
  <2>3. Execute(w, id) /\ w \in Workers
    BY <1>3, <2>2, Members DEF HandleExecute
  <2>4. id \in Transfers
    BY <2>1, <2>2, NamedRow DEF AllInv, EngineInv
  <2>5. worker' = [worker EXCEPT ![w] = FirstCall(id, row[id])] /\ worker \in [Workers -> {Idle} \cup Task]
    BY <2>3 DEF Execute, Goto, AllInv, Inv, TypeOK
  <2>6. /\ \A v \in Workers : v # w => worker'[v] = worker[v]
        /\ worker'[w] = FirstCall(id, row[id])
    BY <2>3, <2>5
  <2>7. worker'[w] # Idle => worker'[w].id = id
    BY <2>6, FirstCallId
  <2>8. [Next]_vars
    BY <2>3, <2>4 DEF Next
  <2> QED
    BY <2>1, <2>2, <2>6, <2>7, <2>8, HandleInv
<1> QED
  BY <1>1, <1>2, <1>3

\* What follows a posting or a bank call is for the same transfer.
LEMMA SameId ==
  ASSUME NEW id, NEW x, NEW r, NEW s
  PROVE  /\ Advance(id, x, s) = Idle \/ Advance(id, x, s).id = id
         /\ failWith(id, x, r) = Idle \/ failWith(id, x, r).id = id
         /\ compensate(id, x) = Idle \/ compensate(id, x).id = id
         /\ AfterPosting(id, x) = Idle \/ AfterPosting(id, x).id = id
BY DEF At, Advance, failWith, compensate, AfterPosting

\* A step of the saga moves one worker, on with the same transfer or out of
\* Execute.
LEMMA StepMoves ==
  ASSUME AllInv, NEW w \in Workers, Step(w)
  PROVE  /\ worker[w] # Idle
         /\ \A v \in Workers : v # w => worker'[v] = worker[v]
         /\ worker'[w] # Idle => worker'[w].id = worker[w].id
         /\ worker[w].pc = "outbox" => WriteOutbox(w)
<1>1. worker \in [Workers -> {Idle} \cup Task]
  BY DEF AllInv, Inv, TypeOK
<1>2. worker[w] # Idle
  <2>1. worker[w].pc \in {"lock", "balance", "post", "bank", "update", "append", "outbox"}
    BY Zenon DEF Step, LockForUpdate, GetBalance, PostEntries, PostingRejected,
                 BankAcknowledges, BankFails, UpdateState, UpdateConflict, AppendEvent,
                 WriteOutbox
  <2>2. Idle.pc = "idle"
    BY DEF Idle
  <2> QED
    BY <2>1, <2>2
<1>3. worker[w].pc = "outbox" => WriteOutbox(w)
  BY DEF Step, LockForUpdate, GetBalance, PostEntries, PostingRejected, BankAcknowledges,
         BankFails, UpdateState, UpdateConflict, AppendEvent
<1>4. \E k : Goto(w, k) /\ (k = Idle \/ k.id = worker[w].id)
  <2>1. CASE LockForUpdate(w)
    <3>1. PICK x, y, k : /\ x = At("balance", worker[w].id, worker[w].t, <<>>)
                         /\ y = failWith(worker[w].id, worker[w].t, "account")
                         /\ Goto(w, k) /\ (k = x \/ k = y)
      BY <2>1 DEF LockForUpdate
    <3>2. x.id = worker[w].id
      BY <3>1 DEF At
    <3>3. y = Idle \/ y.id = worker[w].id
      BY <3>1, SameId
    <3> QED
      BY <3>1, <3>2, <3>3
  <2>2. CASE GetBalance(w)
    <3>1. PICK x, y, k : /\ x = failWith(worker[w].id, worker[w].t, "funds")
                         /\ y = At("post", worker[w].id, worker[w].t, <<"debit">>)
                         /\ Goto(w, k) /\ (k = x \/ k = y)
      BY <2>2 DEF GetBalance
    <3>2. x = Idle \/ x.id = worker[w].id
      BY <3>1, SameId
    <3>3. y.id = worker[w].id
      BY <3>1 DEF At
    <3> QED
      BY <3>1, <3>2, <3>3
  <2>3. CASE PostEntries(w)
    <3>1. PICK x, y, k : /\ x = At("post", worker[w].id, worker[w].t, Tail(worker[w].legs))
                         /\ y = AfterPosting(worker[w].id, worker[w].t)
                         /\ Goto(w, k) /\ (k = x \/ k = y)
      BY <2>3 DEF PostEntries
    <3>2. x.id = worker[w].id
      BY <3>1 DEF At
    <3>3. y = Idle \/ y.id = worker[w].id
      BY <3>1, SameId
    <3> QED
      BY <3>1, <3>2, <3>3
  <2>4. CASE PostingRejected(w) \/ UpdateConflict(w) \/ WriteOutbox(w)
    BY <2>4 DEF PostingRejected, UpdateConflict, WriteOutbox
  <2>5. CASE BankAcknowledges(w)
    BY <2>5, SameId DEF BankAcknowledges
  <2>6. CASE BankFails(w)
    BY <2>6, SameId DEF BankFails
  <2>7. CASE UpdateState(w)
    <3>1. PICK x, y, k : /\ x = compensate(worker[w].id, worker[w].t)
                         /\ y = At("append", worker[w].id, worker[w].t, <<>>)
                         /\ Goto(w, k) /\ (k = x \/ k = y)
      BY <2>7 DEF UpdateState
    <3>2. x = Idle \/ x.id = worker[w].id
      BY <3>1, SameId
    <3>3. y.id = worker[w].id
      BY <3>1 DEF At
    <3> QED
      BY <3>1, <3>2, <3>3
  <2>8. CASE AppendEvent(w)
    <3>1. PICK k : /\ k = At("outbox", worker[w].id, worker[w].t, <<>>)
                   /\ Goto(w, k)
      BY <2>8 DEF AppendEvent
    <3>2. k.id = worker[w].id
      BY <3>1 DEF At
    <3> QED
      BY <3>1, <3>2
  <2> QED
    BY <2>1, <2>2, <2>3, <2>4, <2>5, <2>6, <2>7, <2>8 DEF Step
<1>5. PICK k : worker' = [worker EXCEPT ![w] = k] /\ (k = Idle \/ k.id = worker[w].id)
  BY <1>4 DEF Goto
<1>6. worker'[w] = k /\ \A v \in Workers : v # w => worker'[v] = worker[v]
  BY <1>1, <1>5
<1> QED
  BY <1>2, <1>3, <1>5, <1>6

\* Execute returns nil when it has written the outbox row that takes the
\* transfer further.
LEMMA ReturnsAnnounced ==
  ASSUME AllInv, NEW w \in Workers, WriteOutbox(w), [Next]_vars,
         NEW i \in DOMAIN Rows, Named(i), worker[w].id = TransferOf(i)
  PROVE  Superseded(i)'
<1>1. PICK e : outbox' = Append(outbox, e) /\ e.id = worker[w].id
  BY DEF WriteOutbox
<1>2. outbox \in Seq(OutboxRow) /\ outbox' \in Seq(OutboxRow)
  BY RowsStay DEF AllInv
<1>3. TransferOf(i)' = TransferOf(i) /\ i - Requests \in DOMAIN outbox
  BY RowKept, NamedRow DEF AllInv
<1>4. PICK n : n = Len(outbox) + 1
  OBVIOUS
<1>5. n \in DOMAIN outbox' /\ outbox'[n] = e /\ n > i - Requests
  <2>1. n \in DOMAIN outbox' /\ outbox'[n] = e
    BY <1>1, <1>2, <1>4
  <2>2. i - Requests \in 1..Len(outbox) /\ Len(outbox) \in Nat
    BY <1>2, <1>3
  <2> QED
    BY <1>4, <2>1, <2>2
<1> QED
  BY <1>1, <1>3, <1>5 DEF Superseded

\* A worker or a direct caller goes on with its step.
LEMMA SagaStepInv ==
  ASSUME AllInv, NEW w \in Workers, SagaStep(w)
  PROVE  AllInv'
<1>1. Step(w) /\ [Next]_vars /\ UNCHANGED <<msgs, buffer, hung, calls, mishaps>> /\ Returns(w)
  BY DEF SagaStep, Next
<1>2. MsgsStay
  BY <1>1, MsgsSame
<1>3. /\ worker[w] # Idle
      /\ \A v \in Workers : v # w => worker'[v] = worker[v]
      /\ worker'[w] # Idle => worker'[w].id = worker[w].id
      /\ worker[w].pc = "outbox" => WriteOutbox(w)
  BY <1>1, StepMoves
<1>4. job \in [Workers -> Job] /\ job[w] \in Job
  BY DEF AllInv, EngineTypeOK, Job
<1>5. PICK i : i = RowOf(w)
  OBVIOUS
<1>6. CASE job[w].pc = "call"
  <2>1. job[w].msg \in DOMAIN msgs /\ Named(i) /\ worker[w].id = TransferOf(i) /\ w \notin Callers
    <3>1. JobInv(w) /\ \A d \in Callers : job[d] = NoJob
      BY Zenon DEF AllInv, EngineTypeOK, EngineInv, JobInv
    <3>2. NoJob.pc = "none"
      BY DEF NoJob
    <3> QED
      BY <1>3, <1>5, <1>6, <3>1, <3>2 DEF JobInv
  <2>2. i \in DOMAIN Rows
    BY <2>1, <1>5 DEF AllInv, EngineInv, RowOf
  <2>3. PICK j : j = IF worker'[w] = Idle
                     THEN [job[w] EXCEPT !.pc = IF worker[w].pc = "outbox" THEN "ok" ELSE "err"]
                     ELSE job[w]
    OBVIOUS
  <2>4. j \in Job /\ j.msg = job[w].msg
    BY <2>3, <1>4 DEF Job
  <2>5. j.pc = "ok" => worker[w].pc = "outbox"
    BY <2>3, <1>4, <1>6 DEF Job
  <2>6. job' = [job EXCEPT ![w] = j]
    <3>1. CASE worker'[w] = Idle
      BY <3>1, <2>3, <1>1, <1>4, <1>6 DEF Returns, Says
    <3>2. CASE worker'[w] # Idle
      BY <3>2, <2>3, <1>1, <1>4, <1>6 DEF Returns
    <3> QED
      BY <3>1, <3>2
  <2>7. job'[w] = j
    BY <2>6, <1>4
  <2>8. RowOf(w)' = i
    BY <1>1, <1>5, <2>4, <2>7 DEF RowOf
  <2>9. j.pc = "ok" => Superseded(i)'
    BY <1>1, <1>3, <2>1, <2>2, <2>5, ReturnsAnnounced
  <2>10. TransferOf(i)' = TransferOf(i)
    BY <1>1, <2>1, <2>2, RowKept DEF AllInv
  <2>11. /\ job'[w].pc = "call" /\ worker'[w] # Idle =>
              Named(i) /\ worker'[w].id = TransferOf(i)'
         /\ job'[w].pc = "ok" => Named(i) /\ Superseded(i)'
         /\ job'[w].msg \in DOMAIN msgs'
    BY <1>1, <1>3, <2>1, <2>4, <2>7, <2>9, <2>10
  <2>12. JobInv(w)'
    BY <2>8, <2>11 DEF JobInv, Named
  <2>13. /\ job' \in [Workers -> [pc : {"none", "call", "ok", "err"}, msg : Nat]]
         /\ \A v \in Workers : JobInv(v)'
         /\ \A d \in Callers : job'[d] = NoJob
    BY <1>1, <1>2, <1>3, <2>1, <2>4, <2>6, <2>12, OneJob
  <2> QED
    BY <1>1, <1>2, <2>13, MsgsSame, RestSame, EngineKept
<1>7. CASE job[w].pc # "call"
  <2>1. UNCHANGED job
    BY <1>1, <1>7 DEF Returns
  <2>2. JobInv(w)'
    <3>1. job[w].pc # "none" => job[w].msg \in DOMAIN msgs
      BY DEF AllInv, EngineTypeOK
    <3>2. job[w].pc = "ok" => Named(i) /\ Superseded(i) /\ i \in DOMAIN Rows
      BY <1>5, <3>1 DEF AllInv, EngineInv, RowOf
    <3>3. job[w].pc = "ok" => Named(i) /\ Superseded(i)'
      BY <1>1, <3>2, RowKept DEF AllInv
    <3>4. RowOf(w)' = i
      BY <1>1, <1>5, <2>1 DEF RowOf
    <3> QED
      BY <1>1, <1>7, <2>1, <3>1, <3>3, <3>4 DEF JobInv, Named
  <2>3. job' = [job EXCEPT ![w] = job[w]] /\ (w \in Callers => job[w] = NoJob)
    BY <2>1, <1>4 DEF AllInv, EngineInv
  <2>4. /\ job' \in [Workers -> [pc : {"none", "call", "ok", "err"}, msg : Nat]]
        /\ \A v \in Workers : JobInv(v)'
        /\ \A d \in Callers : job'[d] = NoJob
    BY <1>1, <1>2, <1>3, <1>4, <2>2, <2>3, OneJob
  <2> QED
    BY <1>1, <1>2, <2>4, MsgsSame, RestSame, EngineKept
<1> QED
  BY <1>6, <1>7

\* A worker that drops its job, or says that it has failed, is right.
LEMMA Drops ==
  ASSUME AllInv, [Next]_vars, MsgsStay, NEW w \in Workers, NEW j \in Job,
         job' = [job EXCEPT ![w] = j],
         j = NoJob \/ (j.pc = "err" /\ j.msg \in DOMAIN msgs /\ w \notin Callers),
         \A v \in Workers : v # w => worker'[v] = worker[v]
  PROVE  /\ job' \in [Workers -> [pc : {"none", "call", "ok", "err"}, msg : Nat]]
         /\ \A v \in Workers : JobInv(v)'
         /\ \A d \in Callers : job'[d] = NoJob
<1>1. job'[w] = j
  BY DEF AllInv, EngineTypeOK
<1>2. JobInv(w)'
  <2>1. NoJob.pc = "none"
    BY DEF NoJob
  <2> QED
    BY <1>1, <2>1 DEF JobInv, MsgsStay
<1> QED
  BY <1>2, OneJob

\* NoJob is a job.
LEMMA NoJobIsJob == NoJob \in Job
BY DEF NoJob, Job

\* A call that is cut short changes the worker only.
LEMMA AbortMoves ==
  ASSUME AllInv, NEW w \in Workers, Abort(w)
  PROVE  worker'[w] = Idle /\ \A v \in Workers : v # w => worker'[v] = worker[v]
BY DEF Abort, Goto, AllInv, Inv, TypeOK

\* A repository call fails.
LEMMA StepFailsInv ==
  ASSUME AllInv, NEW w \in Workers, StepFails(w)
  PROVE  AllInv'
<1>1. /\ Abort(w) /\ [Next]_vars /\ UNCHANGED <<msgs, buffer, hung, calls>> /\ Mishap
      /\ \A v \in Workers : v # w => worker'[v] = worker[v]
      /\ worker'[w] = Idle
  BY AbortMoves DEF StepFails, Next
<1>2. MsgsStay
  BY <1>1, MsgsSame
<1>3. job \in [Workers -> Job] /\ job[w] \in Job
  BY DEF AllInv, EngineTypeOK, Job
<1>4. PICK j : j = IF job[w].pc = "call" THEN [job[w] EXCEPT !.pc = "err"] ELSE job[w]
  OBVIOUS
<1>5. j \in Job /\ job' = [job EXCEPT ![w] = j]
  BY <1>3, <1>4 DEF StepFails, Job
<1>6. CASE job[w].pc = "call"
  <2>1. j.pc = "err" /\ j.msg \in DOMAIN msgs /\ w \notin Callers
    BY <1>3, <1>4, <1>6 DEF AllInv, EngineTypeOK, EngineInv, NoJob, Job
  <2>2. /\ job' \in [Workers -> [pc : {"none", "call", "ok", "err"}, msg : Nat]]
        /\ \A v \in Workers : JobInv(v)'
        /\ \A d \in Callers : job'[d] = NoJob
    BY <1>1, <1>2, <1>5, <2>1, Drops
  <2> QED
    BY <1>1, <1>2, <2>2, MsgsSame, RestSame, EngineKept
<1>7. CASE job[w].pc # "call"
  <2>1. UNCHANGED job
    BY <1>3, <1>4, <1>5, <1>7
  <2>2. JobInv(w)'
    <3>1. PICK i : i = RowOf(w)
      OBVIOUS
    <3>2. job[w].pc # "none" => job[w].msg \in DOMAIN msgs
      BY DEF AllInv, EngineTypeOK
    <3>3. job[w].pc = "ok" => Named(i) /\ Superseded(i) /\ i \in DOMAIN Rows
      BY <3>1, <3>2 DEF AllInv, EngineInv, RowOf
    <3>4. job[w].pc = "ok" => Named(i) /\ Superseded(i)'
      BY <1>1, <3>3, RowKept DEF AllInv
    <3>5. RowOf(w)' = i
      BY <1>1, <2>1, <3>1 DEF RowOf
    <3> QED
      BY <1>1, <1>7, <2>1, <3>2, <3>4, <3>5 DEF JobInv, Named
  <2>3. w \in Callers => j = NoJob
    BY <1>4, <1>7 DEF AllInv, EngineInv
  <2>4. /\ job' \in [Workers -> [pc : {"none", "call", "ok", "err"}, msg : Nat]]
        /\ \A v \in Workers : JobInv(v)'
        /\ \A d \in Callers : job'[d] = NoJob
    BY <1>1, <1>2, <1>5, <2>2, <2>3, OneJob
  <2> QED
    BY <1>1, <1>2, <2>4, MsgsSame, RestSame, EngineKept
<1> QED
  BY <1>6, <1>7

\* The bank keeps a worker waiting.
LEMMA HangInv ==
  ASSUME AllInv, NEW w \in Consumers, Hang(w)
  PROVE  AllInv'
<1>1. [Next]_vars /\ UNCHANGED <<job, worker>> /\ UNCHANGED <<msgs, buffer, calls>> /\ Mishap
  BY DEF Hang, vars
<1>2. MsgsStay /\ hung' \subseteq Consumers
  BY <1>1, MsgsSame DEF Hang, AllInv, EngineTypeOK
<1> QED
  BY <1>1, <1>2, NoOnesJob, MsgsSame, RestSame, EngineKept

\* The handler's answer reaches the server: an ack only for a message that is
\* superseded.
LEMMA AnswerInv ==
  ASSUME AllInv, NEW w \in Consumers, Ack(w) \/ Nak(w) \/ AnswerLost(w)
  PROVE  AllInv'
<1>1. /\ [Next]_vars /\ UNCHANGED worker /\ UNCHANGED <<buffer, hung, calls>>
      /\ UNCHANGED mishaps \/ Mishap
      /\ job' = [job EXCEPT ![w] = NoJob] /\ w \in Workers
  BY Members DEF Ack, Nak, AnswerLost, vars
<1>2. PICK k : k = job[w].msg
  OBVIOUS
<1>3. k \in DOMAIN msgs /\ (job[w].pc = "ok" => Named(msgs[k].row) /\ Superseded(msgs[k].row))
  BY <1>1, <1>2 DEF Ack, Nak, AnswerLost, AllInv, EngineTypeOK, EngineInv, RowOf
<1>4. /\ MsgsStay
      /\ \A l \in DOMAIN msgs' : l \notin DOMAIN msgs =>
           msgs'[l].row \in DOMAIN Rows /\ msgs'[l].st # "acked"
      /\ \A l \in DOMAIN msgs : msgs'[l].st = "acked" =>
           Named(msgs[l].row) /\ Superseded(msgs[l].row)
  <2>1. CASE UNCHANGED msgs
    BY <2>1, MsgsSame
  <2>2. CASE Ack(w)
    <3>1. Mark(k, "acked") /\ job[w].pc = "ok"
      BY <2>2, <1>2 DEF Ack
    <3>2. /\ MsgsStay /\ DOMAIN msgs' = DOMAIN msgs
          /\ \A l \in DOMAIN msgs : l # k => msgs'[l] = msgs[l]
      BY <3>1, <1>3, Marking
    <3> QED
      BY <3>1, <3>2, <1>3, AckedAlready
  <2>3. CASE Mark(k, "due")
    <3>1. /\ MsgsStay /\ DOMAIN msgs' = DOMAIN msgs /\ msgs'[k].st = "due"
          /\ \A l \in DOMAIN msgs : l # k => msgs'[l] = msgs[l]
      BY <2>3, <1>3, Marking
    <3> QED
      BY <3>1, AckedAlready
  <2> QED
    BY <2>1, <2>2, <2>3, <1>2 DEF Nak, AnswerLost
<1>5. /\ job' \in [Workers -> [pc : {"none", "call", "ok", "err"}, msg : Nat]]
      /\ \A v \in Workers : JobInv(v)'
      /\ \A d \in Callers : job'[d] = NoJob
  BY <1>1, <1>4, NoJobIsJob, Drops
<1> QED
  BY <1>1, <1>4, <1>5, RestSame, EngineKept

\* A worker dies: its buffer is lost, its messages are not.
LEMMA CrashInv ==
  ASSUME AllInv, NEW w \in Consumers, Crash(w)
  PROVE  AllInv'
<1>1. /\ w \in Workers /\ UNCHANGED <<msgs, calls>> /\ Mishap
      /\ job' = [job EXCEPT ![w] = NoJob]
      /\ buffer' = [buffer EXCEPT ![w] = <<>>] /\ hung' = hung \ {w}
  BY Members DEF Crash
<1>2. [Next]_vars /\ \A v \in Workers : v # w => worker'[v] = worker[v]
  <2>1. CASE UNCHANGED vars
    BY <2>1 DEF vars
  <2>2. CASE Abort(w)
    BY <1>1, <2>2, AbortMoves DEF Next
  <2> QED
    BY <2>1, <2>2 DEF Crash
<1>3. MsgsStay
  BY <1>1, MsgsSame
<1>4. /\ job' \in [Workers -> [pc : {"none", "call", "ok", "err"}, msg : Nat]]
      /\ \A v \in Workers : JobInv(v)'
      /\ \A d \in Callers : job'[d] = NoJob
  BY <1>1, <1>2, <1>3, NoJobIsJob, Drops
<1>5. /\ buffer' \in [Consumers -> Seq(Nat)]
      /\ \A v \in Consumers : \A i \in DOMAIN buffer'[v] : buffer'[v][i] \in DOMAIN msgs'
  BY <1>1 DEF AllInv, EngineTypeOK
<1>6. hung' \subseteq Consumers
  BY <1>1 DEF AllInv, EngineTypeOK
<1> QED
  BY <1>1, <1>2, <1>3, <1>4, <1>5, <1>6, MsgsSame, RestSame, EngineKept

\* Execute is called without a message.
LEMMA CallInv ==
  ASSUME AllInv, NEW d \in Callers, NEW id \in Transfers, Call(d, id)
  PROVE  AllInv'
<1>1. /\ d \in Workers /\ [Next]_vars /\ UNCHANGED <<msgs, buffer, job, hung, mishaps>>
      /\ \A v \in Workers : v # d => worker'[v] = worker[v]
  BY Members DEF Call, Execute, Goto, Next, AllInv, Inv, TypeOK
<1>2. MsgsStay
  BY <1>1, MsgsSame
<1>3. calls' \in 0..MaxCalls
  BY EngineAssumption DEF Call, AllInv, EngineTypeOK
<1>4. job[d] = NoJob /\ job' = [job EXCEPT ![d] = NoJob]
  BY <1>1 DEF AllInv, EngineInv, EngineTypeOK
<1>5. /\ job' \in [Workers -> [pc : {"none", "call", "ok", "err"}, msg : Nat]]
      /\ \A v \in Workers : JobInv(v)'
      /\ \A c \in Callers : job'[c] = NoJob
  BY <1>1, <1>2, <1>4, NoJobIsJob, Drops
<1> QED
  BY <1>1, <1>2, <1>3, <1>5, MsgsSame, RestSame, EngineKept

-----------------------------------------------------------------------------
(* The theorems.                                                           *)

\* The initial states satisfy the invariant.
LEMMA EngineInitInv == EngineInit => AllInv
<1> SUFFICES ASSUME EngineInit PROVE AllInv
  OBVIOUS
<1>1. Inv
  BY InitInv DEF EngineInit
<1>2. job = [w \in Workers |-> NoJob] /\ NoJob \in Job /\ NoJob.pc = "none"
  BY NoJobIsJob DEF EngineInit, NoJob
<1>3. EngineTypeOK
  <2>1. /\ msgs = <<>> /\ buffer = [w \in Consumers |-> <<>>] /\ hung = {}
        /\ calls = 0 /\ mishaps = 0
    BY Zenon DEF EngineInit
  <2>2. msgs \in Seq(Message) /\ DOMAIN <<>> = {} /\ <<>> \in Seq(Nat)
    BY <2>1
  <2>3. buffer \in [Consumers -> Seq(Nat)]
        /\ \A w \in Consumers : \A i \in DOMAIN buffer[w] : buffer[w][i] \in DOMAIN msgs
    BY <2>1, <2>2
  <2>4. job \in [Workers -> [pc : {"none", "call", "ok", "err"}, msg : Nat]]
    BY <1>2 DEF Job
  <2>5. calls \in 0..MaxCalls /\ mishaps \in 0..MaxMishaps
    BY <2>1, EngineAssumption
  <2> QED
    BY <1>2, <2>1, <2>2, <2>3, <2>4, <2>5 DEF EngineTypeOK
<1>4. EngineInv
  BY <1>2, Members DEF EngineInit, EngineInv, AckedIsSuperseded
<1> QED
  BY <1>1, <1>3, <1>4 DEF AllInv

\* Every step preserves it.
LEMMA EngineNextInv == AllInv /\ [EngineNext]_engineVars => AllInv'
<1> SUFFICES ASSUME AllInv, [EngineNext]_engineVars PROVE AllInv'
  OBVIOUS
<1>1. ASSUME NEW w \in Consumers, Work(w) PROVE AllInv'
  BY <1>1, Members, HandleAllInv, SagaStepInv, AnswerInv DEF Work
<1>2. ASSUME NEW w \in Consumers, AnswerLost(w) \/ Crash(w) \/ Hang(w) PROVE AllInv'
  BY <1>2, AnswerInv, CrashInv, HangInv
<1>3. CASE UNCHANGED engineVars
  <2>1. [Next]_vars /\ UNCHANGED <<msgs, buffer, job, hung, calls, mishaps, worker>>
    BY <1>3 DEF engineVars, queueVars, vars
  <2>2. MsgsStay
    BY <2>1, MsgsSame
  <2> QED
    BY <2>1, <2>2, NoOnesJob, MsgsSame, RestSame, EngineKept
<1> QED
  BY <1>1, <1>2, <1>3, Members, PublishInv, DeliverInv, AckWaitInv, StepFailsInv,
     SagaStepInv, CallInv DEF EngineNext

\* The invariants of the engine and of the saga in it hold of every state: a
\* handler executes the transfer that its message names, and says nil only
\* when the message is superseded.
THEOREM EngineInvariance == EngineSpec => []AllInv
BY EngineInitInv, EngineNextInv, PTL DEF EngineSpec

\* Every variable keeps its type: a worker never handles a message that is
\* not in the stream.
THEOREM EngineTypes == EngineSpec => []EngineTypeOK
<1>1. AllInv => EngineTypeOK
  BY DEF AllInv
<1> QED
  BY <1>1, EngineInvariance, PTL

\* The engine implements the saga: all that is proved of it, whatever calls
\* Execute, holds of the transfers that the engine's messages drive.
THEOREM EngineIsSaga == EngineSpec => Spec
<1>1. EngineInit => Init
  BY DEF EngineInit
<1>2. AllInv /\ [EngineNext]_engineVars => [Next]_vars
  BY StepIsSaga
<1> QED
  BY <1>1, <1>2, EngineInvariance, PTL DEF EngineSpec, Spec

\* Subscribe acks a message only when it is no longer needed.
THEOREM AckIsSafe == EngineSpec => []AckedIsSuperseded
<1>1. AllInv => AckedIsSuperseded
  BY DEF AllInv, EngineInv
<1> QED
  BY <1>1, EngineInvariance, PTL

\* An announced transfer has a last outbox row.
LEMMA LastRow ==
  ASSUME Inv, NEW t \in Transfers, IsAnnounced(t)
  PROVE  \E i \in DOMAIN outbox :
           /\ outbox[i].id = t
           /\ \A j \in DOMAIN outbox : j > i => outbox[j].id # t
<1> DEFINE After == {n \in Nat : \E i \in DOMAIN outbox : outbox[i].id = t /\ n = Len(outbox) - i}
           Less == OpToRel(<, Nat)
<1>1. outbox \in Seq(OutboxRow)
  BY DEF Inv, TypeOK, OutboxRow
<1>2. After \subseteq Nat /\ After # {}
  <2>1. PICK i \in DOMAIN outbox : outbox[i].id = t
    BY DEF IsAnnounced
  <2>2. Len(outbox) - i \in Nat
    BY <1>1, <2>1
  <2>3. Len(outbox) - i \in After
    BY <2>1, <2>2
  <2> QED
    BY <2>3
<1>3. IsWellFoundedOn(Less, Nat)
  BY NatLessThanWellFounded
<1>4. \A x, y \in Nat : y < x => <<y, x>> \in Less
  BY DEF OpToRel
<1> HIDE DEF Less
<1>5. PICK n \in After : \A m \in After : ~(<<m, n>> \in Less)
  <2> HIDE DEF After
  <2> QED
    BY <1>2, <1>3, WFMin, Zenon
<1>6. PICK i \in DOMAIN outbox : outbox[i].id = t /\ n = Len(outbox) - i
  BY <1>5
<1>7. ASSUME NEW j \in DOMAIN outbox, j > i, outbox[j].id = t PROVE FALSE
  <2>1. PICK m : m = Len(outbox) - j
    OBVIOUS
  <2>2. m \in After /\ m \in Nat /\ n \in Nat /\ m < n
    BY <1>1, <1>6, <1>7, <2>1
  <2> QED
    BY <1>4, <1>5, <2>2
<1> QED
  BY <1>6, <1>7

\* No transfer that has been announced is forgotten, for any number of
\* workers, crashes, lost answers and redeliveries.
THEOREM NoneStranded == EngineSpec => []NeverStranded
<1>1. AllInv => NeverStranded
  <2> SUFFICES ASSUME AllInv, NEW t \in Transfers, ~IsSettled(t), IsAnnounced(t)
               PROVE  \E i \in DOMAIN outbox :
                        /\ outbox[i].id = t /\ outbox[i].subject \in Channel!StreamSubjects
                        /\ \A k \in DOMAIN msgs :
                             msgs[k].row = Requests + i => msgs[k].st # "acked"
    BY DEF NeverStranded
  <2>1. PICK i \in DOMAIN outbox :
          /\ outbox[i].id = t
          /\ \A j \in DOMAIN outbox : j > i => outbox[j].id # t
    BY LastRow DEF AllInv
  <2>2. PICK e : e = outbox[i].subject
    OBVIOUS
  <2>3. e \in EventType
    BY <2>1, <2>2, OutboxRows DEF AllInv, Inv, OutboxRow
  <2>4. Past(StateOf(e), row[t])
    BY <2>1, <2>2 DEF AllInv, Inv, SagaInv, OutboxInv
  <2>5. e # "transfer.completed" /\ e # "transfer.failed"
    <3>1. row[t].state # "COMPLETED" /\ row[t].state # "FAILED"
      BY DEF IsSettled, Terminal, State, validTransitions
    <3> QED
      BY <2>4, <3>1 DEF Past, StateOf
  <2>6. e \in Channel!StreamSubjects
    BY <2>3, <2>5 DEF EventType, Channel!StreamSubjects
  <2>7. ASSUME NEW k \in DOMAIN msgs, msgs[k].row = Requests + i, msgs[k].st = "acked"
        PROVE  FALSE
    <3>1. Superseded(msgs[k].row)
      BY <2>7 DEF AllInv, EngineInv, AckedIsSuperseded
    <3>2. i \in Nat /\ Requests \in Nat
      <4>1. outbox \in Seq(OutboxRow)
        BY Zenon DEF AllInv, Inv, TypeOK, OutboxRow
      <4> QED
        BY <2>1, <4>1, EngineAssumption
    <3>3. msgs[k].row - Requests = i
      BY <2>7, <3>2
    <3>4. IsSettled(t) \/ \E j \in DOMAIN outbox : j > i /\ outbox[j].id = t
      BY <2>1, <3>1, <3>3 DEF Superseded, TransferOf
    <3> QED
      BY <2>1, <3>4
  <2> QED
    BY <2>1, <2>2, <2>6, <2>7
<1> QED
  BY <1>1, EngineInvariance, PTL

-----------------------------------------------------------------------------
(* The engine's side of the channel.                                       *)

\* The rows with one more of the saga.
LEMMA RowsAppended ==
  ASSUME Inv, NEW e \in OutboxRow, outbox' = Append(outbox, e)
  PROVE  Rows' = Append(Rows, e.subject)
<1> DEFINE n == Requests + Len(outbox)
<1>1. outbox \in Seq(OutboxRow) /\ Requests \in Nat /\ n \in Nat
  BY EngineAssumption DEF Inv, TypeOK, OutboxRow
<1>2. \A i \in 1..n : Subject(i) \in EventType \cup {"transfer.requested"}
  BY <1>1, OutboxRows DEF Subject, Inv, OutboxRow
<1>3. Rows \in Seq(EventType \cup {"transfer.requested"}) /\ Len(Rows) = n
  BY <1>1, <1>2 DEF Rows
<1>4. Len(outbox') = Len(outbox) + 1
  BY <1>1
<1>5. Rows' = [i \in 1..(n + 1) |-> Subject(i)']
  BY <1>1, <1>4 DEF Rows
<1>6. \A i \in 1..n : Subject(i)' = Subject(i)
  BY <1>1 DEF Subject
<1>7. \A i \in 1..(n + 1) : i = n + 1 => Subject(i)' = e.subject
  BY <1>1 DEF Subject
<1>8. PICK q : q = Append(Rows, e.subject)
  OBVIOUS
<1>9. e.subject \in EventType
  BY DEF OutboxRow
<1>10. /\ q \in Seq(EventType \cup {"transfer.requested"}) /\ DOMAIN q = 1..(n + 1)
       /\ \A i \in 1..(n + 1) : q[i] = IF i = n + 1 THEN e.subject ELSE Rows[i]
  BY <1>3, <1>8, <1>9
<1>11. q = [i \in 1..(n + 1) |-> q[i]]
  BY <1>10
<1>12. \A i \in 1..(n + 1) : Subject(i)' = q[i]
  <2> SUFFICES ASSUME NEW i \in 1..(n + 1) PROVE Subject(i)' = q[i]
    OBVIOUS
  <2>1. CASE i = n + 1
    BY <2>1, <1>7, <1>10
  <2>2. CASE i # n + 1
    <3>1. i \in 1..n
      BY <1>1, <2>2
    <3> QED
      BY <2>2, <3>1, <1>6, <1>10 DEF Rows
  <2> QED
    BY <2>1, <2>2
<1> QED
  BY <1>5, <1>8, <1>11, <1>12

\* The log with one more message.
LEMMA LogAppended ==
  ASSUME NEW q \in Seq(Message), NEW x \in Message
  PROVE  [k \in DOMAIN Append(q, x) |-> Append(q, x)[k].row]
           = Append([k \in DOMAIN q |-> q[k].row], x.row)
<1> DEFINE f == [k \in DOMAIN Append(q, x) |-> Append(q, x)[k].row]
           g == [k \in DOMAIN q |-> q[k].row]
<1>0. \A k \in DOMAIN q : q[k] \in Message
  OBVIOUS
<1>1. g \in Seq(Nat) /\ Len(g) = Len(q) /\ x.row \in Nat
  BY <1>0 DEF Message
<1>2. f = [k \in 1..(Len(q) + 1) |-> f[k]]
  OBVIOUS
<1>3. \A k \in 1..(Len(q) + 1) : f[k] = IF k = Len(q) + 1 THEN x.row ELSE g[k]
  OBVIOUS
<1> HIDE DEF f, g
<1>4. /\ Append(g, x.row) = [k \in 1..(Len(q) + 1) |-> Append(g, x.row)[k]]
      /\ \A k \in 1..(Len(q) + 1) :
           Append(g, x.row)[k] = IF k = Len(q) + 1 THEN x.row ELSE g[k]
  BY <1>1
<1> QED
  BY <1>2, <1>3, <1>4 DEF f, g

\* The engine asks nothing more of the relay than that it is a channel: rows
\* are only added, and messages only stored as the relays store them.
THEOREM EngineUsesChannel == EngineSpec => Channel!ChSpec
<1> DEFINE L == [k \in DOMAIN msgs |-> msgs[k].row]
<1>1. EngineInit => Channel!ChInit
  <2> SUFFICES ASSUME EngineInit PROVE Channel!ChInit
    OBVIOUS
  <2>1. outbox = <<>> /\ L = <<>> /\ Requests \in Nat
    BY EngineAssumption DEF EngineInit, Init
  <2>2. Rows = [i \in 1..Requests |-> "transfer.requested"]
    BY <2>1 DEF Rows, Subject
  <2>3. Rows \in Seq(EventType \cup {"transfer.requested"})
    BY <2>1, <2>2
  <2> QED
    BY <2>1, <2>3 DEF Channel!ChInit
<1>2. AllInv /\ [EngineNext]_engineVars => [Channel!ChNext]_(Channel!channelVars)
  <2> SUFFICES ASSUME AllInv, [EngineNext]_engineVars
               PROVE  [Channel!ChNext]_(Channel!channelVars)
    OBVIOUS
  <2>1. ASSUME NEW i \in DOMAIN Rows, Publish(i) PROVE Channel!ChNext
    <3>1. msgs \in Seq(Message) /\ UNCHANGED outbox /\ Rows[i] \in Channel!StreamSubjects
      BY <2>1 DEF AllInv, EngineTypeOK, Publish, vars
    <3>2. PICK m : m = [row |-> i, st |-> "new"] /\ msgs' = Append(msgs, m)
      BY <2>1 DEF Publish
    <3>3. m \in Message /\ m.row = i
      BY <3>2, EngineAssumption DEF Message, Rows
    <3>4. [k \in DOMAIN msgs' |-> msgs'[k].row] = Append(L, i)
      <4>1. \A q \in Seq(Message), x \in Message :
              [k \in DOMAIN Append(q, x) |-> Append(q, x)[k].row]
                = Append([k \in DOMAIN q |-> q[k].row], x.row)
        BY LogAppended
      <4> QED
        BY <3>1, <3>2, <3>3, <4>1
    <3>5. Rows' = Rows
      BY <3>1 DEF Rows, Subject
    <3> QED
      BY <3>1, <3>4, <3>5 DEF Channel!ChNext, Channel!ChPublish
  <2>2. ASSUME UNCHANGED outbox, DOMAIN msgs' = DOMAIN msgs, MsgsStay
        PROVE  UNCHANGED Channel!channelVars
    <3>1. Rows' = Rows
      BY <2>2 DEF Rows, Subject
    <3>2. [k \in DOMAIN msgs' |-> msgs'[k].row] = L
      BY <2>2 DEF MsgsStay
    <3> QED
      BY <3>1, <3>2 DEF Channel!channelVars
  <2>3. ASSUME NEW w \in Workers, WriteOutbox(w), UNCHANGED msgs PROVE Channel!ChNext
    <3>1. PICK e : outbox' = Append(outbox, e) /\ e = [id |-> worker[w].id, subject |-> EventOf(worker[w].t.state)]
      BY <2>3 DEF WriteOutbox
    <3>2. worker[w].id \in Transfers
      BY <2>3, Busy DEF AllInv, WriteOutbox, Pc
    <3>3. e \in OutboxRow /\ e.subject \in EventType
      BY <3>1, <3>2 DEF OutboxRow, EventOf, EventType
    <3>4. Rows' = Append(Rows, e.subject)
      BY <3>1, <3>3, RowsAppended DEF AllInv
    <3> QED
      BY <2>3, <3>3, <3>4 DEF Channel!ChNext, Channel!ChWrite
  <2>4. [Next]_vars
    BY StepIsSaga
  <2>5. CASE \E i \in DOMAIN Rows : Publish(i)
    BY <2>1, <2>5
  <2>6. CASE UNCHANGED msgs
    <3>1. CASE outbox' = outbox
      BY <2>2, <2>6, <3>1, MsgsSame
    <3>2. CASE outbox' # outbox
      BY <2>3, <2>4, <2>6, <3>2, OnlyWrites
    <3> QED
      BY <3>1, <3>2
  <2>7. ASSUME NEW k \in DOMAIN msgs, NEW st \in {"new", "out", "due", "acked"},
               Mark(k, st), UNCHANGED vars
        PROVE  UNCHANGED Channel!channelVars
    BY <2>2, <2>7, Marking DEF vars
  <2>8. ASSUME NEW w \in Consumers, Ack(w) \/ Nak(w), msgs' # msgs
        PROVE  UNCHANGED Channel!channelVars
    <3>1. job[w].msg \in DOMAIN msgs
      BY <2>8, Members DEF AllInv, EngineTypeOK, Ack, Nak
    <3> QED
      BY <2>7, <2>8, <3>1 DEF Ack, Nak
  <2> QED
    BY <2>5, <2>6, <2>7, <2>8
    DEF EngineNext, Work, Deliver, AckWait, HandleUnnamed, HandleSettled, HandleExecute,
        Handle, SagaStep, AnswerLost, Crash, Hang, StepFails, Call, engineVars, queueVars
<1> QED
  BY <1>1, <1>2, EngineInvariance, PTL DEF EngineSpec, Channel!ChSpec
=============================================================================
