---------------------------- MODULE OutboxRelay -----------------------------
(***************************************************************************)
(* The outbox table and the relay processes that publish it to JetStream   *)
(* (cmd/outbox-relay, the nats publisher, and the stream that the worker   *)
(* creates).                                                               *)
(*                                                                         *)
(* The relay's SELECT ... FOR UPDATE SKIP LOCKED runs without a            *)
(* transaction around it, so its row locks are gone once the rows are      *)
(* read, before anything is published.                                     *)
(***************************************************************************)
EXTENDS Integers, Sequences, FiniteSets

CONSTANTS
  Relays,         \* relay processes
  Subjects,       \* subjects that are written to the outbox
  batchSize,
  MaxRows,        \* bound: rows written
  MaxUnroutable,  \* bound: rows written with a subject the stream does not take
  MaxFaults       \* bound: failing calls and crashes

ASSUME RelayAssumption ==
  /\ IsFiniteSet(Relays)
  /\ batchSize \in Nat \ {0}
  /\ MaxRows \in Nat /\ MaxUnroutable \in Nat /\ MaxFaults \in Nat

VARIABLES
  outbox,   \* rows in id order
  stream,   \* ids of the rows in the stream, in the order they were stored
  streamUp, \* the stream exists
  relay,    \* relay -> what it does, the rows it has yet to publish, the
            \* row it is to mark
  faults

vars == <<outbox, stream, streamUp, relay, faults>>

\* What the relay promises to those who write and consume events.
Channel ==
  INSTANCE EventChannel WITH
    rows <- [i \in DOMAIN outbox |-> outbox[i].subject],
    log  <- stream

\* The subjects that the worker gives the stream.
StreamSubjects == Channel!StreamSubjects

Row == [subject : Subjects, status : {"PENDING", "PUBLISHED"}]

RelayState == [pc : {"idle", "reading", "publish", "mark"},
               batch : SUBSET Nat, row : Nat]

Idle == [pc |-> "idle", batch |-> {}, row |-> 0]

Unroutable == {i \in DOMAIN outbox : outbox[i].subject \notin StreamSubjects}

Goto(r, pc, batch, i) ==
  relay' = [relay EXCEPT ![r] = [pc |-> pc, batch |-> batch, row |-> i]]

\* The next row of the batch, in id order.
First(i, batch) == i \in batch /\ \A j \in batch : i <= j

\* On to the rest of the batch.
Continue(r, batch) ==
  relay' = [relay EXCEPT ![r] = IF batch = {} THEN Idle
                                ELSE [pc |-> "publish", batch |-> batch, row |-> 0]]

-----------------------------------------------------------------------------

\* The stream may be there from an earlier start.
Init ==
  /\ outbox = <<>>
  /\ stream = <<>>
  /\ streamUp \in BOOLEAN
  /\ relay = [r \in Relays |-> Idle]
  /\ faults = 0

\* OutboxWriter.Write, by the API or the saga.
Write(s) ==
  /\ Len(outbox) < MaxRows
  /\ s \notin StreamSubjects => Cardinality(Unroutable) < MaxUnroutable
  /\ outbox' = Append(outbox, [subject |-> s, status |-> "PENDING"])
  /\ UNCHANGED <<stream, streamUp, relay, faults>>

\* A worker starts.
EnsureStream ==
  /\ ~streamUp
  /\ streamUp' = TRUE
  /\ UNCHANGED <<outbox, stream, relay, faults>>

Locked(r) == UNION {relay[q].batch : q \in {p \in Relays \ {r} : relay[p].pc = "reading"}}

Pending(r) == {i \in DOMAIN outbox : outbox[i].status = "PENDING"} \ Locked(r)

\* Mutant: a batch one row short.
BatchOneShort(rows) == {i \in rows : Cardinality({j \in rows : j < i}) < batchSize - 1}

\* ORDER BY id LIMIT batchSize.
Batch(rows) == {i \in rows : Cardinality({j \in rows : j < i}) < batchSize}

\* relay: the query, up to the first row.
Select(r) ==
  /\ relay[r].pc = "idle"
  /\ Pending(r) # {}
  /\ Goto(r, "reading", Batch(Pending(r)), 0)
  /\ UNCHANGED <<outbox, stream, streamUp, faults>>

\* rows.Close: the statement is over and its locks are released.
CloseRows(r) ==
  /\ relay[r].pc = "reading"
  /\ Goto(r, "publish", relay[r].batch, 0)
  /\ UNCHANGED <<outbox, stream, streamUp, faults>>

\* Mutant: a row that cannot be published is marked all the same.
PublishMarksAll(r) ==
  /\ relay[r].pc = "publish"
  /\ \E i \in relay[r].batch :
       /\ First(i, relay[r].batch)
       /\ stream' = IF streamUp /\ outbox[i].subject \in StreamSubjects
                    THEN Append(stream, i) ELSE stream
       /\ Goto(r, "mark", relay[r].batch \ {i}, i)
  /\ UNCHANGED <<outbox, streamUp, faults>>

\* Mutant: the stream takes every subject.
PublishUnfiltered(r) ==
  /\ relay[r].pc = "publish"
  /\ \E i \in relay[r].batch :
       /\ First(i, relay[r].batch)
       /\ IF streamUp
          THEN stream' = Append(stream, i) /\ Goto(r, "mark", relay[r].batch \ {i}, i)
          ELSE UNCHANGED stream /\ Continue(r, relay[r].batch \ {i})
  /\ UNCHANGED <<outbox, streamUp, faults>>

\* Publish: JetStream stores and acknowledges the message, or says that no
\* stream takes the subject; then the relay goes on with the next row.
Publish(r) ==
  /\ relay[r].pc = "publish"
  /\ \E i \in relay[r].batch :
       /\ First(i, relay[r].batch)
       /\ IF streamUp /\ outbox[i].subject \in StreamSubjects
          THEN stream' = Append(stream, i) /\ Goto(r, "mark", relay[r].batch \ {i}, i)
          ELSE UNCHANGED stream /\ Continue(r, relay[r].batch \ {i})
  /\ UNCHANGED <<outbox, streamUp, faults>>

\* UPDATE ... SET status = 'PUBLISHED', once no other relay's query has the
\* row locked.
Mark(r) ==
  /\ relay[r].pc = "mark"
  /\ relay[r].row \notin Locked(r)
  /\ outbox' = [outbox EXCEPT ![relay[r].row].status = "PUBLISHED"]
  /\ Continue(r, relay[r].batch)
  /\ UNCHANGED <<stream, streamUp, faults>>

\* Publish returns an error although the stream would take the message, and
\* has stored it or not.
PublishError(r) ==
  /\ relay[r].pc = "publish"
  /\ faults < MaxFaults /\ faults' = faults + 1
  /\ \E i \in relay[r].batch :
       /\ First(i, relay[r].batch)
       /\ \/ UNCHANGED stream
          \/ streamUp /\ outbox[i].subject \in StreamSubjects /\ stream' = Append(stream, i)
       /\ Continue(r, relay[r].batch \ {i})
  /\ UNCHANGED <<outbox, streamUp>>

\* The UPDATE fails: logged, and on to the next row.
MarkError(r) ==
  /\ relay[r].pc = "mark"
  /\ faults < MaxFaults /\ faults' = faults + 1
  /\ Continue(r, relay[r].batch)
  /\ UNCHANGED <<outbox, stream, streamUp>>

\* The query fails or the process is restarted.
Crash(r) ==
  /\ relay[r].pc # "idle"
  /\ faults < MaxFaults /\ faults' = faults + 1
  /\ relay' = [relay EXCEPT ![r] = Idle]
  /\ UNCHANGED <<outbox, stream, streamUp>>

Step(r) == Select(r) \/ CloseRows(r) \/ Publish(r) \/ Mark(r)

Next ==
  \/ \E s \in Subjects : Write(s)
  \/ EnsureStream
  \/ \E r \in Relays : Step(r)
  \/ \E r \in Relays : PublishError(r) \/ MarkError(r) \/ Crash(r)

Spec == Init /\ [][Next]_vars

\* A worker is started some time, and every relay goes on: its ticker polls
\* again and again.
FairSpec == Spec /\ WF_vars(EnsureStream) /\ \A r \in Relays : WF_vars(Step(r))

-----------------------------------------------------------------------------

InStream(i) == \E j \in DOMAIN stream : stream[j] = i

\* Every variable has its type.
TypeOK ==
  /\ outbox \in Seq(Row)
  /\ stream \in Seq(DOMAIN outbox)
  /\ streamUp \in BOOLEAN
  /\ relay \in [Relays -> RelayState]
  /\ faults \in 0..MaxFaults

\* A row is marked PUBLISHED only when its message is in the stream, whatever
\* the relays do at the same time and wherever they fail: no event is lost.
PublishedIsInStream ==
  \A i \in DOMAIN outbox : outbox[i].status = "PUBLISHED" => InStream(i)

\* What makes it inductive: the row that a relay is about to mark is in the
\* stream, and a batch only holds rows of the table.
RelayInv ==
  /\ PublishedIsInStream
  /\ \A r \in Relays :
       /\ relay[r].batch \subseteq DOMAIN outbox
       /\ relay[r].pc = "mark" => relay[r].row \in DOMAIN outbox /\ InStream(relay[r].row)

Copies(i) == Cardinality({j \in DOMAIN stream : stream[j] = i})

\* "without double-publishing": SKIP LOCKED keeps the relays off each other's
\* rows, so that a row is published twice only after a fault.
NoDoublePublish ==
  \A i \in DOMAIN outbox : Copies(i) <= 1 + faults

\* What is left of it: an event is in the stream at most once per relay, and
\* once more per fault, since a relay that has published a row marks it before
\* it selects again.
FewDuplicates ==
  \A i \in DOMAIN outbox : Copies(i) <= Cardinality(Relays) + faults

\* The relays that have read row i and not come to it yet, and those that have
\* published it and not marked it yet.
Holding(i) == {r \in Relays : i \in relay[r].batch}

Marking(i) == {r \in Relays : relay[r].pc = "mark" /\ relay[r].row = i}

\* What makes it inductive: while a row is pending, each copy of it is that of
\* a relay about to mark it, or due to a fault; once it is published, only the
\* relays that have read it before can still add a copy.
CopiesInv ==
  /\ \A r \in Relays : relay[r].pc = "mark" => relay[r].row \notin relay[r].batch
  /\ \A i \in DOMAIN outbox :
       /\ outbox[i].status = "PENDING" => Copies(i) <= Cardinality(Marking(i)) + faults
       /\ outbox[i].status = "PUBLISHED" =>
            Copies(i) + Cardinality(Holding(i)) <= Cardinality(Relays) + faults

\* Inductive: the table, the stream and the relays between Publish and the
\* UPDATE agree.
Inv == TypeOK /\ RelayInv /\ CopiesInv

\* The relays and the stream keep the contract of the channel: rows stay as
\* they were written, and every message is that of a row whose subject the
\* stream takes, whatever the relays publish twice or out of order.
KeepsChannel == Channel!ChSpec

\* Every row with a subject that the stream takes is published in the end,
\* with any number of relays, as long as the rows that cannot be published
\* are too few to fill a batch.
EventuallyPublished ==
  \A i \in 1..MaxRows :
    (i \in DOMAIN outbox /\ i \notin Unroutable) ~> (i \in DOMAIN outbox /\ outbox[i].status = "PUBLISHED")
=============================================================================
