------------------------- MODULE TransferSagaProofs -------------------------
(***************************************************************************)
(* Proofs of the safety properties of TransferSaga, for any number of      *)
(* workers, transfers, accounts and faults.  Inv is inductive; the         *)
(* properties follow from it.                                              *)
(***************************************************************************)
EXTENDS TransferSaga, TLAPS

\* One more event of one transfer.
LEMMA EventsMore ==
  ASSUME TypeOK, NEW id \in Transfers, NEW e \in EventType,
         events' = [events EXCEPT ![id][e] = @ + 1]
  PROVE  /\ events' \in [Transfers -> [EventType -> Nat]] /\ events'[id][e] > 0
         /\ \A t \in Transfers, f \in EventType : events[t][f] > 0 => events'[t][f] > 0
BY DEF TypeOK

-----------------------------------------------------------------------------
(* What the in-memory parts of the steps compute.                          *)

\* y is x one transition further, in state s.
Moved(x, y, s) ==
  /\ y.state = s
  /\ y.version = x.version + 1
  /\ y.debitPosted = x.debitPosted
  /\ y.creditPosted = x.creditPosted
  /\ y.externalRef = x.externalRef
  /\ y.failureReason = x.failureReason

\* Advance on a copy that may still move: Transition succeeds and changes the
\* state and the version only.
LEMMA Advancing ==
  ASSUME NEW id \in Transfers, NEW x \in Transfer, NEW s \in State,
         s \in validTransitions[x.state], x.version < MaxVersion
  PROVE  \E y \in Transfer :
           Advance(id, x, s) = At("update", id, y, <<>>) /\ Moved(x, y, s)
<1> DEFINE y == Transition(x, s)
<1>1. x.version + 1 \in 1..MaxVersion
  BY DEF Transfer, MaxVersion
<1>2. y \in Transfer
  BY <1>1 DEF Transition, Transfer
<1>3. Moved(x, y, s)
  BY DEF Moved, Transition, Transfer
<1>4. Advance(id, x, s) = At("update", id, y, <<>>)
  BY DEF Advance, CanTransition
<1> QED
  BY <1>2, <1>3, <1>4

\* reserveDebit after its posting goes for DEBITED.
LEMMA Debiting ==
  ASSUME NEW id \in Transfers, NEW x \in Transfer, WellFormed(x),
         x.state = "PENDING"
  PROVE  \E y \in Transfer :
           /\ AfterPosting(id, x) = At("update", id, y, <<>>)
           /\ WellFormed(y) /\ y.state = "DEBITED"
<1> DEFINE z == [x EXCEPT !.debitPosted = TRUE]
<1>1. /\ z \in Transfer /\ z.state = x.state /\ z.version = x.version
      /\ z.debitPosted = TRUE
      /\ z.creditPosted = x.creditPosted
      /\ z.externalRef = x.externalRef
      /\ z.failureReason = x.failureReason
  BY DEF Transfer
<1>2. AfterPosting(id, x) = Advance(id, z, "DEBITED")
  BY DEF AfterPosting
<1> HIDE DEF z
<1>3. /\ z.version < MaxVersion
      /\ "DEBITED" \in State /\ "DEBITED" \in validTransitions[z.state]
  BY <1>1 DEF WellFormed, Transfer, MaxVersion, State, validTransitions, None
<1>4. PICK y \in Transfer :
        Advance(id, z, "DEBITED") = At("update", id, y, <<>>) /\ Moved(z, y, "DEBITED")
  BY <1>1, <1>3, Advancing
<1>5. WellFormed(y) /\ y.state = "DEBITED"
  BY <1>1, <1>4 DEF Moved, WellFormed, Transfer, None
<1> QED
  BY <1>2, <1>4, <1>5

\* reserveDebit refuses: failWith goes for FAILED from PENDING.
LEMMA Refusing ==
  ASSUME NEW id \in Transfers, NEW x \in Transfer, WellFormed(x),
         x.state = "PENDING", NEW r \in {"account", "funds"}
  PROVE  \E y \in Transfer :
           /\ failWith(id, x, r) = At("update", id, y, <<>>)
           /\ WellFormed(y) /\ y.state = "FAILED" /\ ~y.debitPosted
<1> DEFINE z == [x EXCEPT !.failureReason = r]
<1>1. /\ z \in Transfer /\ z.state = x.state /\ z.version = x.version
      /\ z.failureReason = r
      /\ z.debitPosted = x.debitPosted
      /\ z.creditPosted = x.creditPosted
      /\ z.externalRef = x.externalRef
  BY DEF Transfer, Reason
<1>2. failWith(id, x, r) = Advance(id, z, "FAILED")
  BY DEF failWith
<1> HIDE DEF z
<1>3. /\ z.version < MaxVersion
      /\ "FAILED" \in State /\ "FAILED" \in validTransitions[z.state]
  BY <1>1 DEF WellFormed, Transfer, MaxVersion, State, validTransitions, None
<1>4. PICK y \in Transfer :
        Advance(id, z, "FAILED") = At("update", id, y, <<>>) /\ Moved(z, y, "FAILED")
  BY <1>1, <1>3, Advancing
<1>5. WellFormed(y) /\ y.state = "FAILED" /\ ~y.debitPosted
  BY <1>1, <1>4 DEF Moved, WellFormed, Transfer, None
<1> QED
  BY <1>2, <1>4, <1>5

\* callBank after an acknowledgement goes for BANK_CALLED.
LEMMA Acknowledging ==
  ASSUME NEW id \in Transfers, NEW x \in Transfer, WellFormed(x),
         x.state = "DEBITED"
  PROVE  \E y \in Transfer :
           /\ Advance(id, [x EXCEPT !.externalRef = "BANK-REF"], "BANK_CALLED") = At("update", id, y, <<>>)
           /\ WellFormed(y) /\ y.state = "BANK_CALLED"
<1> DEFINE z == [x EXCEPT !.externalRef = "BANK-REF"]
<1>1. /\ z \in Transfer /\ z.state = x.state /\ z.version = x.version
      /\ z.externalRef = "BANK-REF"
      /\ z.debitPosted = x.debitPosted
      /\ z.creditPosted = x.creditPosted
      /\ z.failureReason = x.failureReason
  BY DEF Transfer, ExternalRef
<1> HIDE DEF z
<1>3. /\ z.version < MaxVersion
      /\ "BANK_CALLED" \in State /\ "BANK_CALLED" \in validTransitions[z.state]
  BY <1>1 DEF WellFormed, Transfer, MaxVersion, State, validTransitions, None
<1>4. PICK y \in Transfer :
        Advance(id, z, "BANK_CALLED") = At("update", id, y, <<>>) /\ Moved(z, y, "BANK_CALLED")
  BY <1>1, <1>3, Advancing
<1>5. WellFormed(y) /\ y.state = "BANK_CALLED"
  BY <1>1, <1>4 DEF Moved, WellFormed, Transfer, None
<1> QED
  BY <1>1, <1>4, <1>5 DEF z

\* startCompensation goes for COMPENSATING.
LEMMA StartingCompensation ==
  ASSUME NEW id \in Transfers, NEW x \in Transfer, WellFormed(x),
         x.state = "DEBITED"
  PROVE  \E y \in Transfer :
           /\ Advance(id, [x EXCEPT !.failureReason = "bank"], "COMPENSATING") = At("update", id, y, <<>>)
           /\ WellFormed(y) /\ y.state = "COMPENSATING"
<1> DEFINE z == [x EXCEPT !.failureReason = "bank"]
<1>1. /\ z \in Transfer /\ z.state = x.state /\ z.version = x.version
      /\ z.failureReason = "bank"
      /\ z.debitPosted = x.debitPosted
      /\ z.creditPosted = x.creditPosted
      /\ z.externalRef = x.externalRef
  BY DEF Transfer, Reason
<1> HIDE DEF z
<1>3. /\ z.version < MaxVersion
      /\ "COMPENSATING" \in State /\ "COMPENSATING" \in validTransitions[z.state]
  BY <1>1 DEF WellFormed, Transfer, MaxVersion, State, validTransitions, None
<1>4. PICK y \in Transfer :
        Advance(id, z, "COMPENSATING") = At("update", id, y, <<>>) /\ Moved(z, y, "COMPENSATING")
  BY <1>1, <1>3, Advancing
<1>5. WellFormed(y) /\ y.state = "COMPENSATING"
  BY <1>1, <1>4 DEF Moved, WellFormed, Transfer, None
<1> QED
  BY <1>1, <1>4, <1>5 DEF z

\* postCredit after its posting goes for CREDITED.
LEMMA Crediting ==
  ASSUME NEW id \in Transfers, NEW x \in Transfer, WellFormed(x),
         x.state = "BANK_CALLED"
  PROVE  \E y \in Transfer :
           /\ AfterPosting(id, x) = At("update", id, y, <<>>)
           /\ WellFormed(y) /\ y.state = "CREDITED"
<1> DEFINE z == [x EXCEPT !.creditPosted = TRUE]
<1>1. /\ z \in Transfer /\ z.state = x.state /\ z.version = x.version
      /\ z.creditPosted = TRUE
      /\ z.debitPosted = x.debitPosted
      /\ z.externalRef = x.externalRef
      /\ z.failureReason = x.failureReason
  BY DEF Transfer
<1>2. AfterPosting(id, x) = Advance(id, z, "CREDITED")
  BY DEF AfterPosting
<1> HIDE DEF z
<1>3. /\ z.version < MaxVersion
      /\ "CREDITED" \in State /\ "CREDITED" \in validTransitions[z.state]
  BY <1>1 DEF WellFormed, Transfer, MaxVersion, State, validTransitions, None
<1>4. PICK y \in Transfer :
        Advance(id, z, "CREDITED") = At("update", id, y, <<>>) /\ Moved(z, y, "CREDITED")
  BY <1>1, <1>3, Advancing
<1>5. WellFormed(y) /\ y.state = "CREDITED"
  BY <1>1, <1>4 DEF Moved, WellFormed, Transfer, None
<1> QED
  BY <1>2, <1>4, <1>5

\* complete goes for COMPLETED.
LEMMA Completing ==
  ASSUME NEW id \in Transfers, NEW x \in Transfer, WellFormed(x),
         x.state = "CREDITED"
  PROVE  \E y \in Transfer :
           /\ Advance(id, x, "COMPLETED") = At("update", id, y, <<>>)
           /\ WellFormed(y) /\ y.state = "COMPLETED"
<1> DEFINE z == x
<1>1. z = x
  OBVIOUS
<1> HIDE DEF z
<1>3. /\ z.version < MaxVersion
      /\ "COMPLETED" \in State /\ "COMPLETED" \in validTransitions[z.state]
  BY <1>1 DEF WellFormed, Transfer, MaxVersion, State, validTransitions, None
<1>4. PICK y \in Transfer :
        Advance(id, z, "COMPLETED") = At("update", id, y, <<>>) /\ Moved(z, y, "COMPLETED")
  BY <1>1, <1>3, Advancing
<1>5. WellFormed(y) /\ y.state = "COMPLETED"
  BY <1>1, <1>4 DEF Moved, WellFormed, Transfer, None
<1> QED
  BY <1>1, <1>4, <1>5 DEF z

\* compensate after its last posting goes for FAILED.
LEMMA Refunding ==
  ASSUME NEW id \in Transfers, NEW x \in Transfer, WellFormed(x),
         x.state = "COMPENSATING"
  PROVE  \E y \in Transfer :
           /\ AfterPosting(id, x) = At("update", id, y, <<>>)
           /\ WellFormed(y) /\ y.state = "FAILED" /\ y.debitPosted
<1> DEFINE z == [x EXCEPT !.failureReason = x.failureReason]
<1>1. /\ z \in Transfer /\ z.state = x.state /\ z.version = x.version
      /\ z.failureReason = x.failureReason
      /\ z.debitPosted = x.debitPosted
      /\ z.creditPosted = x.creditPosted
      /\ z.externalRef = x.externalRef
  BY DEF Transfer
<1>2. AfterPosting(id, x) = Advance(id, z, "FAILED")
  BY DEF AfterPosting, failWith
<1> HIDE DEF z
<1>3. /\ z.version < MaxVersion
      /\ "FAILED" \in State /\ "FAILED" \in validTransitions[z.state]
  BY <1>1 DEF WellFormed, Transfer, MaxVersion, State, validTransitions, None
<1>4. PICK y \in Transfer :
        Advance(id, z, "FAILED") = At("update", id, y, <<>>) /\ Moved(z, y, "FAILED")
  BY <1>1, <1>3, Advancing
<1>5. WellFormed(y) /\ y.state = "FAILED" /\ y.debitPosted
  BY <1>1, <1>4 DEF Moved, WellFormed, Transfer, None
<1> QED
  BY <1>2, <1>4, <1>5

\* compensate reverses the debit and nothing else: CreditPosted is never set
\* on a transfer that is being compensated.
LEMMA Compensating ==
  ASSUME NEW id \in Transfers, NEW x \in Transfer, WellFormed(x),
         x.state = "COMPENSATING"
  PROVE  compensate(id, x) = At("post", id, x, <<"reverseDebit">>)
<1>1. x.debitPosted /\ ~x.creditPosted
  BY DEF WellFormed, Transfer
<1>2. Reversals(x) = <<>> \o <<"reverseDebit">>
  BY <1>1 DEF Reversals
<1>3. <<>> \o <<"reverseDebit">> = <<"reverseDebit">>
  OBVIOUS
<1>4. Reversals(x) = <<"reverseDebit">> /\ Reversals(x) # <<>>
  BY <1>2, <1>3
<1> QED
  BY <1>4 DEF compensate

\* Where the version still matches, the row is in the state the copy was
\* loaded in: what the optimistic lock gives UpdateState.
LEMMA LockedRow ==
  ASSUME NEW r \in Transfer, NEW y \in Transfer, WellFormed(r), WellFormed(y),
         y.state # "PENDING", Past(Before(y), r), r.version = y.version - 1
  PROVE  r.state = Before(y)
BY DEF WellFormed, Past, Before, Transfer, State, None

\* Such an update loses nothing of the row's past and adds the new state.
LEMMA PastGrows ==
  ASSUME NEW r \in Transfer, NEW y \in Transfer, WellFormed(r), WellFormed(y),
         y.state # "PENDING", r.state = Before(y)
  PROVE  /\ \A s \in State : Past(s, r) => Past(s, y)
         /\ Past(y.state, y) /\ ~Past(y.state, r)
         /\ y.state \in validTransitions[r.state]
         /\ y.version = r.version + 1
         /\ r.debitPosted => y.debitPosted
         /\ r.externalRef # None => y.externalRef # None
         /\ r.failureReason = "bank" => y.failureReason = "bank"
BY DEF WellFormed, Past, Before, Transfer, State, None, validTransitions

\* Every row is in its own past.
LEMMA PresentIsPast ==
  ASSUME NEW r \in Transfer, WellFormed(r)
  PROVE  Past(r.state, r)
BY DEF WellFormed, Past, Transfer, State, None

-----------------------------------------------------------------------------
(* Inv is inductive.                                                       *)

OutboxRow == [id : Transfers, subject : EventType]

\* The rows of the outbox have their type.
LEMMA OutboxRows ==
  TypeOK => \A i \in DOMAIN outbox : outbox[i] \in OutboxRow
<1>1. \A q \in Seq(OutboxRow) : \A i \in DOMAIN q : q[i] \in OutboxRow
  OBVIOUS
<1> QED
  BY <1>1 DEF TypeOK, OutboxRow

\* A worker goes on with a task that satisfies the invariant and announces
\* nothing new, and the counts of effects grow within the invariant.
LEMMA EffectsGrow ==
  ASSUME Inv, NEW w \in Workers, NEW k \in {Idle} \cup Task,
         worker' = [worker EXCEPT ![w] = k],
         TaskInv(worker[w])',
         k.pc \in {"append", "outbox"} =>
           Announcing(w) /\ k.id = worker[w].id /\ k.t = worker[w].t,
         UNCHANGED <<row, outbox>>,
         posted' \in [Transfers -> [Leg -> Nat]],
         \A t \in Transfers, l \in Leg : posted[t][l] > 0 => posted'[t][l] > 0,
         acks' \in [Transfers -> Nat],
         \A t \in Transfers : acks[t] > 0 => acks'[t] > 0,
         events' \in [Transfers -> [EventType -> Nat]],
         \A t \in Transfers, e \in EventType : events[t][e] > 0 => events'[t][e] > 0,
         faults' \in 0..MaxFaults, status' \in [Accounts -> Statuses],
         \A t \in Transfers : RowInv(t)'
  PROVE  Inv'
<1>1. TypeOK'
  BY DEF Inv, TypeOK
<1>2. \A v \in Workers : TaskInv(worker[v])'
  <2> SUFFICES ASSUME NEW v \in Workers, v # w PROVE TaskInv(worker[v])'
    OBVIOUS
  <2>1. worker'[v] = worker[v] /\ worker[v] \in {Idle} \cup Task
    BY DEF Inv, TypeOK
  <2>2. CASE worker[v] = Idle
    BY <2>1, <2>2 DEF TaskInv
  <2>3. CASE worker[v] \in Task
    <3>1. TaskInv(worker[v])
      BY DEF Inv, SagaInv
    <3>2. worker[v].id \in Transfers /\ worker[v].t \in Transfer
      BY <2>3 DEF Task
    <3>3. EventOf(worker[v].t.state) \in EventType
      BY DEF EventOf, EventType
    <3>4. {"debit", "credit", "reverseDebit"} \subseteq Leg
      BY DEF Leg
    <3> QED
      BY <2>1, <3>1, <3>2, <3>3, <3>4 DEF TaskInv, Effected
  <2> QED
    BY <2>1, <2>2, <2>3
<1>3. AnnouncedOnce'
  BY DEF Inv, SagaInv, AnnouncedOnce
<1>4. OutboxInv'
  <2>1. \A v \in Workers : Announcing(v)' =>
          Announcing(v) /\ Announcement(v)' = Announcement(v)
    BY DEF Inv, TypeOK, Announcing, Announcement
  <2>2. \A i \in DOMAIN outbox : outbox[i].id \in Transfers /\ outbox[i].subject \in EventType
    BY OutboxRows DEF Inv, OutboxRow
  <2> QED
    BY <2>1, <2>2 DEF Inv, SagaInv, OutboxInv
<1> QED
  BY <1>1, <1>2, <1>3, <1>4 DEF Inv, SagaInv

\* A worker goes on with a task that satisfies the invariant and announces
\* nothing, and the tables do not change.
LEMMA WorkerOnly ==
  ASSUME Inv, NEW w \in Workers, NEW k \in {Idle} \cup Task, TaskInv(k),
         k.pc \notin {"append", "outbox"},
         worker' = [worker EXCEPT ![w] = k],
         UNCHANGED <<row, posted, acks, events, outbox>>,
         faults' \in 0..MaxFaults, status' \in [Accounts -> Statuses]
  PROVE  Inv'
<1>1. \A t \in Transfers : RowInv(t)'
  BY ZenonT(30) DEF Inv, SagaInv, RowInv, WellFormed, Effected
<1>2. TaskInv(worker[w])'
  <2>1. worker'[w] = k
    BY DEF Inv, TypeOK
  <2> QED
    BY <2>1 DEF TaskInv, Effected
<1> QED
  BY <1>1, <1>2, EffectsGrow DEF Inv, TypeOK

\* The initial states satisfy the invariant.
LEMMA InitInv == Init => Inv
<1> SUFFICES ASSUME Init PROVE Inv
  OBVIOUS
<1>1. New \in Transfer /\ WellFormed(New)
  BY DEF New, Transfer, State, Reason, ExternalRef, MaxVersion, WellFormed, None
<1>2. TypeOK
  BY <1>1, SagaAssumption DEF Init, TypeOK
<1>3. \A t \in Transfers : RowInv(t)
  BY <1>1 DEF Init, RowInv, Effected, New, Leg, None
<1>4. \A w \in Workers : TaskInv(worker[w])
  BY DEF Init, TaskInv
<1>5. AnnouncedOnce /\ OutboxInv
  BY DEF Init, AnnouncedOnce, OutboxInv, Announcing, Idle
<1> QED
  BY <1>2, <1>3, <1>4, <1>5 DEF Inv, SagaInv

\* A task that goes for UpdateState satisfies the invariant when the row has
\* been where the copy comes from and the effect of the new state is there.
LEMMA UpdateTask ==
  ASSUME NEW id \in Transfers, NEW y \in Transfer, WellFormed(y),
         y.state # "PENDING", Past(Before(y), row[id]), Effected(id, y)
  PROVE  LET k == At("update", id, y, <<>>)
         IN  k \in Task /\ TaskInv(k) /\ k.pc = "update"
<1> DEFINE k == At("update", id, y, <<>>)
<1>1. k.pc = "update" /\ k.id = id /\ k.t = y
  BY DEF At
<1>2. <<>> \in Seq(Leg)
  OBVIOUS
<1>3. k \in Task
  BY <1>2 DEF At, Task, Pc
<1> HIDE DEF k
<1>4. TaskInv(k)
  BY <1>1 DEF TaskInv
<1> QED
  BY <1>1, <1>3, <1>4 DEF k

\* A worker that is not idle is in a call of Execute.
LEMMA Busy ==
  ASSUME Inv, NEW w \in Workers, worker[w].pc \in Pc
  PROVE  /\ worker[w] \in Task /\ worker[w].id \in Transfers
         /\ worker[w].t \in Transfer /\ worker[w] # Idle
         /\ WellFormed(worker[w].t) /\ TaskInv(worker[w])
         /\ row[worker[w].id] \in Transfer /\ RowInv(worker[w].id)
<1>1. worker[w] # Idle
  BY DEF Idle, Pc
<1>2. worker[w] \in Task
  BY <1>1 DEF Inv, TypeOK
<1>3. worker[w].id \in Transfers /\ worker[w].t \in Transfer
  BY <1>2 DEF Task
<1>4. TaskInv(worker[w]) /\ RowInv(worker[w].id) /\ row[worker[w].id] \in Transfer
  BY <1>3 DEF Inv, SagaInv, TypeOK
<1>5. WellFormed(worker[w].t)
  BY <1>1, <1>4 DEF TaskInv
<1> QED
  BY <1>1, <1>2, <1>3, <1>4, <1>5

\* Returning from Execute satisfies the invariant of tasks.
LEMMA IdleTask == TaskInv(Idle) /\ Idle.pc \notin {"append", "outbox"}
BY DEF TaskInv, Idle

\* Execute takes a fresh copy.
LEMMA ExecuteInv ==
  ASSUME Inv, NEW w \in Workers, NEW id \in Transfers, Execute(w, id)
  PROVE  Inv'
<1> DEFINE x == row[id]
           k == FirstCall(id, x)
<1>1. x \in Transfer /\ WellFormed(x) /\ Effected(id, x) /\ Past(x.state, x)
  BY PresentIsPast DEF Inv, TypeOK, SagaInv, RowInv
<1>2. k \in {Idle} \cup Task /\ TaskInv(k) /\ k.pc \notin {"append", "outbox"}
  <2> HIDE DEF x
  <2>0. <<>> \in Seq(Leg) /\ <<"credit">> \in Seq(Leg) /\ <<"reverseDebit">> \in Seq(Leg)
    BY DEF Leg
  <2>1. CASE x.state = "PENDING"
    <3>1. k = At("lock", id, x, <<>>)
      BY <2>1 DEF FirstCall
    <3> QED
      BY <1>1, <2>0, <2>1, <3>1 DEF At, Task, Pc, TaskInv
  <2>2. CASE x.state = "DEBITED"
    <3>1. k = At("bank", id, x, <<>>)
      BY <2>2 DEF FirstCall
    <3> QED
      BY <1>1, <2>0, <2>2, <3>1 DEF At, Task, Pc, TaskInv, x
  <2>3. CASE x.state = "BANK_CALLED"
    <3>1. k = At("post", id, x, <<"credit">>)
      BY <2>3 DEF FirstCall
    <3> QED
      BY <1>1, <2>0, <2>3, <3>1 DEF At, Task, Pc, TaskInv, x
  <2>4. CASE x.state = "CREDITED"
    <3>1. k = Advance(id, x, "COMPLETED")
      BY <2>4 DEF FirstCall
    <3>2. PICK y \in Transfer :
            k = At("update", id, y, <<>>) /\ WellFormed(y) /\ y.state = "COMPLETED"
      BY <1>1, <2>4, <3>1, Completing
    <3>3. Past(Before(y), row[id])
      BY <1>1, <2>4, <3>2 DEF Before, x
    <3>4. Effected(id, y)
      BY <1>1, <2>4, <3>2 DEF Effected, WellFormed, Transfer, None
    <3> QED
      BY <3>2, <3>3, <3>4, UpdateTask
  <2>5. CASE x.state = "COMPENSATING"
    <3>1. k = At("post", id, x, <<"reverseDebit">>)
      BY <1>1, <2>5, Compensating DEF FirstCall
    <3> QED
      BY <1>1, <2>0, <2>5, <3>1 DEF At, Task, Pc, TaskInv, x
  <2>6. CASE x.state \notin {"PENDING", "DEBITED", "BANK_CALLED", "CREDITED", "COMPENSATING"}
    <3>1. k = Idle
      BY <2>6 DEF FirstCall
    <3> QED
      BY <3>1, IdleTask
  <2> QED
    BY <2>1, <2>2, <2>3, <2>4, <2>5, <2>6
<1> HIDE DEF k
<1>3. worker' = [worker EXCEPT ![w] = k]
  BY DEF Execute, Goto, k
<1> QED
  BY <1>2, <1>3, WorkerOnly DEF Execute, Inv, TypeOK

\* Refusing a pending transfer, for whatever reason.
LEMMA RefuseTask ==
  ASSUME Inv, NEW w \in Workers, worker[w].pc \in {"lock", "balance"},
         NEW r \in {"account", "funds"}
  PROVE  LET k == failWith(worker[w].id, worker[w].t, r)
         IN  k \in Task /\ TaskInv(k) /\ k.pc = "update"
<1> DEFINE id == worker[w].id
           x == worker[w].t
<1>1. id \in Transfers /\ x \in Transfer /\ WellFormed(x) /\ x.state = "PENDING"
  BY Busy DEF Pc, TaskInv
<1>2. PICK y \in Transfer :
        /\ failWith(id, x, r) = At("update", id, y, <<>>)
        /\ WellFormed(y) /\ y.state = "FAILED" /\ ~y.debitPosted
  BY <1>1, Refusing
<1>3. Past(Before(y), row[id])
  BY <1>2 DEF Before, Past
<1>4. Effected(id, y)
  BY <1>2 DEF Effected, WellFormed, Transfer, None
<1> QED
  BY <1>1, <1>2, <1>3, <1>4, UpdateTask

\* LockForUpdate and GetBalance only read.
LEMMA ReadInv ==
  ASSUME Inv, NEW w \in Workers, LockForUpdate(w) \/ GetBalance(w)
  PROVE  Inv'
<1> DEFINE id == worker[w].id
           x == worker[w].t
<1>0. worker[w].pc \in {"lock", "balance"}
  BY DEF LockForUpdate, GetBalance
<1>1. id \in Transfers /\ x \in Transfer /\ WellFormed(x) /\ x.state = "PENDING"
  BY <1>0, Busy DEF Pc, TaskInv
<1>2. \A k \in {At("balance", id, x, <<>>), At("post", id, x, <<"debit">>)} :
        k \in Task /\ TaskInv(k) /\ k.pc \notin {"append", "outbox"}
  <2>1. <<>> \in Seq(Leg) /\ <<"debit">> \in Seq(Leg)
    BY DEF Leg
  <2>2. At("balance", id, x, <<>>) \in Task /\ At("post", id, x, <<"debit">>) \in Task
    BY <1>1, <2>1 DEF At, Task, Pc
  <2>3. TaskInv(At("balance", id, x, <<>>)) /\ TaskInv(At("post", id, x, <<"debit">>))
    BY <1>1 DEF At, TaskInv, Past
  <2>4. At("balance", id, x, <<>>).pc = "balance" /\ At("post", id, x, <<"debit">>).pc = "post"
    BY DEF At
  <2> QED
    BY <2>2, <2>3, <2>4
<1>3. \A r \in {"account", "funds"} :
        LET k == failWith(id, x, r)
        IN  k \in Task /\ TaskInv(k) /\ k.pc \notin {"append", "outbox"}
  BY <1>0, RefuseTask
<1>4. PICK k : /\ worker' = [worker EXCEPT ![w] = k]
               /\ k \in {At("balance", id, x, <<>>), At("post", id, x, <<"debit">>),
                         failWith(id, x, "account"), failWith(id, x, "funds")}
  BY DEF LockForUpdate, GetBalance, Goto
<1>5. k \in Task /\ TaskInv(k) /\ k.pc \notin {"append", "outbox"}
  BY <1>2, <1>3, <1>4
<1> QED
  BY <1>4, <1>5, WorkerOnly DEF LockForUpdate, GetBalance, Inv, TypeOK

\* PostEntries: the leg is one that the row's past allows, and the task goes
\* on to the state change that the posting is the effect of.
LEMMA PostEntriesInv ==
  ASSUME Inv, NEW w \in Workers, PostEntries(w)
  PROVE  Inv'
<1> PICK id, x, l : /\ id = worker[w].id /\ x = worker[w].t
                    /\ l = Head(worker[w].legs)
  OBVIOUS
<1> DEFINE k == AfterPosting(id, x)
<1>0. worker[w].pc = "post"
  BY DEF PostEntries
<1>1. /\ id \in Transfers /\ x \in Transfer /\ WellFormed(x) /\ TaskInv(worker[w])
      /\ row[id] \in Transfer /\ RowInv(id) /\ worker[w] # Idle
  BY <1>0, Busy DEF Pc
<1>2. /\ Past(x.state, row[id])
      /\ \/ x.state = "PENDING" /\ worker[w].legs = <<"debit">>
         \/ x.state = "BANK_CALLED" /\ worker[w].legs = <<"credit">>
         \/ x.state = "COMPENSATING" /\ worker[w].legs = <<"reverseDebit">>
  BY <1>0, <1>1 DEF TaskInv
<1>3. /\ \/ x.state = "PENDING" /\ l = "debit"
         \/ x.state = "BANK_CALLED" /\ l = "credit"
         \/ x.state = "COMPENSATING" /\ l = "reverseDebit"
      /\ Len(worker[w].legs) = 1 /\ l \in Leg
  BY <1>2 DEF Leg
<1>4. worker' = [worker EXCEPT ![w] = k]
  BY <1>3 DEF PostEntries, Goto
<1>5. posted' = [posted EXCEPT ![id][l] = @ + 1]
  BY DEF PostEntries
<1>6. /\ posted' \in [Transfers -> [Leg -> Nat]]
      /\ posted'[id][l] > 0
      /\ \A t \in Transfers, m \in Leg : posted[t][m] > 0 => posted'[t][m] > 0
      /\ \A t \in Transfers, m \in Leg : t # id \/ m # l => posted'[t][m] = posted[t][m]
  <2>1. posted \in [Transfers -> [Leg -> Nat]]
    BY Zenon DEF Inv, TypeOK
  <2>2. id \in Transfers /\ l \in Leg
    BY <1>1, <1>3
  <2>3. posted' \in [Transfers -> [Leg -> Nat]]
    BY <1>5, <2>1, <2>2
  <2>4. posted'[id][l] > 0
    BY <1>5, <2>1, <2>2
  <2>5. \A t \in Transfers, m \in Leg : t # id \/ m # l => posted'[t][m] = posted[t][m]
    BY <1>5, <2>1, <2>2
  <2>6. \A t \in Transfers, m \in Leg : posted[t][m] > 0 => posted'[t][m] > 0
    BY <2>4, <2>5, Zenon
  <2> QED
    BY <2>3, <2>4, <2>5, <2>6
<1>7. \A t \in Transfers : RowInv(t)'
  <2> SUFFICES ASSUME NEW t \in Transfers PROVE RowInv(t)'
    OBVIOUS
  <2>1. row' = row /\ acks' = acks
    BY DEF PostEntries
  <2>2. RowInv(t) /\ {"debit", "credit", "reverseDebit", "reverseCredit"} \subseteq Leg
    BY DEF Inv, SagaInv, Leg
  <2>3. CASE t # id
    BY <1>6, <2>1, <2>2, <2>3 DEF RowInv, Effected
  <2>4. CASE t = id
    BY <1>2, <1>3, <1>6, <2>1, <2>2, <2>4, ZenonT(30) DEF RowInv, Effected, Past
  <2> QED
    BY <2>3, <2>4
<1>8. PICK y \in Transfer :
        /\ k = At("update", id, y, <<>>) /\ WellFormed(y) /\ y.state # "PENDING"
        /\ Before(y) = x.state
        /\ \/ y.state = "DEBITED" /\ l = "debit"
           \/ y.state = "CREDITED" /\ l = "credit"
           \/ y.state = "FAILED" /\ y.debitPosted /\ l = "reverseDebit"
  <2>1. CASE x.state = "PENDING"
    <3>1. PICK y \in Transfer :
            k = At("update", id, y, <<>>) /\ WellFormed(y) /\ y.state = "DEBITED"
      BY <1>1, <2>1, Debiting
    <3>2. Before(y) = "PENDING"
      BY <3>1 DEF Before
    <3>3. l = "debit"
      BY <1>3, <2>1
    <3> WITNESS y \in Transfer
    <3> QED
      BY <2>1, <3>1, <3>2, <3>3
  <2>2. CASE x.state = "BANK_CALLED"
    <3>1. PICK y \in Transfer :
            k = At("update", id, y, <<>>) /\ WellFormed(y) /\ y.state = "CREDITED"
      BY <1>1, <2>2, Crediting
    <3>2. Before(y) = "BANK_CALLED"
      BY <3>1 DEF Before
    <3>3. l = "credit"
      BY <1>3, <2>2
    <3> WITNESS y \in Transfer
    <3> QED
      BY <2>2, <3>1, <3>2, <3>3
  <2>3. CASE x.state = "COMPENSATING"
    BY <1>1, <1>3, <2>3, Refunding DEF Before
  <2> QED
    BY <1>3, <2>1, <2>2, <2>3
<1>9. k \in Task /\ TaskInv(k)' /\ k.pc = "update"
  <2>1. Past(Before(y), row[id]) /\ row' = row /\ acks' = acks /\ events' = events
    BY <1>2, <1>8 DEF PostEntries
  <2>2. Effected(id, y)'
    <3>1. /\ row[id].debitPosted => posted[id]["debit"] > 0
          /\ row[id].externalRef # None => acks[id] > 0
          /\ WellFormed(row[id])
      BY <1>1 DEF RowInv, Effected
    <3>2. /\ y.debitPosted => y.state = "DEBITED" \/ posted[id]["debit"] > 0
          /\ y.externalRef # None => acks[id] > 0
      BY <1>1, <1>8, <2>1, <3>1 DEF WellFormed, Past, Before, Transfer, None
    <3>3. {"debit", "credit", "reverseDebit"} \subseteq Leg
      BY DEF Leg
    <3>4. /\ y.creditPosted => l = "credit"
          /\ y.state = "FAILED" => l = "reverseDebit"
          /\ y.state = "DEBITED" => l = "debit"
      BY <1>8 DEF WellFormed
    <3> QED
      BY <1>1, <1>6, <2>1, <3>2, <3>3, <3>4 DEF Effected
  <2>3. <<>> \in Seq(Leg)
    OBVIOUS
  <2>4. k.pc = "update" /\ k.id = id /\ k.t = y
    BY <1>8 DEF At
  <2>5. k \in Task
    BY <1>1, <1>8, <2>3 DEF At, Task, Pc
  <2> HIDE DEF k
  <2>6. TaskInv(k)'
    BY <1>8, <2>1, <2>2, <2>4 DEF TaskInv
  <2> QED
    BY <2>4, <2>5, <2>6
<1> HIDE DEF k
<1>10. TaskInv(worker[w])'
  <2>1. worker'[w] = k
    BY <1>4 DEF Inv, TypeOK
  <2> QED
    BY <1>9, <2>1
<1> QED
  BY <1>4, <1>6, <1>7, <1>9, <1>10, EffectsGrow DEF PostEntries, Inv, TypeOK

\* An error ends the call.
LEMMA ReturnInv ==
  ASSUME Inv, NEW w \in Workers,
         PostingRejected(w) \/ UpdateConflict(w) \/ Abort(w)
  PROVE  Inv'
<1>1. worker' = [worker EXCEPT ![w] = Idle]
  BY DEF PostingRejected, UpdateConflict, Abort, Goto
<1>2. faults' \in 0..MaxFaults /\ status' \in [Accounts -> Statuses]
  BY SagaAssumption DEF PostingRejected, UpdateConflict, Abort, Inv, TypeOK
<1>3. UNCHANGED <<row, posted, acks, events, outbox>>
  BY DEF PostingRejected, UpdateConflict, Abort
<1> QED
  BY <1>1, <1>2, <1>3, IdleTask, WorkerOnly

\* The bank acknowledges: the copy carries a reference that the bank gave.
LEMMA BankAcknowledgesInv ==
  ASSUME Inv, NEW w \in Workers, BankAcknowledges(w)
  PROVE  Inv'
<1> PICK id, x : id = worker[w].id /\ x = worker[w].t
  OBVIOUS
<1> DEFINE k == Advance(id, [x EXCEPT !.externalRef = "BANK-REF"], "BANK_CALLED")
<1>0. worker[w].pc = "bank"
  BY DEF BankAcknowledges
<1>1. /\ id \in Transfers /\ x \in Transfer /\ WellFormed(x) /\ TaskInv(worker[w])
      /\ row[id] \in Transfer /\ RowInv(id) /\ worker[w] # Idle
  BY <1>0, Busy DEF Pc
<1>2. x.state = "DEBITED" /\ row[id].debitPosted
  BY <1>0, <1>1 DEF TaskInv, Past
<1>3. /\ worker' = [worker EXCEPT ![w] = k]
      /\ acks' = [acks EXCEPT ![id] = @ + 1]
      /\ UNCHANGED <<row, posted, status, events, outbox, faults>>
  BY DEF BankAcknowledges, Goto
<1>4. /\ acks' \in [Transfers -> Nat] /\ acks'[id] > 0
      /\ \A t \in Transfers : acks[t] > 0 => acks'[t] > 0
  BY <1>1, <1>3 DEF Inv, TypeOK
<1>5. \A t \in Transfers : RowInv(t)'
  BY <1>3, <1>4 DEF Inv, SagaInv, RowInv, Effected
<1>6. PICK y \in Transfer :
        /\ k = At("update", id, y, <<>>) /\ WellFormed(y) /\ y.state = "BANK_CALLED"
  BY <1>1, <1>2, Acknowledging
<1>7. Past(Before(y), row[id])' /\ Effected(id, y)'
  BY <1>1, <1>2, <1>3, <1>4, <1>6 DEF Past, Before, Effected, RowInv, WellFormed
<1>8. <<>> \in Seq(Leg)
  OBVIOUS
<1>9. k \in Task /\ k.pc = "update" /\ k.id = id /\ k.t = y
  <2> HIDE DEF k
  <2>1. k.pc = "update" /\ k.id = id /\ k.t = y
    BY <1>6 DEF At
  <2>2. k \in Task
    BY <1>1, <1>6, <1>8 DEF At, Task, Pc
  <2> QED
    BY <2>1, <2>2
<1> HIDE DEF k
<1>10. TaskInv(k)'
  BY <1>6, <1>7, <1>9 DEF TaskInv
<1>11. TaskInv(worker[w])'
  <2>1. worker'[w] = k
    BY <1>3 DEF Inv, TypeOK
  <2> QED
    BY <1>10, <2>1
<1> QED
  BY <1>3, <1>4, <1>5, <1>9, <1>11, EffectsGrow DEF Inv, TypeOK

\* The bank call fails: the copy is on its way to COMPENSATING.
LEMMA BankFailsInv ==
  ASSUME Inv, NEW w \in Workers, BankFails(w)
  PROVE  Inv'
<1> DEFINE id == worker[w].id
           x == worker[w].t
           k == Advance(id, [x EXCEPT !.failureReason = "bank"], "COMPENSATING")
<1>0. worker[w].pc = "bank"
  BY DEF BankFails
<1>1. /\ id \in Transfers /\ x \in Transfer /\ WellFormed(x) /\ TaskInv(worker[w])
      /\ row[id] \in Transfer /\ RowInv(id) /\ worker[w] # Idle
  BY <1>0, Busy DEF Pc
<1>2. x.state = "DEBITED" /\ row[id].debitPosted
  BY <1>0, <1>1 DEF TaskInv, Past
<1>3. PICK y \in Transfer :
        /\ k = At("update", id, y, <<>>) /\ WellFormed(y) /\ y.state = "COMPENSATING"
  BY <1>1, <1>2, StartingCompensation
<1>4. Past(Before(y), row[id]) /\ Effected(id, y)
  BY <1>1, <1>2, <1>3 DEF Past, Before, Effected, RowInv, WellFormed
<1>5. k \in Task /\ TaskInv(k) /\ k.pc = "update"
  BY <1>1, <1>3, <1>4, UpdateTask
<1>6. worker' = [worker EXCEPT ![w] = k]
  BY DEF BankFails, Goto
<1> HIDE DEF k
<1> QED
  BY <1>5, <1>6, WorkerOnly DEF BankFails, Inv, TypeOK

\* An event stands for one state of a transfer.
LEMMA EventsDiffer ==
  ASSUME NEW s \in State \ {"PENDING", "COMPENSATING"}
  PROVE  /\ EventOf(s) \in EventType /\ StateOf(EventOf(s)) = s
         /\ \A u \in State \ {"PENDING", "COMPENSATING"} : EventOf(u) = EventOf(s) => u = s
BY DEF State, EventOf, StateOf, EventType

\* UpdateState: the copy replaces the state it was loaded from, so no worker's
\* claim about the row's past is lost, and its event is a new one.
LEMMA UpdateStateInv ==
  ASSUME Inv, NEW w \in Workers, UpdateState(w)
  PROVE  Inv'
<1> PICK id, y : id = worker[w].id /\ y = worker[w].t
  OBVIOUS
<1> DEFINE k == IF y.state = "COMPENSATING" THEN compensate(id, y)
                                            ELSE At("append", id, y, <<>>)
<1>0. worker[w].pc = "update" /\ row[id].version = y.version - 1
  BY DEF UpdateState
<1>1. /\ id \in Transfers /\ y \in Transfer /\ WellFormed(y) /\ TaskInv(worker[w])
      /\ row[id] \in Transfer /\ RowInv(id) /\ worker[w] # Idle
  BY <1>0, Busy DEF Pc
<1>2. y.state # "PENDING" /\ Past(Before(y), row[id]) /\ Effected(id, y)
  BY <1>0, <1>1 DEF TaskInv
<1>3. row[id].state = Before(y)
  BY <1>0, <1>1, <1>2, LockedRow DEF RowInv
<1>4. /\ \A s \in State : Past(s, row[id]) => Past(s, y)
      /\ Past(y.state, y) /\ ~Past(y.state, row[id])
      /\ row[id].externalRef # None => y.externalRef # None
      /\ row[id].failureReason = "bank" => y.failureReason = "bank"
  BY <1>1, <1>2, <1>3, PastGrows DEF RowInv
<1>5. /\ row' = [row EXCEPT ![id] = y]
      /\ worker' = [worker EXCEPT ![w] = k]
      /\ UNCHANGED <<posted, status, acks, events, outbox, faults>>
  BY DEF UpdateState, Goto
<1>6. \/ k = At("post", id, y, <<"reverseDebit">>) /\ y.state = "COMPENSATING"
      \/ k = At("append", id, y, <<>>) /\ y.state # "COMPENSATING"
  BY <1>1, Compensating
<1> HIDE DEF k
<1>7. /\ k \in Task /\ k # Idle /\ k.id = id /\ k.t = y
      /\ \/ k.pc = "post" /\ k.legs = <<"reverseDebit">> /\ y.state = "COMPENSATING"
         \/ k.pc = "append" /\ y.state # "COMPENSATING"
  <2>1. <<>> \in Seq(Leg) /\ <<"reverseDebit">> \in Seq(Leg)
    BY DEF Leg
  <2>2. k \in Task
    <3>1. At("post", id, y, <<"reverseDebit">>) \in Task
      BY <1>1, <2>1 DEF At, Task, Pc
    <3>2. At("append", id, y, <<>>) \in Task
      BY <1>1, <2>1 DEF At, Task, Pc
    <3> QED
      BY <1>6, <3>1, <3>2
  <2>3. k.id = id /\ k.t = y /\ k # Idle
    BY <1>6 DEF At, Idle
  <2>4. \/ k.pc = "post" /\ k.legs = <<"reverseDebit">> /\ y.state = "COMPENSATING"
        \/ k.pc = "append" /\ y.state # "COMPENSATING"
    BY <1>6 DEF At
  <2> QED
    BY <2>2, <2>3, <2>4
<1>8. /\ row'[id] = y /\ \A t \in Transfers : t # id => row'[t] = row[t]
      /\ worker'[w] = k /\ \A v \in Workers : v # w => worker'[v] = worker[v]
  BY <1>1, <1>5 DEF Inv, TypeOK
<1>9. TypeOK'
  BY <1>1, <1>5, <1>7 DEF Inv, TypeOK
<1>10. \A t \in Transfers : RowInv(t)'
  <2> SUFFICES ASSUME NEW t \in Transfers PROVE RowInv(t)'
    OBVIOUS
  <2>1. RowInv(t)
    BY DEF Inv, SagaInv
  <2>2. CASE t = id
    BY <1>1, <1>2, <1>4, <1>5, <1>8, <2>1, <2>2 DEF RowInv, Effected
  <2>3. CASE t # id
    BY <1>5, <1>8, <2>1, <2>3 DEF RowInv, Effected
  <2> QED
    BY <2>2, <2>3
<1>11. \A t \in Transfers, s \in State : Past(s, row[t]) => Past(s, row'[t])
  BY <1>4, <1>8
<1>12. \A v \in Workers : TaskInv(worker[v])'
  <2> SUFFICES ASSUME NEW v \in Workers PROVE TaskInv(worker[v])'
    OBVIOUS
  <2>1. CASE v = w
    <3>1. TaskInv(k)'
      BY <1>1, <1>2, <1>4, <1>7, <1>8 DEF TaskInv
    <3> QED
      BY <1>8, <2>1, <3>1
  <2>2. CASE v # w /\ worker[v] = Idle
    BY <1>8, <2>2 DEF TaskInv
  <2>3. CASE v # w /\ worker[v] # Idle
    <3>1. worker'[v] = worker[v] /\ worker[v] \in Task /\ TaskInv(worker[v])
      BY <1>8, <2>3 DEF Inv, TypeOK, SagaInv
    <3>2. /\ worker[v].id \in Transfers
          /\ worker[v].t.state \in State /\ Before(worker[v].t) \in State
          /\ "DEBITED" \in State
      BY <3>1 DEF Task, Transfer, Before, State
    <3> QED
      BY <1>5, <1>11, <3>1, <3>2 DEF TaskInv, Effected
  <2> QED
    BY <2>1, <2>2, <2>3
<1>13. AnnouncedOnce'
  BY <1>5 DEF Inv, SagaInv, AnnouncedOnce
<1>14. OutboxInv'
  <2>1. \A i \in DOMAIN outbox :
          /\ outbox[i].id \in Transfers /\ outbox[i].subject \in EventType
          /\ StateOf(outbox[i].subject) \in State
          /\ Past(StateOf(outbox[i].subject), row[outbox[i].id])
          /\ events[outbox[i].id][outbox[i].subject] > 0
    BY OutboxRows DEF Inv, OutboxRow, SagaInv, OutboxInv, StateOf, State
  <2>2. \A i \in DOMAIN outbox :
          /\ Past(StateOf(outbox[i].subject), row'[outbox[i].id])
          /\ events'[outbox[i].id][outbox[i].subject] > 0
    BY <1>5, <1>11, <2>1
  <2>3. \A v \in Workers : v # w =>
          Announcing(v)' = Announcing(v) /\ Announcement(v)' = Announcement(v)
    BY <1>8 DEF Announcing, Announcement
  <2>4. Announcing(w)' =>
          /\ y.state \in State \ {"PENDING", "COMPENSATING"}
          /\ Announcement(w)' = [id |-> id, subject |-> EventOf(y.state)]
    BY <1>1, <1>2, <1>7, <1>8 DEF Announcing, Announcement, Transfer
  <2>5. ASSUME Announcing(w)', NEW i \in DOMAIN outbox, outbox[i] = Announcement(w)'
        PROVE  FALSE
    <3>1. /\ outbox[i].id = id /\ outbox[i].subject = EventOf(y.state)
          /\ y.state \in State \ {"PENDING", "COMPENSATING"}
      BY <2>4, <2>5
    <3>2. StateOf(outbox[i].subject) = y.state
      BY <3>1, EventsDiffer
    <3> QED
      BY <1>4, <2>1, <3>1, <3>2
  <2>6. ASSUME NEW v \in Workers, v # w, Announcing(v), Announcing(w)'
        PROVE  Announcement(v) # Announcement(w)'
    <3>1. /\ worker[v].t.state \in State \ {"PENDING", "COMPENSATING"}
          /\ Past(worker[v].t.state, row[worker[v].id])
      BY <2>6, Busy DEF Announcing, TaskInv, Pc, Transfer
    <3> QED
      BY <1>4, <2>4, <2>6, <3>1, EventsDiffer DEF Announcement
  <2> QED
    BY <1>5, <2>2, <2>3, <2>5, <2>6 DEF Inv, SagaInv, OutboxInv
<1> QED
  BY <1>9, <1>10, <1>12, <1>13, <1>14 DEF Inv, SagaInv

\* publishEvent appends the event, and then still has to write it to the
\* outbox.
LEMMA AppendEventInv ==
  ASSUME Inv, NEW w \in Workers, AppendEvent(w)
  PROVE  Inv'
<1> PICK id, y : id = worker[w].id /\ y = worker[w].t
  OBVIOUS
<1> DEFINE k == At("outbox", id, y, <<>>)
           e == EventOf(y.state)
<1>0. worker[w].pc = "append"
  BY DEF AppendEvent
<1>1. /\ id \in Transfers /\ y \in Transfer /\ WellFormed(y) /\ worker[w] # Idle
      /\ y.state \in State \ {"PENDING", "COMPENSATING"} /\ Past(y.state, row[id])
  BY <1>0, Busy DEF Pc, TaskInv, Transfer
<1>2. /\ worker' = [worker EXCEPT ![w] = k]
      /\ events' = [events EXCEPT ![id][e] = @ + 1]
      /\ UNCHANGED <<row, posted, status, acks, outbox, faults>>
  BY DEF AppendEvent, Goto
<1>3. e \in EventType
  BY <1>1, EventsDiffer
<1> HIDE DEF e
<1>4. /\ events' \in [Transfers -> [EventType -> Nat]] /\ events'[id][e] > 0
      /\ \A t \in Transfers, f \in EventType : events[t][f] > 0 => events'[t][f] > 0
  <2>1. TypeOK
    BY DEF Inv
  <2> QED
    BY <1>1, <1>2, <1>3, <2>1, EventsMore, Zenon
<1>5. \A t \in Transfers : RowInv(t)'
  BY <1>2 DEF Inv, SagaInv, RowInv, Effected
<1>6. <<>> \in Seq(Leg)
  OBVIOUS
<1>7. k \in Task /\ k.pc = "outbox" /\ k.id = id /\ k.t = y
  <2>1. k.pc = "outbox" /\ k.id = id /\ k.t = y
    BY DEF At
  <2>2. k \in Task
    BY <1>1, <1>6 DEF At, Task, Pc
  <2> QED
    BY <2>1, <2>2
<1> HIDE DEF k
<1>8. TaskInv(worker[w])'
  <2>1. worker'[w] = k
    BY <1>2 DEF Inv, TypeOK
  <2>2. TaskInv(k)'
    BY <1>1, <1>2, <1>4, <1>7 DEF TaskInv, e
  <2> QED
    BY <2>1, <2>2
<1>9. Announcing(w)
  BY <1>0 DEF Announcing
<1> QED
  BY <1>2, <1>4, <1>5, <1>7, <1>8, <1>9, EffectsGrow DEF Inv, TypeOK

\* publishEvent writes the announcement that only this worker had to make.
LEMMA WriteOutboxInv ==
  ASSUME Inv, NEW w \in Workers, WriteOutbox(w)
  PROVE  Inv'
<1> PICK a : a = Announcement(w)
  OBVIOUS
<1>0. worker[w].pc = "outbox" /\ Announcing(w)
  BY DEF WriteOutbox, Announcing
<1>1. /\ worker[w].id \in Transfers
      /\ worker[w].t.state \in State \ {"PENDING", "COMPENSATING"}
      /\ Past(worker[w].t.state, row[worker[w].id])
      /\ events[worker[w].id][EventOf(worker[w].t.state)] > 0
  BY <1>0, Busy DEF Pc, TaskInv, Transfer
<1>2. /\ a \in OutboxRow /\ Past(StateOf(a.subject), row[a.id])
      /\ events[a.id][a.subject] > 0
  BY <1>1, EventsDiffer DEF Announcement, OutboxRow
<1>3. /\ outbox' = Append(outbox, a)
      /\ worker' = [worker EXCEPT ![w] = Idle]
      /\ UNCHANGED <<row, posted, status, acks, events, faults>>
  BY DEF WriteOutbox, Goto, Announcement
<1>4. \A i \in DOMAIN outbox : outbox[i] # a
  BY <1>0 DEF Inv, SagaInv, OutboxInv
<1>5. /\ outbox' \in Seq(OutboxRow)
      /\ \A i \in DOMAIN outbox' :
           \/ i \in DOMAIN outbox /\ outbox'[i] = outbox[i]
           \/ i = Len(outbox) + 1 /\ outbox'[i] = a
  <2>1. outbox \in Seq(OutboxRow)
    BY DEF Inv, TypeOK, OutboxRow
  <2> QED
    BY <1>2, <1>3, <2>1
<1>6. TypeOK'
  BY <1>3, <1>5 DEF Inv, TypeOK, OutboxRow
<1>7. \A t \in Transfers : RowInv(t)'
  BY <1>3 DEF Inv, SagaInv, RowInv, Effected
<1>8. /\ worker'[w] = Idle
      /\ \A v \in Workers : v # w => worker'[v] = worker[v]
  BY <1>3 DEF Inv, TypeOK
<1>9. \A v \in Workers : TaskInv(worker[v])'
  <2> SUFFICES ASSUME NEW v \in Workers PROVE TaskInv(worker[v])'
    OBVIOUS
  <2>1. TaskInv(worker[v])
    BY DEF Inv, SagaInv
  <2> QED
    BY <1>3, <1>8, <2>1 DEF TaskInv, Effected
<1>10. AnnouncedOnce'
  BY <1>4, <1>5 DEF Inv, SagaInv, AnnouncedOnce
<1>11. OutboxInv'
  <2>1. ~Announcing(w)'
    BY <1>8 DEF Announcing, Idle
  <2>2. \A v \in Workers : v # w =>
          Announcing(v)' = Announcing(v) /\ Announcement(v)' = Announcement(v)
    BY <1>8 DEF Announcing, Announcement
  <2>3. \A v \in Workers : v # w /\ Announcing(v) => Announcement(v) # a
    BY <1>0 DEF Inv, SagaInv, OutboxInv
  <2> QED
    BY <1>2, <1>3, <1>5, <2>1, <2>2, <2>3 DEF Inv, SagaInv, OutboxInv
<1> QED
  BY <1>6, <1>7, <1>9, <1>10, <1>11 DEF Inv, SagaInv

\* A change of an account's status touches none of what the invariant is
\* about.
LEMMA SaveAccountInv ==
  ASSUME Inv, NEW id \in Transfers, NEW s \in Statuses, SaveAccount(Source[id], s)
  PROVE  Inv'
<1>1. status' \in [Accounts -> Statuses]
  BY DomainAssumption DEF SaveAccount, Inv, TypeOK
<1>2. UNCHANGED <<row, posted, acks, events, outbox, worker, faults>>
  BY DEF SaveAccount
<1>3. TypeOK'
  BY <1>1, <1>2 DEF Inv, TypeOK
<1>4. SagaInv'
  BY <1>2, ZenonT(30)
  DEF Inv, SagaInv, RowInv, Effected, TaskInv, AnnouncedOnce, OutboxInv, Announcing,
      Announcement
<1> QED
  BY <1>3, <1>4 DEF Inv

\* Every step preserves the invariant.
LEMMA NextInv == Inv /\ [Next]_vars => Inv'
<1> SUFFICES ASSUME Inv, [Next]_vars PROVE Inv'
  OBVIOUS
<1>1. ASSUME NEW w \in Workers, NEW id \in Transfers, Execute(w, id) PROVE Inv'
  BY <1>1, ExecuteInv
<1>2. ASSUME NEW w \in Workers, Step(w) PROVE Inv'
  BY <1>2, ReadInv, PostEntriesInv, ReturnInv, BankAcknowledgesInv, BankFailsInv,
     UpdateStateInv, AppendEventInv, WriteOutboxInv DEF Step
<1>3. ASSUME NEW w \in Workers, Abort(w) PROVE Inv'
  BY <1>3, ReturnInv
<1>4. ASSUME NEW id \in Transfers, NEW s \in Statuses, SaveAccount(Source[id], s) PROVE Inv'
  BY <1>4, SaveAccountInv
<1>5. CASE UNCHANGED vars
  BY <1>5, ZenonT(30)
  DEF vars, Inv, TypeOK, SagaInv, RowInv, Effected, TaskInv, AnnouncedOnce, OutboxInv,
      Announcing, Announcement
<1> QED
  BY <1>1, <1>2, <1>3, <1>4, <1>5 DEF Next

-----------------------------------------------------------------------------
(* The theorems.                                                           *)

\* The inductive invariant holds of every state of the saga: copies in memory
\* are states of the row's past, with their effects, however many workers
\* call Execute.
THEOREM Invariance == Spec => []Inv
BY InitInv, NextInv, PTL DEF Spec

\* Every variable keeps its type; in particular no version exceeds MaxVersion,
\* and the memory of a worker is always a transfer.
THEOREM TypeCorrect == Spec => []TypeOK
<1>1. Inv => TypeOK
  BY DEF Inv
<1> QED
  BY <1>1, Invariance, PTL

\* A transfer is never both credited to the destination and refunded to the
\* source, for any number of workers, transfers and crashes.
THEOREM PaidXorRefunded == Spec => []NeverPaidAndRefunded
<1>1. Inv => NeverPaidAndRefunded
  <2> SUFFICES ASSUME Inv, NEW t \in Transfers
               PROVE  ~(posted[t]["credit"] > 0 /\ posted[t]["reverseDebit"] > 0)
    BY DEF NeverPaidAndRefunded
  <2>1. RowInv(t) /\ row[t] \in Transfer
    BY DEF Inv, SagaInv, TypeOK
  <2> QED
    BY <2>1 DEF RowInv, WellFormed, Transfer
<1> QED
  BY <1>1, Invariance, PTL

\* The destination is paid only out of a debit and after an acknowledgement.
THEOREM Backed == Spec => []PaidOnlyIfBacked
<1>1. Inv => PaidOnlyIfBacked
  <2> SUFFICES ASSUME Inv, NEW t \in Transfers, posted[t]["credit"] > 0
               PROVE  posted[t]["debit"] > 0 /\ acks[t] > 0
    BY DEF PaidOnlyIfBacked
  <2>1. RowInv(t) /\ row[t] \in Transfer
    BY DEF Inv, SagaInv, TypeOK
  <2> QED
    BY <2>1 DEF RowInv, Effected, WellFormed, Transfer
<1> QED
  BY <1>1, Invariance, PTL

\* A settled transfer's row agrees with the ledger.
THEOREM Settled == Spec => []SettledMatchesLedger
<1>1. Inv => SettledMatchesLedger
  <2> SUFFICES ASSUME Inv, NEW t \in Transfers
               PROVE  LET r == row[t]  p == posted[t] IN
                 /\ r.state = "COMPLETED" =>
                      /\ p["debit"] > 0 /\ p["credit"] > 0 /\ p["reverseDebit"] = 0
                      /\ r.externalRef # None /\ r.failureReason = None
                 /\ r.state = "FAILED" =>
                      /\ p["credit"] = 0
                      /\ r.externalRef = None /\ r.failureReason # None
                      /\ r.failureReason = "bank" <=> r.debitPosted
                      /\ r.debitPosted => p["debit"] > 0 /\ p["reverseDebit"] > 0
    BY DEF SettledMatchesLedger
  <2>1. RowInv(t) /\ row[t] \in Transfer /\ posted[t] \in [Leg -> Nat]
    BY DEF Inv, SagaInv, TypeOK
  <2>2. \A l \in {"debit", "credit", "reverseDebit"} : posted[t][l] \in Nat
    BY <2>1 DEF Leg
  <2> QED
    BY <2>1, <2>2 DEF RowInv, Effected, WellFormed, Transfer, None
<1> QED
  BY <1>1, Invariance, PTL

\* No state change is announced twice.
THEOREM Announced == Spec => []AnnouncedOnce
<1>1. Inv => AnnouncedOnce
  BY DEF Inv, SagaInv
<1> QED
  BY <1>1, Invariance, PTL

\* An announcement is backed by the row and by the event log.
THEOREM AnnouncedTrue == Spec => []AnnouncedIsTrue
<1>1. Inv => AnnouncedIsTrue
  <2> SUFFICES ASSUME Inv, NEW i \in DOMAIN outbox
               PROVE  LET t == outbox[i].id  e == outbox[i].subject IN
                 /\ events[t][e] > 0
                 /\ row[t].version >= VersionOf(e)
                 /\ e = "transfer.completed" => row[t].state = "COMPLETED"
                 /\ e = "transfer.failed" => row[t].state = "FAILED"
    BY DEF AnnouncedIsTrue
  <2> DEFINE t == outbox[i].id
             e == outbox[i].subject
  <2>1. t \in Transfers /\ e \in EventType
    BY OutboxRows DEF Inv, OutboxRow
  <2>2. events[t][e] > 0 /\ Past(StateOf(e), row[t])
    BY DEF Inv, SagaInv, OutboxInv
  <2>3. WellFormed(row[t]) /\ row[t] \in Transfer
    BY <2>1 DEF Inv, SagaInv, TypeOK, RowInv
  <2> HIDE DEF t, e
  <2>4. /\ row[t].version >= VersionOf(e)
        /\ e = "transfer.completed" => row[t].state = "COMPLETED"
        /\ e = "transfer.failed" => row[t].state = "FAILED"
    BY <2>1, <2>2, <2>3 DEF EventType, StateOf, VersionOf, Past, WellFormed, Transfer,
                            State, None
  <2> QED
    BY <2>2, <2>4 DEF t, e
<1> QED
  BY <1>1, Invariance, PTL

\* What UpdateState does to the row: one step of the state machine, with the
\* effect of the new state in place.
LEMMA UpdateMoves ==
  ASSUME Inv, NEW w \in Workers, UpdateState(w)
  PROVE  LET id == worker[w].id  y == worker[w].t IN
         /\ id \in Transfers /\ y \in Transfer /\ WellFormed(y) /\ Effected(id, y)
         /\ row' = [row EXCEPT ![id] = y]
         /\ row[id].state = Before(y) /\ y.state # "PENDING"
         /\ y.version = row[id].version + 1
         /\ y.state \in validTransitions[row[id].state]
<1> DEFINE id == worker[w].id
           y == worker[w].t
<1>0. worker[w].pc = "update" /\ row[id].version = y.version - 1
  BY DEF UpdateState
<1>1. /\ id \in Transfers /\ y \in Transfer /\ WellFormed(y) /\ TaskInv(worker[w])
      /\ row[id] \in Transfer /\ WellFormed(row[id]) /\ worker[w] # Idle
  BY <1>0, Busy DEF Pc, RowInv
<1>2. y.state # "PENDING" /\ Past(Before(y), row[id]) /\ Effected(id, y)
  BY <1>0, <1>1 DEF TaskInv
<1>3. row' = [row EXCEPT ![id] = y]
  BY DEF UpdateState
<1> HIDE DEF id, y
<1>4. row[id].state = Before(y)
  BY <1>0, <1>1, <1>2, LockedRow
<1>5. y.state \in validTransitions[row[id].state] /\ y.version = row[id].version + 1
  BY <1>1, <1>2, <1>4, PastGrows
<1> QED
  BY <1>1, <1>2, <1>3, <1>4, <1>5 DEF id, y

\* UpdateState is the only action that changes a row.
LEMMA OnlyUpdates ==
  ASSUME [Next]_vars, row' # row
  PROVE  \E w \in Workers : UpdateState(w)
BY DEF Next, Step, Execute, LockForUpdate, GetBalance, PostEntries, PostingRejected,
       BankAcknowledges, BankFails, UpdateConflict, AppendEvent, WriteOutbox, Abort,
       SaveAccount, vars

\* No committed update is lost: rows change one version at a time, along the
\* state machine.
THEOREM NoLostUpdate == Spec => RowsAdvance
<1> DEFINE A == \A t \in Transfers : row'[t] # row[t] =>
                  /\ row'[t].version = row[t].version + 1
                  /\ row'[t].state \in validTransitions[row[t].state]
<1>1. Inv /\ [Next]_vars => [A]_vars
  <2> SUFFICES ASSUME Inv, [Next]_vars, NEW t \in Transfers, row'[t] # row[t]
               PROVE  /\ row'[t].version = row[t].version + 1
                      /\ row'[t].state \in validTransitions[row[t].state]
    OBVIOUS
  <2>1. PICK w \in Workers : UpdateState(w)
    BY OnlyUpdates
  <2>2. PICK id, y : id = worker[w].id /\ y = worker[w].t
    OBVIOUS
  <2>3. /\ row' = [row EXCEPT ![id] = y]
        /\ y.version = row[id].version + 1
        /\ y.state \in validTransitions[row[id].state]
    BY <2>1, <2>2, UpdateMoves
  <2>4. t = id /\ row'[t] = y
    BY <2>3 DEF Inv, TypeOK
  <2> QED
    BY <2>3, <2>4
<1> QED
  BY <1>1, Invariance, PTL DEF Spec, RowsAdvance

-----------------------------------------------------------------------------
(* The saga implements the contract.                                       *)

\* The initial states map to initial states.
LEMMA ContractInit == Init => Contract!CInit
<1> SUFFICES ASSUME Init PROVE Contract!CInit
  OBVIOUS
<1>1. [t \in Transfers |-> row[t].state] = [t \in Transfers |-> "PENDING"]
  BY DEF Init, New
<1>2. \A t \in Transfers : {l \in Leg : posted[t][l] > 0} = {}
  BY DEF Init
<1>3. {t \in Transfers : acks[t] > 0} = {}
  BY DEF Init
<1> QED
  BY <1>1, <1>2, <1>3 DEF Contract!CInit

\* A posting is the first of its leg, in a state the contract allows, or a
\* stuttering step.
LEMMA PostEntriesContract ==
  ASSUME Inv, NEW w \in Workers, PostEntries(w)
  PROVE  [Contract!CNext]_(Contract!contractVars)
<1> PICK id, x, l : /\ id = worker[w].id /\ x = worker[w].t
                    /\ l = Head(worker[w].legs)
  OBVIOUS
<1>0. worker[w].pc = "post"
  BY DEF PostEntries
<1>1. /\ id \in Transfers /\ row[id] \in Transfer /\ RowInv(id) /\ worker[w] # Idle
      /\ TaskInv(worker[w])
  BY <1>0, Busy DEF Pc
<1>2. \/ l = "debit"
      \/ l = "credit" /\ row[id].externalRef # None
      \/ l = "reverseDebit" /\ row[id].failureReason = "bank"
  BY <1>0, <1>1 DEF TaskInv, Past
<1>3. /\ posted' = [posted EXCEPT ![id][l] = @ + 1] /\ l \in Leg
      /\ row' = row /\ acks' = acks
  BY <1>2 DEF PostEntries, Leg
<1>4. /\ posted'[id][l] > 0
      /\ \A t \in Transfers, m \in Leg : t # id \/ m # l => posted'[t][m] = posted[t][m]
  <2>1. posted \in [Transfers -> [Leg -> Nat]]
    BY Zenon DEF Inv, TypeOK
  <2>2. id \in Transfers /\ l \in Leg
    BY <1>1, <1>3
  <2> QED
    BY <1>3, <2>1, <2>2
<1>5. /\ {m \in Leg : posted'[id][m] > 0} = {m \in Leg : posted[id][m] > 0} \cup {l}
      /\ \A t \in Transfers : t # id =>
           {m \in Leg : posted'[t][m] > 0} = {m \in Leg : posted[t][m] > 0}
  BY <1>1, <1>3, <1>4
<1> DEFINE legs == [t \in Transfers |-> {m \in Leg : posted[t][m] > 0}]
<1>6. legs' = [legs EXCEPT ![id] = @ \cup {l}]
  BY <1>1, <1>5
<1>7. CASE posted[id][l] > 0
  <2>1. legs' = legs
    BY <1>1, <1>3, <1>5, <1>7
  <2> QED
    BY <1>3, <2>1 DEF Contract!contractVars
<1>8. CASE ~(posted[id][l] > 0)
  <2>1. \/ l = "debit" /\ row[id].state \in {"PENDING", "FAILED"}
        \/ l = "credit" /\ row[id].state = "BANK_CALLED"
        \/ l = "reverseDebit" /\ row[id].state = "COMPENSATING"
    BY <1>1, <1>2, <1>8 DEF RowInv, Effected, WellFormed, Transfer, State
  <2>2. Contract!PostDebit(id) \/ Contract!PostCredit(id) \/ Contract!PostRefund(id)
    BY <1>1, <1>3, <1>6, <2>1
       DEF Contract!PostDebit, Contract!PostCredit, Contract!PostRefund
  <2> QED
    BY <1>1, <2>2 DEF Contract!CNext
<1> QED
  BY <1>7, <1>8

\* An acknowledgement is the first one, of a debited transfer, or stuttering.
LEMMA BankContract ==
  ASSUME Inv, NEW w \in Workers, BankAcknowledges(w)
  PROVE  [Contract!CNext]_(Contract!contractVars)
<1> PICK id : id = worker[w].id
  OBVIOUS
<1>0. worker[w].pc = "bank"
  BY DEF BankAcknowledges
<1>1. /\ id \in Transfers /\ row[id] \in Transfer /\ RowInv(id) /\ row[id].debitPosted
  BY <1>0, Busy DEF Pc, TaskInv, Past
<1>2. acks' = [acks EXCEPT ![id] = @ + 1] /\ row' = row /\ posted' = posted
  BY DEF BankAcknowledges
<1>3. {t \in Transfers : acks'[t] > 0} = {t \in Transfers : acks[t] > 0} \cup {id}
  BY <1>1, <1>2 DEF Inv, TypeOK
<1>4. CASE acks[id] > 0
  <2>1. {t \in Transfers : acks'[t] > 0} = {t \in Transfers : acks[t] > 0}
    BY <1>1, <1>3, <1>4
  <2> QED
    BY <1>2, <2>1 DEF Contract!contractVars
<1>5. CASE ~(acks[id] > 0)
  <2>1. row[id].state \in {"DEBITED", "COMPENSATING", "FAILED"}
    BY <1>1, <1>5 DEF RowInv, Effected, WellFormed, Transfer, State
  <2>2. Contract!Acknowledge(id)
    BY <1>1, <1>2, <1>3, <2>1 DEF Contract!Acknowledge
  <2> QED
    BY <1>1, <2>2 DEF Contract!CNext
<1> QED
  BY <1>4, <1>5

\* A committed update is a state change of the contract.
LEMMA UpdateContract ==
  ASSUME Inv, NEW w \in Workers, UpdateState(w)
  PROVE  Contract!CNext
<1> PICK id, y : id = worker[w].id /\ y = worker[w].t
  OBVIOUS
<1>1. /\ id \in Transfers /\ y \in Transfer /\ WellFormed(y) /\ Effected(id, y)
      /\ row' = [row EXCEPT ![id] = y]
      /\ row[id].state = Before(y) /\ y.state # "PENDING"
  BY UpdateMoves
<1>2. posted' = posted /\ acks' = acks
  BY DEF UpdateState
<1> DEFINE state == [t \in Transfers |-> row[t].state]
<1>3. state' = [state EXCEPT ![id] = y.state]
  BY <1>1 DEF Inv, TypeOK
<1>4. Contract!Enter(id, y.state)
  BY <1>2, <1>3 DEF Contract!Enter
<1>5. state[id] = Before(y)
  BY <1>1
<1>6. /\ y.state = "DEBITED" => state[id] = "PENDING" /\ posted[id]["debit"] > 0
      /\ y.state = "BANK_CALLED" => state[id] = "DEBITED" /\ acks[id] > 0
      /\ y.state = "COMPENSATING" => state[id] = "DEBITED"
      /\ y.state = "CREDITED" => state[id] = "BANK_CALLED" /\ posted[id]["credit"] > 0
      /\ y.state = "COMPLETED" => state[id] = "CREDITED"
      /\ y.state = "FAILED" => \/ state[id] = "PENDING"
                               \/ state[id] = "COMPENSATING" /\ posted[id]["reverseDebit"] > 0
  <2> HIDE DEF state
  <2> QED
    BY <1>1, <1>5 DEF Before, WellFormed, Effected, Transfer
<1>7. \/ Contract!Debited(id) \/ Contract!Refused(id) \/ Contract!BankCalled(id)
      \/ Contract!Compensating(id) \/ Contract!Credited(id) \/ Contract!Completed(id)
      \/ Contract!Refunded(id)
  <2>1. y.state \in State \ {"PENDING"}
    BY <1>1 DEF Transfer
  <2> QED
    BY <1>1, <1>4, <1>6, <2>1 DEF State, Leg, Contract!Debited, Contract!Refused,
       Contract!BankCalled, Contract!Compensating, Contract!Credited,
       Contract!Completed, Contract!Refunded
<1> QED
  BY <1>1, <1>7 DEF Contract!CNext

\* The saga implements the contract, however many workers there are: each
\* effect first takes place in the state meant for it, and each state change
\* follows its effect.
THEOREM Refinement == Spec => KeepsContract
<1>1. Inv /\ [Next]_vars => [Contract!CNext]_(Contract!contractVars)
  <2> SUFFICES ASSUME Inv, [Next]_vars PROVE [Contract!CNext]_(Contract!contractVars)
    OBVIOUS
  <2>1. CASE \E w \in Workers : PostEntries(w)
    BY <2>1, PostEntriesContract
  <2>2. CASE \E w \in Workers : BankAcknowledges(w)
    BY <2>2, BankContract
  <2>3. CASE \E w \in Workers : UpdateState(w)
    BY <2>3, UpdateContract
  <2>4. CASE UNCHANGED <<row, posted, acks>>
    BY <2>4 DEF Contract!contractVars
  <2> QED
    BY <2>1, <2>2, <2>3, <2>4 DEF Next, Step, Execute, LockForUpdate, GetBalance,
       PostingRejected, BankFails, UpdateConflict, AppendEvent, WriteOutbox, Abort,
       SaveAccount, vars
<1> QED
  BY <1>1, ContractInit, Invariance, PTL DEF Spec, KeepsContract, Contract!CSpec
=============================================================================
