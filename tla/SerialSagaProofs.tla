-------------------------- MODULE SerialSagaProofs --------------------------
(***************************************************************************)
(* Proofs of what TransferSaga promises when a single worker runs it, for  *)
(* any number of transfers, accounts and faults: exactly-once effects, the *)
(* balance of the clearing account, and no overdraft.                      *)
(***************************************************************************)
EXTENDS TransferSagaProofs, Sums

-----------------------------------------------------------------------------
(* Effects.                                                                *)

\* Two copies of a transfer that ask for the same effects.
SameEffects(x, y) ==
  /\ x.debitPosted = y.debitPosted /\ x.creditPosted = y.creditPosted
  /\ x.externalRef = None <=> y.externalRef = None
  /\ x.state = "FAILED" /\ x.debitPosted <=> y.state = "FAILED" /\ y.debitPosted

LEMMA SameOnce ==
  ASSUME NEW t, NEW x, NEW y, SameEffects(x, y), EffectedOnce(t, x)
  PROVE  EffectedOnce(t, y)
BY DEF SameEffects, EffectedOnce, Once

\* The transitions without an effect: refusing a transfer, giving up on the
\* bank, completing.
LEMMA Effectless ==
  ASSUME NEW x \in Transfer, NEW y \in Transfer, WellFormed(x), WellFormed(y),
         \/ x.state = "PENDING" /\ y.state = "FAILED" /\ ~y.debitPosted
         \/ x.state = "DEBITED" /\ y.state = "COMPENSATING"
         \/ x.state = "CREDITED" /\ y.state = "COMPLETED"
  PROVE  SameEffects(x, y) /\ x.version = y.version - 1
BY DEF SameEffects, WellFormed, Transfer, None

\* The single worker goes on with task k.
LEMMA SingleTask ==
  ASSUME OneWorker, TypeOK, NEW w \in Workers, NEW k,
         worker' = [worker EXCEPT ![w] = k], CopyInv(k)',
         \A t \in Transfers : faults' = 0 /\ ~(k.pc = "update" /\ k.id = t) =>
           EffectedOnce(t, row[t])',
         \A t \in Transfers, l \in Leg : posted'[t][l] > 0 => CanPost(t, l)
  PROVE  SerialInv'
<1>1. worker'[w] = k /\ \A v \in Workers : v = w
  BY DEF TypeOK, OneWorker
<1>2. \A v \in Workers : CopyInv(worker[v])'
  <2> TAKE v \in Workers
  <2>1. worker'[v] = k
    BY <1>1, Zenon
  <2> QED
    BY <2>1 DEF CopyInv, EffectedOnce
<1>3. \A t \in Transfers : k.pc = "update" /\ k.id = t => Ahead(t)'
  BY <1>1, Zenon DEF Ahead
<1> QED
  BY <1>2, <1>3, Zenon DEF SerialInv

\* What SerialInv says of the single worker.
LEMMA Single ==
  ASSUME OneWorker, SerialInv, NEW w \in Workers
  PROVE  /\ CopyInv(worker[w])
         /\ \A t \in Transfers : faults = 0 /\ ~(worker[w].pc = "update" /\ worker[w].id = t) =>
              EffectedOnce(t, row[t])
<1>1. \A v \in Workers : v = w
  BY DEF OneWorker
<1>2. \A t \in Transfers : Ahead(t) => worker[w].pc = "update" /\ worker[w].id = t
  BY <1>1, Zenon DEF Ahead
<1> QED
  BY <1>2, Zenon DEF SerialInv

\* A step without an effect, other than UpdateState.
LEMMA NoEffect ==
  ASSUME OneWorker, Inv, SerialInv, NEW w \in Workers, NEW k \in {Idle} \cup Task,
         worker' = [worker EXCEPT ![w] = k],
         UNCHANGED <<row, posted, acks>>,
         faults' = 0 => faults = 0 /\ worker[w].pc # "update",
         k.pc \in {"lock", "balance", "post", "bank"} => k.t = row[k.id],
         k.pc = "update" => /\ row[k.id].version = k.t.version - 1
                            /\ SameEffects(row[k.id], k.t)
  PROVE  SerialInv'
<1>1. \A t \in Transfers : faults' = 0 => EffectedOnce(t, row[t])
  BY Single, Zenon
<1>2. \A t, x : EffectedOnce(t, x) => EffectedOnce(t, x)'
  BY DEF EffectedOnce
<1>3. k.pc = "update" => k.id \in Transfers
  BY DEF Idle, Task
<1>4. k.pc = "update" /\ faults' = 0 => EffectedOnce(k.id, k.t)'
  BY <1>1, <1>2, <1>3, SameOnce, Zenon
<1>5. CopyInv(k)'
  <2>1. row' = row
    OBVIOUS
  <2> QED
    BY <1>4, <2>1, Zenon DEF CopyInv
<1>6. \A t \in Transfers : faults' = 0 => EffectedOnce(t, row[t])'
  BY <1>1, <1>2 DEF EffectedOnce
<1>7. \A t \in Transfers, l \in Leg : posted'[t][l] > 0 => CanPost(t, l)
  BY DEF SerialInv
<1>8. TypeOK
  BY DEF Inv
<1> QED
  BY <1>5, <1>6, <1>7, <1>8, SingleTask, Zenon

\* What At makes is a task.
LEMMA Tasks ==
  ASSUME NEW pc \in Pc, NEW id \in Transfers, NEW x \in Transfer,
         NEW legs \in {<<>>, <<"debit">>, <<"credit">>, <<"reverseDebit">>}
  PROVE  LET k == At(pc, id, x, legs) IN k \in Task /\ k.pc = pc /\ k.id = id /\ k.t = x
<1>1. {<<>>, <<"debit">>, <<"credit">>, <<"reverseDebit">>} \subseteq Seq(Leg)
  BY DEF Leg
<1>2. legs \in Seq(Leg)
  BY <1>1, Zenon
<1> QED
  BY <1>2 DEF At, Task

\* Execute takes a fresh copy of the row, and completes it at once or stops at
\* the first call of its step.
LEMMA ExecuteSerial ==
  ASSUME OneWorker, Inv, SerialInv, NEW w \in Workers, NEW id \in Transfers, Execute(w, id)
  PROVE  SerialInv'
<1> PICK x : x = row[id]
  OBVIOUS
<1> DEFINE k == FirstCall(id, x)
<1>1. x \in Transfer /\ WellFormed(x) /\ x = row[id]
  BY DEF Inv, TypeOK, SagaInv, RowInv
<1>2. /\ k \in {Idle} \cup Task
      /\ k.pc \in {"lock", "balance", "post", "bank"} => k.t = row[k.id]
      /\ k.pc = "update" => /\ row[k.id].version = k.t.version - 1
                            /\ SameEffects(row[k.id], k.t)
  <2>1. CASE k \in {At("lock", id, x, <<>>), At("bank", id, x, <<>>),
                    At("post", id, x, <<"credit">>), At("post", id, x, <<"reverseDebit">>)}
    <3>1. k \in Task /\ k.id = id /\ k.t = x /\ k.pc # "update"
      BY <1>1, <2>1, Tasks DEF Pc
    <3> QED
      BY <1>1, <3>1, Zenon
  <2>2. CASE x.state = "CREDITED"
    <3>1. k = Advance(id, x, "COMPLETED")
      BY <2>2 DEF FirstCall
    <3>2. PICK y \in Transfer :
            k = At("update", id, y, <<>>) /\ WellFormed(y) /\ y.state = "COMPLETED"
      BY <1>1, <2>2, <3>1, Completing
    <3>3. SameEffects(x, y) /\ x.version = y.version - 1
      BY <1>1, <2>2, <3>2, Effectless
    <3>4. k \in Task /\ k.pc = "update" /\ k.id = id /\ k.t = y
      BY <3>2, Tasks DEF Pc
    <3> QED
      BY <1>1, <3>3, <3>4
  <2>3. CASE k = Idle
    BY <2>3 DEF Idle
  <2>4. x.state = "COMPENSATING" => k = At("post", id, x, <<"reverseDebit">>)
    BY <1>1, Compensating DEF FirstCall
  <2>5. \/ k \in {At("lock", id, x, <<>>), At("bank", id, x, <<>>), At("post", id, x, <<"credit">>)}
        \/ x.state \in {"CREDITED", "COMPENSATING"} \/ k = Idle
    BY DEF FirstCall
  <2> QED
    BY <2>1, <2>2, <2>3, <2>4, <2>5
<1> HIDE DEF k
<1>3. worker' = [worker EXCEPT ![w] = k] /\ UNCHANGED <<row, posted, acks>> /\ faults' = faults
  BY DEF Execute, Goto, k
<1>4. worker[w].pc # "update"
  BY DEF Execute, Idle
<1> QED
  BY <1>2, <1>3, <1>4, NoEffect, Zenon

\* LockForUpdate and GetBalance go on with the copy or refuse the transfer.
LEMMA ReadSerial ==
  ASSUME OneWorker, Inv, SerialInv, NEW w \in Workers, LockForUpdate(w) \/ GetBalance(w)
  PROVE  SerialInv'
<1> PICK id, x : id = worker[w].id /\ x = worker[w].t
  OBVIOUS
<1>0. worker[w].pc \in {"lock", "balance"}
  BY DEF LockForUpdate, GetBalance
<1>1. id \in Transfers /\ x \in Transfer /\ WellFormed(x) /\ x.state = "PENDING"
  BY <1>0, Busy DEF Pc, TaskInv
<1>2. x = row[id]
  BY <1>0, Single DEF CopyInv
<1>3. PICK k : /\ worker' = [worker EXCEPT ![w] = k]
               /\ k \in {At("balance", id, x, <<>>), At("post", id, x, <<"debit">>),
                         failWith(id, x, "account"), failWith(id, x, "funds")}
  BY DEF LockForUpdate, GetBalance, Goto
<1>4. /\ k \in Task
      /\ k.pc \in {"lock", "balance", "post", "bank"} => k.t = row[k.id]
      /\ k.pc = "update" => /\ row[k.id].version = k.t.version - 1
                            /\ SameEffects(row[k.id], k.t)
  <2>1. CASE k \in {At("balance", id, x, <<>>), At("post", id, x, <<"debit">>)}
    <3>1. k \in Task /\ k.id = id /\ k.t = x /\ k.pc # "update"
      BY <1>1, <2>1, Tasks DEF Pc
    <3> QED
      BY <1>2, <3>1, Zenon
  <2>2. ASSUME NEW r \in {"account", "funds"}, k = failWith(id, x, r)
        PROVE  /\ k \in Task /\ k.pc = "update"
               /\ row[k.id].version = k.t.version - 1
               /\ SameEffects(row[k.id], k.t)
    <3>1. PICK y \in Transfer :
            /\ k = At("update", id, y, <<>>)
            /\ WellFormed(y) /\ y.state = "FAILED" /\ ~y.debitPosted
      BY <1>1, <2>2, Refusing
    <3>2. SameEffects(x, y) /\ x.version = y.version - 1
      BY <1>1, <3>1, Effectless
    <3>3. k \in Task /\ k.pc = "update" /\ k.id = id /\ k.t = y
      BY <1>1, <3>1, Tasks DEF Pc
    <3> QED
      BY <1>2, <3>2, <3>3
  <2>3. k = failWith(id, x, "account") \/ k = failWith(id, x, "funds") =>
          /\ k \in Task /\ k.pc = "update"
          /\ row[k.id].version = k.t.version - 1
          /\ SameEffects(row[k.id], k.t)
    BY <2>2
  <2> QED
    BY <1>3, <2>1, <2>3
<1>5. UNCHANGED <<row, posted, acks>> /\ faults' = faults
  BY DEF LockForUpdate, GetBalance
<1> QED
  BY <1>0, <1>3, <1>4, <1>5, NoEffect

\* An error ends the call.  UpdateState never meets a conflict.
LEMMA ReturnSerial ==
  ASSUME OneWorker, Inv, SerialInv, NEW w \in Workers,
         PostingRejected(w) \/ UpdateConflict(w) \/ Abort(w)
  PROVE  SerialInv'
<1>1. ~UpdateConflict(w)
  BY Single DEF UpdateConflict, CopyInv
<1>2. worker' = [worker EXCEPT ![w] = Idle]
  BY DEF PostingRejected, UpdateConflict, Abort, Goto
<1>3. UNCHANGED <<row, posted, acks>>
  BY DEF PostingRejected, UpdateConflict, Abort
<1>4. faults' = 0 => faults = 0 /\ worker[w].pc # "update"
  <2>1. faults \in Nat
    BY SagaAssumption DEF Inv, TypeOK
  <2> QED
    BY <1>1, <2>1 DEF PostingRejected, Abort
<1>5. Idle.pc \notin {"lock", "balance", "post", "bank", "update"}
  BY DEF Idle
<1> QED
  BY <1>2, <1>3, <1>4, <1>5, NoEffect

\* The bank fails: COMPENSATING asks for no effect that DEBITED did not.
LEMMA BankFailsSerial ==
  ASSUME OneWorker, Inv, SerialInv, NEW w \in Workers, BankFails(w)
  PROVE  SerialInv'
<1> PICK id, x : id = worker[w].id /\ x = worker[w].t
  OBVIOUS
<1>0. worker[w].pc = "bank"
  BY DEF BankFails
<1>1. id \in Transfers /\ x \in Transfer /\ WellFormed(x) /\ x.state = "DEBITED"
  BY <1>0, Busy DEF Pc, TaskInv
<1>2. x = row[id]
  BY <1>0, Single DEF CopyInv
<1>3. PICK k : /\ worker' = [worker EXCEPT ![w] = k]
               /\ k = Advance(id, [x EXCEPT !.failureReason = "bank"], "COMPENSATING")
  BY DEF BankFails, Goto
<1>4. PICK y \in Transfer :
        k = At("update", id, y, <<>>) /\ WellFormed(y) /\ y.state = "COMPENSATING"
  BY <1>1, <1>3, StartingCompensation
<1>5. SameEffects(x, y) /\ x.version = y.version - 1
  BY <1>1, <1>4, Effectless
<1>6. k \in Task /\ k.pc = "update" /\ k.id = id /\ k.t = y
  BY <1>1, <1>4, Tasks DEF Pc
<1>7. UNCHANGED <<row, posted, acks>> /\ faults' = faults
  BY DEF BankFails
<1>8. /\ k.pc \notin {"lock", "balance", "post", "bank"}
      /\ row[k.id].version = k.t.version - 1 /\ SameEffects(row[k.id], k.t)
  BY <1>2, <1>5, <1>6
<1> QED
  BY <1>0, <1>3, <1>6, <1>7, <1>8, NoEffect, Zenon

\* publishEvent has no effect on the ledger and the bank.
LEMMA PublishSerial ==
  ASSUME OneWorker, Inv, SerialInv, NEW w \in Workers, AppendEvent(w) \/ WriteOutbox(w)
  PROVE  SerialInv'
<1>0. worker[w].pc \in {"append", "outbox"}
  BY DEF AppendEvent, WriteOutbox
<1>1. worker[w].id \in Transfers /\ worker[w].t \in Transfer
  BY <1>0, Busy DEF Pc
<1>2. PICK k : /\ worker' = [worker EXCEPT ![w] = k]
               /\ k \in {Idle, At("outbox", worker[w].id, worker[w].t, <<>>)}
  BY DEF AppendEvent, WriteOutbox, Goto
<1>3. k \in {Idle} \cup Task /\ k.pc \in {"idle", "outbox"}
  BY <1>1, <1>2, Tasks DEF Idle, Pc
<1>4. UNCHANGED <<row, posted, acks>> /\ faults' = faults
  BY DEF AppendEvent, WriteOutbox
<1> QED
  BY <1>0, <1>2, <1>3, <1>4, NoEffect

\* A step that has its effect on the worker's transfer and goes on to update
\* it with y.
LEMMA Effect ==
  ASSUME OneWorker, Inv, SerialInv, NEW w \in Workers,
         worker[w].pc \in {"post", "bank"},
         NEW id \in Transfers, id = worker[w].id,
         NEW y \in Transfer, row[id].version = y.version - 1,
         worker' = [worker EXCEPT ![w] = At("update", id, y, <<>>)],
         row' = row, faults' = faults,
         \A t \in Transfers : t # id => posted'[t] = posted[t] /\ acks'[t] = acks[t],
         EffectedOnce(id, row[id]) => EffectedOnce(id, y)',
         \A t \in Transfers, l \in Leg : posted'[t][l] > 0 => CanPost(t, l)
  PROVE  SerialInv'
<1> PICK k : k = At("update", id, y, <<>>)
  OBVIOUS
<1>1. k.pc = "update" /\ k.id = id /\ k.t = y /\ worker' = [worker EXCEPT ![w] = k]
  BY Tasks DEF Pc
<1>2. \A t \in Transfers : faults = 0 => EffectedOnce(t, row[t])
  <2>1. worker[w].pc # "update"
    OBVIOUS
  <2> QED
    BY <2>1, Single, Zenon
<1>3. faults' = 0 => EffectedOnce(id, y)'
  BY <1>2
<1>4. CopyInv(k)'
  BY <1>1, <1>3 DEF CopyInv
<1>5. \A t \in Transfers : t # id /\ faults' = 0 => EffectedOnce(t, row[t])'
  BY <1>2 DEF EffectedOnce
<1>6. \A t \in Transfers : faults' = 0 /\ ~(k.pc = "update" /\ k.id = t) =>
        EffectedOnce(t, row[t])'
  BY <1>1, <1>5, Zenon
<1>7. TypeOK
  BY DEF Inv
<1> QED
  BY <1>1, <1>4, <1>6, <1>7, SingleTask, Zenon

\* callBank: the one call that the bank acknowledges.
LEMMA BankAcknowledgesSerial ==
  ASSUME OneWorker, Inv, SerialInv, NEW w \in Workers, BankAcknowledges(w)
  PROVE  SerialInv'
<1> PICK id, x : id = worker[w].id /\ x = worker[w].t
  OBVIOUS
<1>0. worker[w].pc = "bank"
  BY DEF BankAcknowledges
<1>1. id \in Transfers /\ x \in Transfer /\ WellFormed(x) /\ x.state = "DEBITED"
  BY <1>0, Busy DEF Pc, TaskInv
<1>2. x = row[id]
  BY <1>0, Single DEF CopyInv
<1>3. PICK y \in Transfer :
        /\ Advance(id, [x EXCEPT !.externalRef = "BANK-REF"], "BANK_CALLED")
           = At("update", id, y, <<>>)
        /\ WellFormed(y) /\ y.state = "BANK_CALLED"
  BY <1>1, Acknowledging
<1>4. /\ worker' = [worker EXCEPT ![w] = At("update", id, y, <<>>)]
      /\ acks' = [acks EXCEPT ![id] = @ + 1]
      /\ row' = row /\ faults' = faults /\ posted' = posted
  BY <1>3 DEF BankAcknowledges, Goto
<1>5. acks'[id] = acks[id] + 1 /\ \A t \in Transfers : t # id => acks'[t] = acks[t]
  BY <1>1, <1>4 DEF Inv, TypeOK
<1>6. row[id].version = y.version - 1
  BY <1>1, <1>2, <1>3 DEF WellFormed
<1>7. EffectedOnce(id, row[id]) => EffectedOnce(id, y)'
  <2>1. /\ x.debitPosted = y.debitPosted /\ x.creditPosted = y.creditPosted
        /\ x.externalRef = None /\ y.externalRef # None
        /\ x.state # "FAILED" /\ y.state # "FAILED"
    BY <1>1, <1>3 DEF WellFormed, Transfer
  <2> QED
    BY <1>2, <1>4, <1>5, <2>1 DEF EffectedOnce, Once
<1>8. \A t \in Transfers, l \in Leg : posted'[t][l] > 0 => CanPost(t, l)
  BY <1>4 DEF SerialInv
<1>9. \A t \in Transfers : t # id => posted'[t] = posted[t] /\ acks'[t] = acks[t]
  BY <1>4, <1>5
<1> QED
  BY <1>0, <1>1, <1>3, <1>4, <1>6, <1>7, <1>8, <1>9, Effect

\* A posting, and the state change that follows it.
LEMMA OnePosting ==
  ASSUME Inv, NEW w \in Workers, PostEntries(w)
  PROVE  LET id == worker[w].id  x == worker[w].t IN
         /\ worker[w].pc = "post" /\ id \in Transfers /\ x \in Transfer /\ WellFormed(x)
         /\ \E l \in Leg, y \in Transfer :
              /\ \/ x.state = "PENDING" /\ l = "debit" /\ y.state = "DEBITED"
                 \/ x.state = "BANK_CALLED" /\ l = "credit" /\ y.state = "CREDITED"
                 \/ /\ x.state = "COMPENSATING" /\ l = "reverseDebit"
                    /\ y.state = "FAILED" /\ y.debitPosted
              /\ WellFormed(y) /\ CanPost(id, l)
              /\ worker' = [worker EXCEPT ![w] = At("update", id, y, <<>>)]
              /\ posted' = [posted EXCEPT ![id][l] = @ + 1]
<1> PICK id, x, l : /\ id = worker[w].id /\ x = worker[w].t
                    /\ l = Head(worker[w].legs)
  OBVIOUS
<1>0. worker[w].pc = "post"
  BY DEF PostEntries
<1>1. id \in Transfers /\ x \in Transfer /\ WellFormed(x) /\ TaskInv(worker[w]) /\ worker[w] # Idle
  BY <1>0, Busy DEF Pc
<1>2. \/ x.state = "PENDING" /\ worker[w].legs = <<"debit">>
      \/ x.state = "BANK_CALLED" /\ worker[w].legs = <<"credit">>
      \/ x.state = "COMPENSATING" /\ worker[w].legs = <<"reverseDebit">>
  BY <1>0, <1>1 DEF TaskInv
<1>3. /\ \/ x.state = "PENDING" /\ l = "debit"
         \/ x.state = "BANK_CALLED" /\ l = "credit"
         \/ x.state = "COMPENSATING" /\ l = "reverseDebit"
      /\ Len(worker[w].legs) = 1 /\ l \in Leg
  BY <1>2 DEF Leg
<1>4. /\ worker' = [worker EXCEPT ![w] = AfterPosting(id, x)]
      /\ posted' = [posted EXCEPT ![id][l] = @ + 1]
      /\ CanPost(id, l)
  BY <1>3 DEF PostEntries, Goto
<1>5. PICK y \in Transfer :
        /\ AfterPosting(id, x) = At("update", id, y, <<>>) /\ WellFormed(y)
        /\ \/ x.state = "PENDING" /\ y.state = "DEBITED"
           \/ x.state = "BANK_CALLED" /\ y.state = "CREDITED"
           \/ x.state = "COMPENSATING" /\ y.state = "FAILED" /\ y.debitPosted
  <2>1. CASE x.state = "PENDING"
    BY <1>1, <2>1, Debiting
  <2>2. CASE x.state = "BANK_CALLED"
    BY <1>1, <2>2, Crediting
  <2>3. CASE x.state = "COMPENSATING"
    BY <1>1, <2>3, Refunding
  <2> QED
    BY <1>3, <2>1, <2>2, <2>3
<1>6. /\ \/ x.state = "PENDING" /\ l = "debit" /\ y.state = "DEBITED"
         \/ x.state = "BANK_CALLED" /\ l = "credit" /\ y.state = "CREDITED"
         \/ /\ x.state = "COMPENSATING" /\ l = "reverseDebit"
            /\ y.state = "FAILED" /\ y.debitPosted
      /\ worker' = [worker EXCEPT ![w] = At("update", id, y, <<>>)]
  BY <1>3, <1>4, <1>5
<1> QED
  BY <1>0, <1>1, <1>3, <1>4, <1>5, <1>6, Zenon

\* PostEntries: the one posting of its leg.
LEMMA PostEntriesSerial ==
  ASSUME OneWorker, Inv, SerialInv, NEW w \in Workers, PostEntries(w)
  PROVE  SerialInv'
<1>1. PICK id, x : id = worker[w].id /\ x = worker[w].t
  OBVIOUS
<1>2. worker[w].pc = "post" /\ id \in Transfers /\ x \in Transfer /\ WellFormed(x)
  BY <1>1, OnePosting
<1>3. PICK l \in Leg, y \in Transfer :
        /\ \/ x.state = "PENDING" /\ l = "debit" /\ y.state = "DEBITED"
           \/ x.state = "BANK_CALLED" /\ l = "credit" /\ y.state = "CREDITED"
           \/ /\ x.state = "COMPENSATING" /\ l = "reverseDebit"
              /\ y.state = "FAILED" /\ y.debitPosted
        /\ WellFormed(y) /\ CanPost(id, l)
        /\ worker' = [worker EXCEPT ![w] = At("update", id, y, <<>>)]
        /\ posted' = [posted EXCEPT ![id][l] = @ + 1]
  BY <1>1, OnePosting
<1>4. x = row[id]
  BY <1>1, <1>2, Single DEF CopyInv
<1>5. /\ posted'[id][l] = posted[id][l] + 1
      /\ \A m \in Leg : m # l => posted'[id][m] = posted[id][m]
      /\ \A t \in Transfers : t # id => posted'[t] = posted[t]
  <2>1. posted \in [Transfers -> [Leg -> Nat]]
    BY DEF Inv, TypeOK
  <2> QED
    BY <1>2, <1>3, <2>1
<1>6. row' = row /\ faults' = faults /\ acks' = acks
  BY DEF PostEntries
<1>7. row[id].version = y.version - 1
  BY <1>2, <1>3, <1>4 DEF WellFormed
<1>8. EffectedOnce(id, row[id]) => EffectedOnce(id, y)'
  <2>1. /\ x.externalRef = None <=> y.externalRef = None
        /\ l = "debit" => /\ ~x.debitPosted /\ y.debitPosted
                          /\ ~x.creditPosted /\ ~y.creditPosted
                          /\ x.state # "FAILED" /\ y.state # "FAILED"
        /\ l = "credit" => /\ ~x.creditPosted /\ y.creditPosted
                           /\ x.debitPosted /\ y.debitPosted
                           /\ x.state # "FAILED" /\ y.state # "FAILED"
        /\ l = "reverseDebit" => /\ ~x.creditPosted /\ ~y.creditPosted
                                 /\ x.debitPosted /\ y.debitPosted
                                 /\ x.state # "FAILED" /\ y.state = "FAILED"
    BY <1>2, <1>3 DEF WellFormed, Transfer
  <2>2. l \in {"debit", "credit", "reverseDebit"} /\ {"debit", "credit", "reverseDebit"} \subseteq Leg
    BY <1>3 DEF Leg
  <2> QED
    BY <1>4, <1>5, <1>6, <2>1, <2>2 DEF EffectedOnce, Once
<1>9. \A t \in Transfers, m \in Leg : posted'[t][m] > 0 => CanPost(t, m)
  BY <1>3, <1>5 DEF SerialInv
<1>10. \A t \in Transfers : t # id => posted'[t] = posted[t] /\ acks'[t] = acks[t]
  BY <1>5, <1>6
<1> QED
  BY <1>1, <1>2, <1>3, <1>6, <1>7, <1>8, <1>9, <1>10, Effect

\* UpdateState: the row becomes the copy, whose effects are in place.
LEMMA UpdateStateSerial ==
  ASSUME OneWorker, Inv, SerialInv, NEW w \in Workers, UpdateState(w)
  PROVE  SerialInv'
<1>1. PICK id, y : id = worker[w].id /\ y = worker[w].t
  OBVIOUS
<1>2. worker[w].pc = "update"
  BY DEF UpdateState
<1>3. id \in Transfers /\ y \in Transfer /\ WellFormed(y)
  BY <1>1, <1>2, Busy DEF Pc
<1>4. PICK k : k = IF y.state = "COMPENSATING" THEN compensate(id, y)
                                               ELSE At("append", id, y, <<>>)
  OBVIOUS
<1>5. /\ worker' = [worker EXCEPT ![w] = k]
      /\ row' = [row EXCEPT ![id] = y]
      /\ posted' = posted /\ acks' = acks /\ faults' = faults
  BY <1>1, <1>4 DEF UpdateState, Goto
<1>6. k \in {At("post", id, y, <<"reverseDebit">>), At("append", id, y, <<>>)}
  BY <1>3, <1>4, Compensating
<1>7. k.pc # "update" /\ k.id = id /\ k.t = y
  BY <1>3, <1>6, Tasks DEF Pc
<1>8. row'[id] = y /\ \A t \in Transfers : t # id => row'[t] = row[t]
  BY <1>3, <1>5 DEF Inv, TypeOK
<1>9. CopyInv(k)'
  BY <1>7, <1>8 DEF CopyInv
<1>10. \A t \in Transfers : faults' = 0 => EffectedOnce(t, row[t])'
  <2> SUFFICES ASSUME NEW t \in Transfers, faults' = 0 PROVE EffectedOnce(t, row[t])'
    OBVIOUS
  <2>1. faults = 0
    BY <1>5
  <2>2. EffectedOnce(id, y)
    BY <1>1, <1>2, <2>1, Single DEF CopyInv
  <2>3. t # id => EffectedOnce(t, row[t])
    BY <1>1, <2>1, Single
  <2> QED
    BY <1>5, <1>8, <2>2, <2>3 DEF EffectedOnce
<1>11. \A t \in Transfers, l \in Leg : posted'[t][l] > 0 => CanPost(t, l)
  BY <1>5 DEF SerialInv
<1>12. TypeOK
  BY DEF Inv
<1> QED
  BY <1>5, <1>9, <1>10, <1>11, <1>12, SingleTask, Zenon

\* Every step of a single worker keeps SerialInv.
LEMMA NextSerial ==
  ASSUME OneWorker, Inv, SerialInv, [Next]_vars
  PROVE  SerialInv'
<1>1. ASSUME NEW w \in Workers, NEW id \in Transfers, Execute(w, id) PROVE SerialInv'
  BY <1>1, ExecuteSerial
<1>2. ASSUME NEW w \in Workers, Step(w) PROVE SerialInv'
  BY <1>2, ReadSerial, PostEntriesSerial, ReturnSerial, BankAcknowledgesSerial,
     BankFailsSerial, UpdateStateSerial, PublishSerial DEF Step
<1>3. ASSUME NEW w \in Workers, Abort(w) PROVE SerialInv'
  BY <1>3, ReturnSerial
<1>4. CASE UNCHANGED <<row, posted, acks, worker, faults>>
  BY <1>4 DEF SerialInv, CopyInv, EffectedOnce, Ahead
<1>5. ASSUME NEW id \in Transfers, NEW s \in Statuses, SaveAccount(Source[id], s)
      PROVE  SerialInv'
  BY <1>4, <1>5 DEF SaveAccount
<1>6. CASE UNCHANGED vars
  BY <1>4, <1>6 DEF vars
<1> QED
  BY <1>1, <1>2, <1>3, <1>5, <1>6 DEF Next

LEMMA InitSerial == Init => SerialInv
<1> SUFFICES ASSUME Init PROVE SerialInv
  OBVIOUS
<1>1. \A w \in Workers : CopyInv(worker[w])
  BY DEF Init, Idle, CopyInv
<1>2. \A t \in Transfers : EffectedOnce(t, row[t])
  BY DEF Init, New, EffectedOnce, Once, Leg, None
<1>3. \A t \in Transfers, l \in Leg : ~(posted[t][l] > 0)
  BY DEF Init
<1> QED
  BY <1>1, <1>2, <1>3, Zenon DEF SerialInv

\* With one worker, a copy in memory is never out of date, and its effects are
\* in place exactly once as long as no call fails.
THEOREM SerialInvariance ==
  ASSUME OneWorker
  PROVE  Spec => [](Inv /\ SerialInv)
<1>1. Init => Inv /\ SerialInv
  BY InitInv, InitSerial
<1>2. Inv /\ SerialInv /\ [Next]_vars => (Inv /\ SerialInv)'
  BY NextInv, NextSerial
<1> QED
  BY <1>1, <1>2, PTL DEF Spec

\* A single worker that no call fails debits, credits, refunds and calls the
\* bank exactly once for each transfer that its row says it was done for.
THEOREM EffectsExactlyOnce ==
  ASSUME OneWorker
  PROVE  Spec => []ExactlyOnce
<1>1. SerialInv => ExactlyOnce
  <2> SUFFICES ASSUME SerialInv, Undisturbed, NEW t \in Transfers
               PROVE  EffectedOnce(t, row[t])
    BY DEF ExactlyOnce
  <2>1. ~Ahead(t)
    BY DEF Undisturbed, AtRest, Ahead, Idle
  <2> QED
    BY <2>1 DEF SerialInv, Undisturbed
<1> QED
  BY <1>1, SerialInvariance, PTL

\* A single worker none of whose calls fails settles every transfer with each
\* effect once: what Execute's repeated calls may do twice, or leave behind
\* when the row says FAILED, takes a second worker or a call cut short.
THEOREM SettlesOnce ==
  ASSUME OneWorker, MaxFaults = 0
  PROVE  Spec => []SettledOnce
<1>1. TypeOK /\ SerialInv => SettledOnce
  <2> SUFFICES ASSUME TypeOK, SerialInv, NEW t \in Transfers,
                      \A w \in Workers : worker[w] # Idle => worker[w].id # t
               PROVE  EffectedOnce(t, row[t])
    BY DEF SettledOnce
  <2>1. ~Ahead(t)
    BY DEF Ahead, Idle
  <2>2. faults = 0
    BY DEF TypeOK
  <2> QED
    BY <2>1, <2>2 DEF SerialInv
<1>2. Spec => []TypeOK
  <2>1. Inv => TypeOK
    BY DEF Inv
  <2> QED
    BY <2>1, Invariance, PTL
<1> QED
  BY <1>1, <1>2, SerialInvariance, PTL

-----------------------------------------------------------------------------
(* Balances.                                                               *)

Ledger == [Transfers -> [Leg -> Nat]]

LEMMA LegsFinite == IsFiniteSet(Leg)
<1>1. /\ IsFiniteSet({"debit"}) /\ IsFiniteSet({"credit"})
      /\ IsFiniteSet({"reverseDebit"}) /\ IsFiniteSet({"reverseCredit"})
  BY FS_Singleton
<1>2. IsFiniteSet({"debit"} \cup {"credit"})
  BY <1>1, FS_Union
<1>3. IsFiniteSet({"reverseDebit"} \cup {"reverseCredit"})
  BY <1>1, FS_Union
<1>4. IsFiniteSet(({"debit"} \cup {"credit"}) \cup ({"reverseDebit"} \cup {"reverseCredit"}))
  BY <1>2, <1>3, FS_Union
<1>5. Leg = ({"debit"} \cup {"credit"}) \cup ({"reverseDebit"} \cup {"reverseCredit"})
  BY DEF Leg
<1> QED
  BY <1>4, <1>5

LEMMA LegChange ==
  ASSUME NEW f, NEW g, NEW l \in Leg, \A m \in Leg : f[m] \in Int /\ g[m] \in Int,
         \A m \in Leg \ {l} : g[m] = f[m]
  PROVE  SumFunctionOnSet(g, Leg) = SumFunctionOnSet(f, Leg) + (g[l] - f[l])
BY LegsFinite, SumChange

\* The postings of one leg, and one more of them.
LEMMA SignedAmounts ==
  ASSUME NEW t \in Transfers, NEW l \in Leg, NEW a, NEW n \in Nat
  PROVE  /\ SignedAmount(t, l, n, a) \in Int
         /\ SignedAmount(t, l, n + 1, a) = SignedAmount(t, l, n, a) + SignedAmount(t, l, 1, a)
         /\ SignedAmount(t, l, 0, a) = 0
<1>1. PICK m \in Nat : m = Amount[t]
  BY DomainAssumption
<1>2. n * m \in Int /\ (n + 1) * m = n * m + 1 * m /\ 0 * m = 0 /\ 1 * m = m
  OBVIOUS
<1>3. PICK b, c \in {0, 1} :
        \A k : SignedAmount(t, l, k, a) = (IF b = 1 THEN k * m ELSE 0) - (IF c = 1 THEN k * m ELSE 0)
  <2> DEFINE b == IF Posting(t, l).to = a THEN 1 ELSE 0
             c == IF Posting(t, l).from = a THEN 1 ELSE 0
  <2>1. \A k : SignedAmount(t, l, k, a) = (IF b = 1 THEN k * m ELSE 0) - (IF c = 1 THEN k * m ELSE 0)
    BY <1>1 DEF SignedAmount
  <2>2. b \in {0, 1} /\ c \in {0, 1}
    OBVIOUS
  <2> QED
    BY <2>1, <2>2, Zenon
<1> QED
  BY <1>2, <1>3

\* What a transfer's postings move, in all.
LegMoves(p, t, a) == [l \in Leg |-> SignedAmount(t, l, p[t][l], a)]

LEMMA MovesType ==
  ASSUME NEW p \in Ledger, NEW a
  PROVE  \A t \in Transfers :
           /\ \A l \in Leg : LegMoves(p, t, a)[l] \in Int
           /\ Moves(p, a)[t] = SumFunctionOnSet(LegMoves(p, t, a), Leg)
           /\ Moves(p, a)[t] \in Int
<1> TAKE t \in Transfers
<1>1. \A l \in Leg : LegMoves(p, t, a)[l] \in Int
  BY SignedAmounts DEF LegMoves, Ledger
<1>2. Moves(p, a)[t] = SumFunctionOnSet(LegMoves(p, t, a), Leg)
  BY Zenon DEF Moves, LegMoves
<1>3. SumFunctionOnSet(LegMoves(p, t, a), Leg) \in Int
  BY <1>1, LegsFinite, SumType
<1> QED
  BY <1>1, <1>2, <1>3

\* The transfers in a currency.
In(cur) == {t \in Transfers : Currency[t] = cur}

LEMMA InFinite == ASSUME NEW cur PROVE IsFiniteSet(In(cur)) /\ In(cur) \subseteq Transfers
BY BalanceAssumption, FS_Subset DEF In

LEMMA BalanceType ==
  ASSUME NEW p \in Ledger, NEW a, NEW cur, Seed[a][cur] \in Int
  PROVE  /\ SumFunctionOnSet(Moves(p, a), In(cur)) \in Int
         /\ BalanceOf(p, a, cur) = Seed[a][cur] + SumFunctionOnSet(Moves(p, a), In(cur))
         /\ BalanceOf(p, a, cur) \in Int
<1>1. \A t \in In(cur) : Moves(p, a)[t] \in Int
  BY MovesType, InFinite
<1>2. SumFunctionOnSet(Moves(p, a), In(cur)) \in Int
  BY <1>1, InFinite, SumType
<1>3. BalanceOf(p, a, cur) = Seed[a][cur] + SumFunctionOnSet(Moves(p, a), In(cur))
  BY Zenon DEF BalanceOf, In
<1> QED
  BY <1>2, <1>3

\* One more posting changes the balance by its signed amount, in its currency.
LEMMA BalanceChange ==
  ASSUME NEW p \in Ledger, NEW id \in Transfers, NEW l \in Leg, NEW q \in Ledger,
         q[id][l] = p[id][l] + 1,
         \A m \in Leg : m # l => q[id][m] = p[id][m],
         \A t \in Transfers : t # id => q[t] = p[t],
         NEW a, NEW cur, Seed[a][cur] \in Int
  PROVE  BalanceOf(q, a, cur) =
           BalanceOf(p, a, cur) + IF Currency[id] = cur THEN SignedAmount(id, l, 1, a) ELSE 0
<1>1. \A t \in Transfers : t # id => Moves(q, a)[t] = Moves(p, a)[t]
  BY Zenon DEF Moves
<1>2. Moves(q, a)[id] = Moves(p, a)[id] + SignedAmount(id, l, 1, a)
  <2>1. PICK f, g : f = LegMoves(p, id, a) /\ g = LegMoves(q, id, a)
    OBVIOUS
  <2>2. \A m \in Leg : f[m] \in Int /\ g[m] \in Int
    BY <2>1, MovesType
  <2>3. \A m \in Leg \ {l} : g[m] = f[m]
    BY <2>1 DEF LegMoves
  <2>4. SumFunctionOnSet(g, Leg) = SumFunctionOnSet(f, Leg) + (g[l] - f[l])
    BY <2>2, <2>3, LegChange
  <2>5. g[l] = f[l] + SignedAmount(id, l, 1, a)
    <3>1. p[id][l] \in Nat
      BY DEF Ledger
    <3>2. f[l] = SignedAmount(id, l, p[id][l], a) /\ g[l] = SignedAmount(id, l, p[id][l] + 1, a)
      BY <2>1 DEF LegMoves
    <3> QED
      BY <3>1, <3>2, SignedAmounts
  <2>6. f[l] \in Int /\ SignedAmount(id, l, 1, a) \in Int
    BY <2>2, SignedAmounts
  <2>7. g[l] - f[l] = SignedAmount(id, l, 1, a)
    BY <2>5, <2>6
  <2> QED
    BY <2>1, <2>4, <2>7, MovesType
<1>3. PICK f, g : f = Moves(p, a) /\ g = Moves(q, a)
  OBVIOUS
<1>4. \A t \in Transfers : f[t] \in Int /\ g[t] \in Int
  BY <1>3, MovesType
<1>5. SignedAmount(id, l, 1, a) \in Int
  BY SignedAmounts
<1>6. CASE Currency[id] = cur
  <2>1. id \in In(cur)
    BY <1>6 DEF In
  <2>2. SumFunctionOnSet(g, In(cur)) = SumFunctionOnSet(f, In(cur)) + (g[id] - f[id])
    <3>1. \A t \in In(cur) : f[t] \in Int /\ g[t] \in Int
      BY <1>4, InFinite
    <3>2. \A t \in In(cur) \ {id} : g[t] = f[t]
      BY <1>1, <1>3, InFinite
    <3> QED
      BY <2>1, <3>1, <3>2, InFinite, SumChange
  <2>3. g[id] - f[id] = SignedAmount(id, l, 1, a)
    BY <1>2, <1>3, <1>4, <1>5
  <2> QED
    BY <1>3, <1>5, <1>6, <2>2, <2>3, BalanceType
<1>7. CASE Currency[id] # cur
  <2>1. \A t \in In(cur) : f[t] \in Int /\ g[t] = f[t]
    BY <1>1, <1>3, <1>4, <1>7 DEF In
  <2>2. SumFunctionOnSet(g, In(cur)) = SumFunctionOnSet(f, In(cur))
    BY <2>1, InFinite, SumSame
  <2>3. BalanceOf(q, a, cur) = BalanceOf(p, a, cur) /\ BalanceOf(p, a, cur) \in Int
    BY <1>3, <2>2, BalanceType, Zenon
  <2> QED
    BY <1>7, <2>3
<1> QED
  BY <1>6, <1>7

-----------------------------------------------------------------------------
(* The clearing account.                                                   *)

\* The states of a transfer that is debited and neither paid out nor refunded.
InFlight == {"DEBITED", "BANK_CALLED", "COMPENSATING"}

\* Each transfer has moved its amount into its clearing account once, and out
\* of it once if it is settled.
LEMMA FloatMoves ==
  ASSUME Inv, SerialInv, NEW t \in Transfers, EffectedOnce(t, row[t])
  PROVE  Moves(posted, Float(t))[t] = IF row[t].state \in InFlight THEN Amount[t] ELSE 0
<1>1. PICK F, x, f : /\ F = Float(t) /\ x = row[t]
                     /\ f = LegMoves(posted, t, F)
  OBVIOUS
<1>2. x \in Transfer /\ WellFormed(x) /\ posted \in Ledger /\ Amount[t] \in Nat
  BY <1>1, DomainAssumption DEF Inv, SagaInv, RowInv, TypeOK, Ledger
<1>3. \A l \in Leg : f[l] \in Int
  BY <1>1, <1>2, MovesType
<1>4. /\ posted[t]["debit"] = Once(x.debitPosted)
      /\ posted[t]["credit"] = Once(x.creditPosted)
      /\ posted[t]["reverseDebit"] = Once(x.state = "FAILED" /\ x.debitPosted)
      /\ posted[t]["reverseCredit"] = 0
  BY <1>1 DEF EffectedOnce, Inv, SagaInv, RowInv
<1>5. /\ f["debit"] = Once(x.debitPosted) * Amount[t]
      /\ f["credit"] = -(Once(x.creditPosted) * Amount[t])
      /\ f["reverseDebit"] = -(Once(x.state = "FAILED" /\ x.debitPosted) * Amount[t])
      /\ f["reverseCredit"] = 0
  <2>0. {"debit", "credit", "reverseDebit", "reverseCredit"} \subseteq Leg
    BY DEF Leg
  <2>1. \A l \in Leg : f[l] = SignedAmount(t, l, posted[t][l], F)
    BY <1>1 DEF LegMoves
  <2>2. \A l \in Leg : posted[t][l] > 0 => Posting(t, l).from # Posting(t, l).to
    BY DEF SerialInv, CanPost
  <2>3. f["debit"] = Once(x.debitPosted) * Amount[t]
    <3>1. CASE x.debitPosted
      <4>1. posted[t]["debit"] = 1 /\ Source[t] # F
        BY <1>1, <1>4, <2>0, <2>2, <3>1 DEF Posting, Once
      <4> QED
        BY <1>1, <1>2, <2>0, <2>1, <3>1, <4>1 DEF SignedAmount, Posting, Once
    <3>2. CASE ~(x.debitPosted)
      <4>1. f["debit"] = SignedAmount(t, "debit", 0, F)
        BY <1>4, <2>0, <2>1, <3>2 DEF Once
      <4>2. 0 * Amount[t] = 0 /\ -(0 * Amount[t]) = 0
        BY <1>2
      <4> QED
        BY <2>0, <3>2, <4>1, <4>2, SignedAmounts DEF Once
    <3> QED
      BY <3>1, <3>2
  <2>4. f["credit"] = -(Once(x.creditPosted) * Amount[t])
    <3>1. CASE x.creditPosted
      <4>1. posted[t]["credit"] = 1 /\ Dest[t] # F
        BY <1>1, <1>4, <2>0, <2>2, <3>1 DEF Posting, Once
      <4> QED
        BY <1>1, <1>2, <2>0, <2>1, <3>1, <4>1 DEF SignedAmount, Posting, Once
    <3>2. CASE ~(x.creditPosted)
      <4>1. f["credit"] = SignedAmount(t, "credit", 0, F)
        BY <1>4, <2>0, <2>1, <3>2 DEF Once
      <4>2. 0 * Amount[t] = 0 /\ -(0 * Amount[t]) = 0
        BY <1>2
      <4> QED
        BY <2>0, <3>2, <4>1, <4>2, SignedAmounts DEF Once
    <3> QED
      BY <3>1, <3>2
  <2>5. f["reverseDebit"] = -(Once(x.state = "FAILED" /\ x.debitPosted) * Amount[t])
    <3>1. CASE x.state = "FAILED" /\ x.debitPosted
      <4>1. posted[t]["reverseDebit"] = 1 /\ Source[t] # F
        BY <1>1, <1>4, <2>0, <2>2, <3>1 DEF Posting, Once
      <4> QED
        BY <1>1, <1>2, <2>0, <2>1, <3>1, <4>1 DEF SignedAmount, Posting, Once
    <3>2. CASE ~(x.state = "FAILED" /\ x.debitPosted)
      <4>1. f["reverseDebit"] = SignedAmount(t, "reverseDebit", 0, F)
        BY <1>4, <2>0, <2>1, <3>2 DEF Once
      <4>2. 0 * Amount[t] = 0 /\ -(0 * Amount[t]) = 0
        BY <1>2
      <4> QED
        BY <2>0, <3>2, <4>1, <4>2, SignedAmounts DEF Once
    <3> QED
      BY <3>1, <3>2
  <2>6. f["reverseCredit"] = 0
    BY <1>4, <2>0, <2>1, SignedAmounts
  <2> QED
    BY <2>3, <2>4, <2>5, <2>6
<1>6. SumFunctionOnSet(f, Leg) = f["debit"] + f["credit"] + f["reverseDebit"] + f["reverseCredit"]
  <2>1. /\ IsFiniteSet({"credit", "reverseDebit", "reverseCredit"})
        /\ IsFiniteSet({"reverseDebit", "reverseCredit"}) /\ IsFiniteSet({"reverseCredit"})
    <3>1. \A S \in SUBSET Leg : IsFiniteSet(S)
      BY LegsFinite, FS_Subset
    <3> QED
      BY <3>1 DEF Leg
  <2>2. SumFunctionOnSet(f, Leg)
        = f["debit"] + SumFunctionOnSet(f, {"credit", "reverseDebit", "reverseCredit"})
    <3>1. "debit" \in Leg /\ Leg \ {"debit"} = {"credit", "reverseDebit", "reverseCredit"}
      BY DEF Leg
    <3>2. SumFunctionOnSet(f, Leg) = f["debit"] + SumFunctionOnSet(f, Leg \ {"debit"})
      BY <1>3, <3>1, LegsFinite, SumTake
    <3> QED
      BY <3>1, <3>2
  <2>3. SumFunctionOnSet(f, {"credit", "reverseDebit", "reverseCredit"})
        = f["credit"] + SumFunctionOnSet(f, {"reverseDebit", "reverseCredit"})
    <3>1. PICK S : S = {"credit", "reverseDebit", "reverseCredit"}
      OBVIOUS
    <3>2. "credit" \in S /\ S \ {"credit"} = {"reverseDebit", "reverseCredit"} /\ S \subseteq Leg
      BY <3>1 DEF Leg
    <3>3. SumFunctionOnSet(f, S) = f["credit"] + SumFunctionOnSet(f, S \ {"credit"})
      <4>1. IsFiniteSet(S) /\ \A l \in S : f[l] \in Int
        BY <1>3, <2>1, <3>1, <3>2
      <4> QED
        BY <3>2, <4>1, SumTake
    <3> QED
      BY <3>1, <3>2, <3>3
  <2>4. SumFunctionOnSet(f, {"reverseDebit", "reverseCredit"})
        = f["reverseDebit"] + SumFunctionOnSet(f, {"reverseCredit"})
    <3>1. PICK S : S = {"reverseDebit", "reverseCredit"}
      OBVIOUS
    <3>2. "reverseDebit" \in S /\ S \ {"reverseDebit"} = {"reverseCredit"} /\ S \subseteq Leg
      BY <3>1 DEF Leg
    <3>3. SumFunctionOnSet(f, S) = f["reverseDebit"] + SumFunctionOnSet(f, S \ {"reverseDebit"})
      <4>1. IsFiniteSet(S) /\ \A l \in S : f[l] \in Int
        BY <1>3, <2>1, <3>1, <3>2
      <4> QED
        BY <3>2, <4>1, SumTake
    <3> QED
      BY <3>1, <3>2, <3>3
  <2>5. SumFunctionOnSet(f, {"reverseCredit"}) = f["reverseCredit"] + 0
    <3>1. PICK S : S = {"reverseCredit"}
      OBVIOUS
    <3>2. "reverseCredit" \in S /\ S \ {"reverseCredit"} = {} /\ S \subseteq Leg
      BY <3>1 DEF Leg
    <3>3. SumFunctionOnSet(f, S) = f["reverseCredit"] + SumFunctionOnSet(f, S \ {"reverseCredit"})
      <4>1. IsFiniteSet(S) /\ \A l \in S : f[l] \in Int
        BY <1>3, <2>1, <3>1, <3>2
      <4> QED
        BY <3>2, <4>1, SumTake
    <3> QED
      BY <3>1, <3>2, <3>3, SumEmpty
  <2>6. f["debit"] \in Int /\ f["credit"] \in Int /\ f["reverseDebit"] \in Int /\ f["reverseCredit"] \in Int
    BY <1>3 DEF Leg
  <2> QED
    BY <2>2, <2>3, <2>4, <2>5, <2>6
<1>7. Moves(posted, F)[t] = SumFunctionOnSet(f, Leg)
  BY <1>1, <1>2, MovesType
<1>8. f["debit"] + f["credit"] + f["reverseDebit"] + f["reverseCredit"]
      = IF x.state \in InFlight THEN Amount[t] ELSE 0
  <2>1. /\ x.state \in InFlight =>
             /\ x.debitPosted /\ ~x.creditPosted /\ ~(x.state = "FAILED" /\ x.debitPosted)
        /\ x.state \notin InFlight =>
             \/ ~x.debitPosted /\ ~x.creditPosted /\ ~(x.state = "FAILED" /\ x.debitPosted)
             \/ x.debitPosted /\ x.creditPosted /\ ~(x.state = "FAILED" /\ x.debitPosted)
             \/ x.debitPosted /\ ~x.creditPosted /\ (x.state = "FAILED" /\ x.debitPosted)
    BY <1>2 DEF WellFormed, Transfer, State, InFlight
  <2> QED
    BY <1>2, <1>5, <2>1 DEF Once
<1> QED
  BY <1>1, <1>6, <1>7, <1>8

\* With a single worker and no failing call, the clearing account of every
\* currency holds exactly the amounts that are on their way: what reserveDebit
\* put there and neither postCredit nor compensate has taken out.
THEOREM FloatBalance ==
  ASSUME OneWorker
  PROVE  Spec => []FloatHoldsInFlight
<1>1. ASSUME Inv, SerialInv PROVE FloatHoldsInFlight
  <2> SUFFICES ASSUME Undisturbed, NEW c \in DOMAIN FloatAccounts
               PROVE  BalanceOf(posted, FloatAccounts[c], c) - Seed[FloatAccounts[c]][c] =
                        SumFunctionOnSet(Amount,
                          {t \in Transfers : /\ Currency[t] = c
                                             /\ row[t].state \in InFlight})
    BY Zenon DEF FloatHoldsInFlight, InFlight
  <2>1. PICK F, f, S : /\ F = FloatAccounts[c] /\ f = Moves(posted, F)
                       /\ S = {t \in Transfers : /\ Currency[t] = c
                                                 /\ row[t].state \in InFlight}
    OBVIOUS
  <2>2. posted \in Ledger /\ Seed[F][c] \in Int
    BY <1>1, <2>1, BalanceAssumption DEF Inv, TypeOK, Ledger
  <2>3. S \in SUBSET In(c) /\ \A t \in In(c) : t \in S <=> row[t].state \in InFlight
    BY <2>1 DEF In
  <2>4. \A t \in In(c) : f[t] = IF t \in S THEN Amount[t] ELSE 0
    <3> SUFFICES ASSUME NEW t \in In(c) PROVE f[t] = IF t \in S THEN Amount[t] ELSE 0
      OBVIOUS
    <3>1. t \in Transfers /\ Float(t) = F
      BY <2>1 DEF In, Float
    <3>2. EffectedOnce(t, row[t])
      <4>1. ~Ahead(t)
        BY DEF Undisturbed, AtRest, Ahead, Idle
      <4> QED
        BY <1>1, <3>1, <4>1 DEF SerialInv, Undisturbed
    <3>3. Moves(posted, Float(t))[t] = IF row[t].state \in InFlight THEN Amount[t] ELSE 0
      BY <1>1, <3>1, <3>2, FloatMoves
    <3> QED
      BY <2>1, <2>3, <3>1, <3>3
  <2>5. \A t \in In(c) : f[t] \in Int
    BY <2>1, <2>2, MovesType, InFinite
  <2>6. SumFunctionOnSet(f, In(c)) = SumFunctionOnSet(f, S)
    <3>1. \A t \in In(c) \ S : f[t] = 0
      BY <2>4
    <3> QED
      BY <2>3, <2>5, <3>1, InFinite, SumOn
  <2>7. SumFunctionOnSet(Amount, S) = SumFunctionOnSet(f, S)
    <3>1. IsFiniteSet(S)
      BY <2>3, InFinite, FS_Subset
    <3>2. \A t \in S : f[t] \in Int /\ Amount[t] = f[t]
      BY <2>3, <2>4, <2>5
    <3> QED
      BY <3>1, <3>2, SumSame
  <2>8. /\ SumFunctionOnSet(f, In(c)) \in Int
        /\ BalanceOf(posted, F, c) = Seed[F][c] + SumFunctionOnSet(f, In(c))
    BY <2>1, <2>2, BalanceType
  <2>9. BalanceOf(posted, F, c) - Seed[F][c] = SumFunctionOnSet(f, In(c))
    BY <2>2, <2>8
  <2> QED
    BY <2>1, <2>6, <2>7, <2>9, Zenon
<1> QED
  BY <1>1, SerialInvariance, PTL

-----------------------------------------------------------------------------
(* No overdraft.                                                           *)

\* A posting takes from the source of a transfer only if it is a debit of that
\* account: every other leg takes from a clearing account, or is not posted.
LEMMA OnlyDebitsTake ==
  ASSUME Funded, NEW id \in Transfers, NEW l \in {"debit", "credit", "reverseDebit"},
         NEW t \in Transfers, Currency[id] = Currency[t]
  PROVE  \/ SignedAmount(id, l, 1, Source[t]) >= 0
         \/ /\ l = "debit" /\ Source[id] = Source[t]
            /\ SignedAmount(id, l, 1, Source[t]) = -Amount[id]
<1>1. PICK m \in Nat : m = Amount[id]
  BY DomainAssumption
<1>2. 1 * m = m /\ 0 - m = -m
  OBVIOUS
<1>3. Float(id) = Float(t) /\ Source[t] # Float(t) /\ Source[id] # Float(id)
  BY DEF Funded, Float
<1>4. CASE l = "debit"
  BY <1>1, <1>2, <1>3, <1>4 DEF SignedAmount, Posting
<1>5. CASE l = "credit"
  BY <1>1, <1>2, <1>3, <1>5 DEF SignedAmount, Posting
<1>6. CASE l = "reverseDebit"
  BY <1>1, <1>2, <1>3, <1>6 DEF SignedAmount, Posting
<1> QED
  BY <1>4, <1>5, <1>6

\* Postings aside, only GetBalance gets to the posting of a debit.
Reserved(k) ==
  k.pc = "post" /\ k.t.state = "PENDING" =>
    BalanceOf(posted, Source[k.id], Currency[k.id]) >= Amount[k.id]

LEMMA KeepsFunds ==
  ASSUME OneWorker, TypeOK, FundsInv, NEW w \in Workers, NEW k,
         worker' = [worker EXCEPT ![w] = k], posted' = posted,
         Reserved(k)
  PROVE  FundsInv'
<1>1. \A v \in Workers : worker'[v] = k
  BY DEF OneWorker, TypeOK
<1>2. NeverOverdrawn'
  BY DEF FundsInv, NeverOverdrawn
<1> QED
  BY <1>1, <1>2, Zenon DEF FundsInv, Reserved

\* PostEntries takes from a source what is there.
LEMMA PostEntriesFunds ==
  ASSUME OneWorker, Funded, Inv, FundsInv, NEW w \in Workers, PostEntries(w)
  PROVE  FundsInv'
<1>1. PICK id, x : id = worker[w].id /\ x = worker[w].t
  OBVIOUS
<1>2. worker[w].pc = "post" /\ id \in Transfers
  BY <1>1, OnePosting
<1>3. PICK l \in Leg, y \in Transfer :
        /\ \/ x.state = "PENDING" /\ l = "debit" /\ y.state = "DEBITED"
           \/ x.state = "BANK_CALLED" /\ l = "credit" /\ y.state = "CREDITED"
           \/ /\ x.state = "COMPENSATING" /\ l = "reverseDebit"
              /\ y.state = "FAILED" /\ y.debitPosted
        /\ WellFormed(y) /\ CanPost(id, l)
        /\ worker' = [worker EXCEPT ![w] = At("update", id, y, <<>>)]
        /\ posted' = [posted EXCEPT ![id][l] = @ + 1]
  BY <1>1, OnePosting
<1>4. posted \in Ledger /\ posted' \in Ledger
  <2>1. posted \in Ledger
    BY DEF Inv, TypeOK, Ledger
  <2> QED
    BY <1>2, <1>3, <2>1 DEF Ledger
<1>5. /\ posted'[id][l] = posted[id][l] + 1
      /\ \A m \in Leg : m # l => posted'[id][m] = posted[id][m]
      /\ \A t \in Transfers : t # id => posted'[t] = posted[t]
  BY <1>2, <1>3, <1>4 DEF Ledger
<1>6. NeverOverdrawn'
  <2> SUFFICES ASSUME NEW t \in Transfers
               PROVE  BalanceOf(posted', Source[t], Currency[t]) >= 0
    BY DEF NeverOverdrawn
  <2>1. PICK p, q : p = posted /\ q = posted'
    OBVIOUS
  <2>2. Seed[Source[t]][Currency[t]] \in Int
    BY BalanceAssumption
  <2>3. BalanceOf(q, Source[t], Currency[t]) = BalanceOf(p, Source[t], Currency[t])
          + IF Currency[id] = Currency[t] THEN SignedAmount(id, l, 1, Source[t]) ELSE 0
    BY <1>2, <1>4, <1>5, <2>1, <2>2, BalanceChange
  <2>4. BalanceOf(p, Source[t], Currency[t]) \in Int /\ BalanceOf(p, Source[t], Currency[t]) >= 0
    BY <1>4, <2>1, <2>2, BalanceType DEF FundsInv, NeverOverdrawn
  <2>5. SignedAmount(id, l, 1, Source[t]) \in Int
    BY <1>2, SignedAmounts
  <2>6. CASE Currency[id] # Currency[t]
    BY <2>1, <2>3, <2>4, <2>6
  <2>7. CASE Currency[id] = Currency[t] /\ SignedAmount(id, l, 1, Source[t]) >= 0
    <3>1. PICK b, s : b = BalanceOf(p, Source[t], Currency[t]) /\ s = SignedAmount(id, l, 1, Source[t])
      OBVIOUS
    <3>2. b \in Int /\ s \in Int /\ b >= 0 /\ s >= 0
      BY <2>4, <2>5, <2>7, <3>1, Zenon
    <3>3. b + s >= 0
      BY <3>2
    <3>4. BalanceOf(q, Source[t], Currency[t]) = b + s
      BY <2>3, <2>7, <3>1, Zenon
    <3> QED
      BY <2>1, <3>3, <3>4, Zenon
  <2>8. CASE /\ Currency[id] = Currency[t] /\ l = "debit" /\ Source[id] = Source[t]
             /\ SignedAmount(id, l, 1, Source[t]) = -Amount[id]
    <3>1. x.state = "PENDING"
      BY <1>3, <2>8
    <3>2. BalanceOf(p, Source[t], Currency[t]) >= Amount[id]
      BY <1>1, <1>2, <2>1, <2>8, <3>1 DEF FundsInv
    <3>3. Amount[id] \in Nat
      BY <1>2, DomainAssumption
    <3> QED
      BY <2>1, <2>3, <2>4, <2>8, <3>2, <3>3
  <2> QED
    BY <1>2, <1>3, <2>6, <2>7, <2>8, OnlyDebitsTake
<1>7. \A v \in Workers : worker'[v].pc = "update"
  <2>1. \A v \in Workers : worker'[v] = At("update", id, y, <<>>)
    BY <1>3 DEF OneWorker, Inv, TypeOK
  <2> QED
    BY <2>1 DEF At
<1> QED
  BY <1>6, <1>7 DEF FundsInv

\* No step other than GetBalance gets to the posting of a debit.
LEMMA ExecuteFunds ==
  ASSUME OneWorker, Inv, FundsInv, NEW w \in Workers, NEW id \in Transfers, Execute(w, id)
  PROVE  FundsInv'
<1>1. PICK x, k : x = row[id] /\ k = FirstCall(id, x)
  OBVIOUS
<1>2. x \in Transfer /\ WellFormed(x)
  BY <1>1 DEF Inv, TypeOK, SagaInv, RowInv
<1>3. Reserved(k)
  <2>1. CASE x.state \in {"PENDING", "DEBITED"}
    <3>1. k.pc \in {"lock", "bank"}
      BY <1>1, <2>1 DEF FirstCall, At
    <3> QED
      BY <3>1 DEF Reserved
  <2>2. CASE x.state = "BANK_CALLED"
    <3>1. k.t = x
      BY <1>1, <2>2 DEF FirstCall, At
    <3> QED
      BY <2>2, <3>1 DEF Reserved
  <2>3. CASE x.state = "CREDITED"
    <3>1. k.pc = "update"
      BY <1>1, <1>2, <2>3, Completing DEF FirstCall, At
    <3> QED
      BY <3>1 DEF Reserved
  <2>4. CASE x.state = "COMPENSATING"
    <3>1. k = At("post", id, x, <<"reverseDebit">>)
      BY <1>1, <1>2, <2>4, Compensating DEF FirstCall
    <3>2. k.t = x
      BY <3>1 DEF At
    <3> QED
      BY <2>4, <3>2 DEF Reserved
  <2>5. CASE x.state \in {"COMPLETED", "FAILED"}
    <3>1. k = Idle
      BY <1>1, <2>5 DEF FirstCall
    <3> QED
      BY <3>1 DEF Reserved, Idle
  <2> QED
    BY <1>2, <2>1, <2>2, <2>3, <2>4, <2>5 DEF Transfer, State
<1>4. worker' = [worker EXCEPT ![w] = k] /\ posted' = posted
  BY <1>1 DEF Execute, Goto
<1>5. TypeOK
  BY DEF Inv
<1> QED
  BY <1>3, <1>4, <1>5, KeepsFunds, Zenon

\* reserveDebit posts only what the balance covers.
LEMMA ReadFunds ==
  ASSUME OneWorker, Inv, FundsInv, NEW w \in Workers, LockForUpdate(w) \/ GetBalance(w)
  PROVE  FundsInv'
<1>1. PICK id, x : id = worker[w].id /\ x = worker[w].t
  OBVIOUS
<1>2. worker[w].pc \in {"lock", "balance"}
  BY DEF LockForUpdate, GetBalance
<1>3. id \in Transfers /\ x \in Transfer /\ WellFormed(x) /\ x.state = "PENDING"
  BY <1>1, <1>2, Busy DEF Pc, TaskInv
<1>4. PICK k : /\ worker' = [worker EXCEPT ![w] = k]
               /\ \/ k = At("balance", id, x, <<>>)
                  \/ k = failWith(id, x, "account") \/ k = failWith(id, x, "funds")
                  \/ /\ k = At("post", id, x, <<"debit">>)
                     /\ ~(BalanceOf(posted, Source[id], Currency[id]) < Amount[id])
  BY <1>1 DEF LockForUpdate, GetBalance, Goto
<1>5. \A r \in {"account", "funds"} : failWith(id, x, r).pc = "update"
  BY <1>3, Refusing DEF At
<1>6. Reserved(k)
  <2>1. CASE k.pc # "post"
    BY <2>1 DEF Reserved
  <2>2. CASE /\ k = At("post", id, x, <<"debit">>)
             /\ ~(BalanceOf(posted, Source[id], Currency[id]) < Amount[id])
    <3>1. BalanceOf(posted, Source[id], Currency[id]) \in Int /\ Amount[id] \in Int
      <4>1. posted \in Ledger /\ Seed[Source[id]][Currency[id]] \in Int
        BY <1>3, BalanceAssumption DEF Inv, TypeOK, Ledger
      <4>2. Amount[id] \in Int
        BY <1>3, DomainAssumption
      <4> QED
        BY <4>1, <4>2, BalanceType
    <3>2. k.id = id
      BY <2>2 DEF At
    <3> QED
      BY <2>2, <3>1, <3>2 DEF Reserved
  <2>3. At("balance", id, x, <<>>).pc # "post"
    BY DEF At
  <2> QED
    BY <1>4, <1>5, <2>1, <2>2, <2>3
<1>7. posted' = posted
  BY DEF LockForUpdate, GetBalance
<1>8. TypeOK
  BY DEF Inv
<1> QED
  BY <1>4, <1>6, <1>7, <1>8, KeepsFunds, Zenon

\* The other calls go on to no posting, or to a refund.
LEMMA OtherFunds ==
  ASSUME OneWorker, Inv, FundsInv, NEW w \in Workers,
         \/ PostingRejected(w) \/ UpdateConflict(w) \/ Abort(w)
         \/ BankAcknowledges(w) \/ BankFails(w) \/ UpdateState(w)
         \/ AppendEvent(w) \/ WriteOutbox(w)
  PROVE  FundsInv'
<1>1. PICK id, x : id = worker[w].id /\ x = worker[w].t
  OBVIOUS
<1>2. posted' = posted /\ TypeOK
  BY DEF PostingRejected, UpdateConflict, Abort, BankAcknowledges, BankFails, UpdateState,
         AppendEvent, WriteOutbox, Inv
<1>3. ASSUME NEW k, worker' = [worker EXCEPT ![w] = k], k.pc # "post" \/ k.t.state # "PENDING"
      PROVE  FundsInv'
  <2>1. Reserved(k)
    BY <1>3 DEF Reserved
  <2> QED
    BY <1>2, <1>3, <2>1, KeepsFunds, Zenon
<1>4. CASE worker' = [worker EXCEPT ![w] = Idle]
  BY <1>3, <1>4 DEF Idle
<1>5. CASE BankAcknowledges(w)
  <2>1. x \in Transfer /\ id \in Transfers /\ WellFormed(x) /\ x.state = "DEBITED"
    BY <1>1, <1>5, Busy DEF Pc, TaskInv, BankAcknowledges
  <2>2. PICK k : /\ worker' = [worker EXCEPT ![w] = k]
                 /\ k = Advance(id, [x EXCEPT !.externalRef = "BANK-REF"], "BANK_CALLED")
    BY <1>1, <1>5 DEF BankAcknowledges, Goto
  <2>3. k.pc = "update"
    <3>1. PICK y \in Transfer : k = At("update", id, y, <<>>)
      BY <2>1, <2>2, Acknowledging
    <3> QED
      BY <3>1 DEF At
  <2> QED
    BY <1>3, <2>2, <2>3
<1>6. CASE BankFails(w)
  <2>1. x \in Transfer /\ id \in Transfers /\ WellFormed(x) /\ x.state = "DEBITED"
    BY <1>1, <1>6, Busy DEF Pc, TaskInv, BankFails
  <2>2. PICK k : /\ worker' = [worker EXCEPT ![w] = k]
                 /\ k = Advance(id, [x EXCEPT !.failureReason = "bank"], "COMPENSATING")
    BY <1>1, <1>6 DEF BankFails, Goto
  <2>3. k.pc = "update"
    <3>1. PICK y \in Transfer : k = At("update", id, y, <<>>)
      BY <2>1, <2>2, StartingCompensation
    <3> QED
      BY <3>1 DEF At
  <2> QED
    BY <1>3, <2>2, <2>3
<1>7. CASE UpdateState(w)
  <2>1. x \in Transfer /\ id \in Transfers /\ WellFormed(x)
    BY <1>1, <1>7, Busy DEF Pc, UpdateState
  <2>2. PICK k : /\ worker' = [worker EXCEPT ![w] = k]
                 /\ k = IF x.state = "COMPENSATING" THEN compensate(id, x)
                                                    ELSE At("append", id, x, <<>>)
    BY <1>1, <1>7 DEF UpdateState, Goto
  <2>3. k.pc # "post" \/ k.t.state # "PENDING"
    BY <2>1, <2>2, Compensating DEF At
  <2> QED
    BY <1>3, <2>2, <2>3
<1>8. CASE AppendEvent(w)
  <2>1. PICK k : worker' = [worker EXCEPT ![w] = k] /\ k = At("outbox", id, x, <<>>)
    BY <1>1, <1>8 DEF AppendEvent, Goto
  <2>2. k.pc = "outbox"
    BY <2>1 DEF At
  <2> QED
    BY <1>3, <2>1, <2>2
<1>9. PostingRejected(w) \/ UpdateConflict(w) \/ Abort(w) \/ WriteOutbox(w) =>
        worker' = [worker EXCEPT ![w] = Idle]
  BY DEF PostingRejected, UpdateConflict, Abort, WriteOutbox, Goto
<1> QED
  BY <1>4, <1>5, <1>6, <1>7, <1>8, <1>9

LEMMA NextFunds ==
  ASSUME OneWorker, Funded, Inv, FundsInv, [Next]_vars
  PROVE  FundsInv'
<1>1. ASSUME NEW w \in Workers, NEW id \in Transfers, Execute(w, id) PROVE FundsInv'
  BY <1>1, ExecuteFunds
<1>2. ASSUME NEW w \in Workers, Step(w) PROVE FundsInv'
  BY <1>2, ReadFunds, PostEntriesFunds, OtherFunds DEF Step
<1>3. ASSUME NEW w \in Workers, Abort(w) PROVE FundsInv'
  BY <1>3, OtherFunds
<1>4. CASE UNCHANGED <<posted, worker>>
  BY <1>4 DEF FundsInv, NeverOverdrawn
<1>5. ASSUME NEW id \in Transfers, NEW s \in Statuses, SaveAccount(Source[id], s)
      PROVE  FundsInv'
  BY <1>4, <1>5 DEF SaveAccount
<1>6. CASE UNCHANGED vars
  BY <1>4, <1>6 DEF vars
<1> QED
  BY <1>1, <1>2, <1>3, <1>5, <1>6 DEF Next

LEMMA InitFunds == ASSUME Funded PROVE Init => FundsInv
<1> SUFFICES ASSUME Init PROVE FundsInv
  OBVIOUS
<1>1. NeverOverdrawn
  <2> SUFFICES ASSUME NEW t \in Transfers
               PROVE  BalanceOf(posted, Source[t], Currency[t]) >= 0
    BY DEF NeverOverdrawn
  <2>1. PICK f : f = Moves(posted, Source[t])
    OBVIOUS
  <2>2. posted \in Ledger /\ Seed[Source[t]][Currency[t]] \in Int
    BY BalanceAssumption DEF Init, Ledger
  <2>3. \A u \in In(Currency[t]) : f[u] = 0
    <3> SUFFICES ASSUME NEW u \in Transfers PROVE f[u] = 0
      BY InFinite
    <3>1. \A l \in Leg : LegMoves(posted, u, Source[t])[l] = 0
      BY SignedAmounts DEF LegMoves, Init
    <3>2. SumFunctionOnSet(LegMoves(posted, u, Source[t]), Leg) = 0
      BY <3>1, LegsFinite, SumZero
    <3> QED
      BY <2>1, <2>2, <3>2, MovesType
  <2>4. SumFunctionOnSet(f, In(Currency[t])) = 0
    BY <2>3, InFinite, SumZero
  <2>5. BalanceOf(posted, Source[t], Currency[t])
        = Seed[Source[t]][Currency[t]] + SumFunctionOnSet(f, In(Currency[t]))
    BY <2>1, <2>2, BalanceType
  <2>6. Seed[Source[t]][Currency[t]] >= 0
    BY DEF Funded
  <2> QED
    BY <2>2, <2>4, <2>5, <2>6
<1>2. \A w \in Workers : worker[w].pc = "idle"
  BY DEF Init, Idle
<1> QED
  BY <1>1, <1>2 DEF FundsInv

\* A single worker's copy is its row until UpdateState, and the balance that
\* reserveDebit has checked is there until it posts the debit.
THEOREM SoloInvariance ==
  ASSUME OneWorker, Funded
  PROVE  Spec => []SoloInv
<1>1. Init => Inv /\ FundsInv
  BY InitInv, InitFunds
<1>2. Inv /\ FundsInv /\ [Next]_vars => (Inv /\ FundsInv)'
  BY NextInv, NextFunds
<1> QED
  BY <1>1, <1>2, SerialInvariance, PTL DEF Spec, SoloInv

\* With a single worker, no source account is ever overdrawn, wherever calls
\* fail: a debit is repeated after a crash only if the balance still covers it.
THEOREM NoOverdraft ==
  ASSUME OneWorker, Funded
  PROVE  Spec => []NeverOverdrawn
<1>1. SoloInv => NeverOverdrawn
  BY DEF SoloInv, FundsInv
<1> QED
  BY <1>1, SoloInvariance, PTL
=============================================================================
