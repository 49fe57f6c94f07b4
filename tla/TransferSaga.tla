---------------------------- MODULE TransferSaga ----------------------------
(***************************************************************************)
(* The saga orchestrator (internal/application/saga) on top of the         *)
(* Postgres repositories, run by any number of workers at once.            *)
(*                                                                         *)
(* Execute loads the transfer and runs the one step of its state.  No      *)
(* database transaction spans a step: every repository call goes through   *)
(* the pool and commits by itself, so each is an action of its own and     *)
(* other workers, errors and crashes come between any two of them.  The    *)
(* saga may be called for any transfer at any time: JetStream delivers a   *)
(* message at least once and to any worker.                                *)
(***************************************************************************)
EXTENDS TransferDomain

CONSTANTS
  Workers,       \* concurrent callers of Execute
  BankOutcomes,  \* what the gateway's mode lets a call return
  Statuses,      \* account statuses that occur
  MaxFaults      \* bound: calls cut short by an error or a crash

ASSUME SagaAssumption ==
  /\ BankOutcomes \subseteq {"ack", "error"}
  /\ "ACTIVE" \in Statuses
  /\ MaxFaults \in Nat

VARIABLES
  row,     \* transfers: transfer -> its current row
  posted,  \* ledger_entries: transfer -> leg -> number of postings
  status,  \* accounts: account -> status
  acks,    \* bank: transfer -> calls it has acknowledged
  events,  \* transfer_events: transfer -> event type -> rows
  outbox,  \* outbox: rows in id order
  worker,  \* worker -> the Execute call it is in
  faults   \* faults so far

vars == <<row, posted, status, acks, events, outbox, worker, faults>>

EventType == {"transfer.debited", "transfer.bank_called", "transfer.credited",
              "transfer.completed", "transfer.failed"}

\* The event a step publishes once the row has the given state; no step
\* publishes one for COMPENSATING.
EventOf(s) ==
  CASE s = "DEBITED"     -> "transfer.debited"
    [] s = "BANK_CALLED" -> "transfer.bank_called"
    [] s = "CREDITED"    -> "transfer.credited"
    [] s = "COMPLETED"   -> "transfer.completed"
    [] OTHER             -> "transfer.failed"

\* An Execute call: the repository or bank call it makes next, the transfer,
\* its *Transfer in memory, and the postings the step still has to make.
Pc == {"lock", "balance", "post", "bank", "update", "append", "outbox"}

Task == [pc : Pc, id : Transfers, t : Transfer, legs : Seq(Leg)]

Idle == [pc |-> "idle"]

At(pc, id, x, legs) == [pc |-> pc, id |-> id, t |-> x, legs |-> legs]

Goto(w, task) == worker' = [worker EXCEPT ![w] = task]

-----------------------------------------------------------------------------
(* What a step does between two calls: the task it goes on with.           *)

\* Transition in memory, then UpdateState.
Advance(id, x, next) ==
  IF CanTransition(x, next) THEN At("update", id, Transition(x, next), <<>>)
                            ELSE Idle

failWith(id, x, reason) ==
  IF x.state = "FAILED" THEN Idle
  ELSE Advance(id, [x EXCEPT !.failureReason = reason], "FAILED")

\* compensate: the credit leg first, then the debit leg.
Reversals(x) == (IF x.creditPosted THEN <<"reverseCredit">> ELSE <<>>)
                \o (IF x.debitPosted THEN <<"reverseDebit">> ELSE <<>>)

\* Mutant: the transfer fails without its legs being reversed.
compensateForgets(id, x) == failWith(id, x, x.failureReason)

compensate(id, x) ==
  IF Reversals(x) = <<>> THEN failWith(id, x, x.failureReason)
                         ELSE At("post", id, x, Reversals(x))

\* Mutant: postCredit without its posting.
FirstCallNoCredit(id, x) ==
  CASE x.state = "PENDING"      -> At("lock", id, x, <<>>)
    [] x.state = "DEBITED"      -> At("bank", id, x, <<>>)
    [] x.state = "BANK_CALLED"  -> Advance(id, x, "CREDITED")
    [] x.state = "CREDITED"     -> Advance(id, x, "COMPLETED")
    [] x.state = "COMPENSATING" -> compensate(id, x)
    [] OTHER                    -> Idle

\* Mutant: the step map has no entry for COMPENSATING.
FirstCallNoResume(id, x) ==
  CASE x.state = "PENDING"      -> At("lock", id, x, <<>>)
    [] x.state = "DEBITED"      -> At("bank", id, x, <<>>)
    [] x.state = "BANK_CALLED"  -> At("post", id, x, <<"credit">>)
    [] x.state = "CREDITED"     -> Advance(id, x, "COMPLETED")
    [] OTHER                    -> Idle

\* The step map: the first call of the step for the loaded state.
FirstCall(id, x) ==
  CASE x.state = "PENDING"      -> At("lock", id, x, <<>>)
    [] x.state = "DEBITED"      -> At("bank", id, x, <<>>)
    [] x.state = "BANK_CALLED"  -> At("post", id, x, <<"credit">>)
    [] x.state = "CREDITED"     -> Advance(id, x, "COMPLETED")
    [] x.state = "COMPENSATING" -> compensate(id, x)
    [] OTHER                    -> Idle

\* After the last posting of reserveDebit, postCredit and compensate.
AfterPosting(id, x) ==
  CASE x.state = "PENDING" ->
         Advance(id, [x EXCEPT !.debitPosted = TRUE], "DEBITED")
    [] x.state = "BANK_CALLED" ->
         Advance(id, [x EXCEPT !.creditPosted = TRUE], "CREDITED")
    [] OTHER -> failWith(id, x, x.failureReason)

-----------------------------------------------------------------------------
(* Actions.                                                                *)

Init ==
  /\ row = [t \in Transfers |-> New]
  /\ posted = [t \in Transfers |-> [l \in Leg |-> 0]]
  /\ status = [a \in Accounts |-> "ACTIVE"]
  /\ acks = [t \in Transfers |-> 0]
  /\ events = [t \in Transfers |-> [e \in EventType |-> 0]]
  /\ outbox = <<>>
  /\ worker = [w \in Workers |-> Idle]
  /\ faults = 0

\* Execute: FindByID, then the step of the state just read.  On a terminal
\* transfer it returns nil and changes nothing.
Execute(w, id) ==
  /\ worker[w] = Idle
  /\ row[id].state \notin Terminal
  /\ Goto(w, FirstCall(id, row[id]))
  /\ UNCHANGED <<row, posted, status, acks, events, outbox, faults>>

\* reserveDebit reads the source account.  SELECT ... FOR UPDATE runs in a
\* transaction of its own: the row lock is gone when the call returns.
LockForUpdate(w) ==
  LET k == worker[w] IN
  /\ k.pc = "lock"
  /\ Goto(w, IF status[Source[k.id]] = "ACTIVE"
             THEN At("balance", k.id, k.t, <<>>)
             ELSE failWith(k.id, k.t, "account"))
  /\ UNCHANGED <<row, posted, status, acks, events, outbox, faults>>

\* reserveDebit compares the balance with the amount.
GetBalance(w) ==
  LET k == worker[w] IN
  /\ k.pc = "balance"
  /\ Goto(w, IF BalanceOf(posted, Source[k.id], Currency[k.id]) < Amount[k.id]
             THEN failWith(k.id, k.t, "funds")
             ELSE At("post", k.id, k.t, <<"debit">>))
  /\ UNCHANGED <<row, posted, status, acks, events, outbox, faults>>

\* NewPosting and PostEntries: both entries in one transaction.
PostEntries(w) ==
  LET k == worker[w] IN
  /\ k.pc = "post"
  /\ CanPost(k.id, Head(k.legs))
  /\ posted' = [posted EXCEPT ![k.id][Head(k.legs)] = @ + 1]
  /\ Goto(w, IF Len(k.legs) > 1 THEN At("post", k.id, k.t, Tail(k.legs))
                                ELSE AfterPosting(k.id, k.t))
  /\ UNCHANGED <<row, status, acks, events, outbox, faults>>

\* NewPosting or PostEntries returns an error, and so does Execute.
PostingRejected(w) ==
  LET k == worker[w] IN
  /\ k.pc = "post"
  /\ ~CanPost(k.id, Head(k.legs))
  /\ Goto(w, Idle)
  /\ UNCHANGED <<row, posted, status, acks, events, outbox, faults>>

\* callBank: the gateway acknowledges.
BankAcknowledges(w) ==
  LET k == worker[w] IN
  /\ k.pc = "bank"
  /\ "ack" \in BankOutcomes
  /\ acks' = [acks EXCEPT ![k.id] = @ + 1]
  /\ Goto(w, Advance(k.id, [k.t EXCEPT !.externalRef = "BANK-REF"], "BANK_CALLED"))
  /\ UNCHANGED <<row, posted, status, events, outbox, faults>>

\* Mutant: the error is logged and the step goes on.
BankErrorDropped(w) ==
  LET k == worker[w] IN
  /\ k.pc = "bank"
  /\ "error" \in BankOutcomes
  /\ Goto(w, Advance(k.id, k.t, "BANK_CALLED"))
  /\ UNCHANGED <<row, posted, status, acks, events, outbox, faults>>

\* callBank: the gateway or the circuit breaker returns an error, and
\* startCompensation goes for COMPENSATING.
BankFails(w) ==
  LET k == worker[w] IN
  /\ k.pc = "bank"
  /\ "error" \in BankOutcomes
  /\ Goto(w, Advance(k.id, [k.t EXCEPT !.failureReason = "bank"], "COMPENSATING"))
  /\ UNCHANGED <<row, posted, status, acks, events, outbox, faults>>

\* Mutant: UPDATE ... WHERE id = $8, without the version.
UpdateStateUnversioned(w) ==
  LET k == worker[w] IN
  /\ k.pc = "update"
  /\ row' = [row EXCEPT ![k.id] = k.t]
  /\ Goto(w, IF k.t.state = "COMPENSATING" THEN compensate(k.id, k.t)
                                           ELSE At("append", k.id, k.t, <<>>))
  /\ UNCHANGED <<posted, status, acks, events, outbox, faults>>

\* UpdateState: the whole row, where the version is still the loaded one.
\* startCompensation goes on to compensate, every other step to publishEvent.
UpdateState(w) ==
  LET k == worker[w] IN
  /\ k.pc = "update"
  /\ row[k.id].version = k.t.version - 1
  /\ row' = [row EXCEPT ![k.id] = k.t]
  /\ Goto(w, IF k.t.state = "COMPENSATING" THEN compensate(k.id, k.t)
                                           ELSE At("append", k.id, k.t, <<>>))
  /\ UNCHANGED <<posted, status, acks, events, outbox, faults>>

\* Mutant: RowsAffected is not looked at.
UpdateConflictIgnored(w) ==
  LET k == worker[w] IN
  /\ k.pc = "update"
  /\ row[k.id].version # k.t.version - 1
  /\ Goto(w, At("append", k.id, k.t, <<>>))
  /\ UNCHANGED <<row, posted, status, acks, events, outbox, faults>>

\* UpdateState affects no row: optimistic lock conflict, Execute fails.
UpdateConflict(w) ==
  LET k == worker[w] IN
  /\ k.pc = "update"
  /\ row[k.id].version # k.t.version - 1
  /\ Goto(w, Idle)
  /\ UNCHANGED <<row, posted, status, acks, events, outbox, faults>>

\* Mutant: the outbox row is written without the event's row.
AppendSkipped(w) ==
  LET k == worker[w] IN
  /\ k.pc = "append"
  /\ Goto(w, At("outbox", k.id, k.t, <<>>))
  /\ UNCHANGED <<row, posted, status, acks, events, outbox, faults>>

\* publishEvent, first half: the row of transfer_events.
AppendEvent(w) ==
  LET k == worker[w] IN
  /\ k.pc = "append"
  /\ events' = [events EXCEPT ![k.id][EventOf(k.t.state)] = @ + 1]
  /\ Goto(w, At("outbox", k.id, k.t, <<>>))
  /\ UNCHANGED <<row, posted, status, acks, outbox, faults>>

\* publishEvent, second half: the row of outbox.  Execute returns nil.
WriteOutbox(w) ==
  LET k == worker[w] IN
  /\ k.pc = "outbox"
  /\ outbox' = Append(outbox, [id |-> k.id, subject |-> EventOf(k.t.state)])
  /\ Goto(w, Idle)
  /\ UNCHANGED <<row, posted, status, acks, events, faults>>

\* A repository call returns an error, or the process dies: the call in
\* progress is lost, what it has committed stays.
Abort(w) ==
  /\ worker[w] # Idle
  /\ faults < MaxFaults
  /\ faults' = faults + 1
  /\ Goto(w, Idle)
  /\ UNCHANGED <<row, posted, status, acks, events, outbox>>

\* A source account is frozen, closed or reactivated (AccountRepo.Save; no
\* binary does so itself).
SaveAccount(a, s) ==
  /\ status' = [status EXCEPT ![a] = s]
  /\ UNCHANGED <<row, posted, acks, events, outbox, worker, faults>>

\* One call of worker w's step, other than the one that starts it.
Step(w) ==
  \/ LockForUpdate(w)
  \/ GetBalance(w)
  \/ PostEntries(w)
  \/ PostingRejected(w)
  \/ BankAcknowledges(w)
  \/ BankFails(w)
  \/ UpdateState(w)
  \/ UpdateConflict(w)
  \/ AppendEvent(w)
  \/ WriteOutbox(w)

Next ==
  \/ \E w \in Workers, id \in Transfers : Execute(w, id)
  \/ \E w \in Workers : Step(w)
  \/ \E w \in Workers : Abort(w)
  \/ \E id \in Transfers, s \in Statuses : SaveAccount(Source[id], s)

Spec == Init /\ [][Next]_vars

IsSettled(t) == row[t].state \in Terminal

\* An outbox row names the transfer, so that a message of it can be handled.
IsAnnounced(t) == \E i \in DOMAIN outbox : outbox[i].id = t

\* A worker goes on with the call it is in, unless it waits for the bank:
\* callBank has no deadline.  A transfer is executed again and again once an
\* outbox row names it, since its messages are redelivered until they are
\* acked.  Nothing makes a worker execute a transfer before that: the API's
\* message does not name it, and is refused.
Fairness ==
  /\ \A w \in Workers : WF_vars(worker[w].pc # "bank" /\ Step(w))
  /\ \A id \in Transfers :
       SF_vars(IsAnnounced(id) /\ \E w \in Workers : Execute(w, id))

FairSpec == Spec /\ Fairness

-----------------------------------------------------------------------------
(* Safety.                                                                 *)

\* Every variable has its type.
TypeOK ==
  /\ row \in [Transfers -> Transfer]
  /\ posted \in [Transfers -> [Leg -> Nat]]
  /\ status \in [Accounts -> Statuses]
  /\ acks \in [Transfers -> Nat]
  /\ events \in [Transfers -> [EventType -> Nat]]
  /\ outbox \in Seq([id : Transfers, subject : EventType])
  /\ worker \in [Workers -> {Idle} \cup Task]
  /\ faults \in 0..MaxFaults

\* A transfer is never both paid out and refunded, however many callers
\* execute it at once, with copies of whatever age, and wherever they are cut
\* short: postCredit and reverseDebit exclude each other.
NeverPaidAndRefunded ==
  \A t \in Transfers :
    ~(posted[t]["credit"] > 0 /\ posted[t]["reverseDebit"] > 0)

\* The destination is paid only for a transfer whose source was debited and
\* which the bank acknowledged (postCredit after reserveDebit and callBank).
PaidOnlyIfBacked ==
  \A t \in Transfers :
    posted[t]["credit"] > 0 => posted[t]["debit"] > 0 /\ acks[t] > 0

\* What GET /transfers/{id} shows for a settled transfer is backed by the
\* ledger.  COMPLETED: debited, credited, not refunded, with a bank
\* reference.  FAILED: never credited, with the reason, and if the row says
\* that a debit was posted, which is when the bank was the reason, then a
\* refund was posted.  What a call that was cut short has posted besides is
\* the subject of SettledOnce.
SettledMatchesLedger ==
  \A t \in Transfers : LET r == row[t]  p == posted[t] IN
    /\ r.state = "COMPLETED" =>
         /\ p["debit"] > 0 /\ p["credit"] > 0 /\ p["reverseDebit"] = 0
         /\ r.externalRef # None /\ r.failureReason = None
    /\ r.state = "FAILED" =>
         /\ p["credit"] = 0
         /\ r.externalRef = None /\ r.failureReason # None
         /\ r.failureReason = "bank" <=> r.debitPosted
         /\ r.debitPosted => p["debit"] > 0 /\ p["reverseDebit"] > 0

\* A state change is announced at most once, whatever the number of callers:
\* publishEvent runs only for the caller whose UpdateState took effect.
AnnouncedOnce ==
  \A i, j \in DOMAIN outbox : outbox[i] = outbox[j] => i = j

\* The version at which a row first has the state an event announces.
VersionOf(e) ==
  CASE e = "transfer.debited"     -> 2
    [] e = "transfer.bank_called" -> 3
    [] e = "transfer.credited"    -> 4
    [] e = "transfer.completed"   -> 5
    [] e = "transfer.failed"      -> 2

\* An outbox row is written only after the row of transfers has reached the
\* state it announces and the event is in transfer_events, and no transfer
\* announces both completion and failure.
AnnouncedIsTrue ==
  \A i \in DOMAIN outbox : LET t == outbox[i].id  e == outbox[i].subject IN
    /\ events[t][e] > 0
    /\ row[t].version >= VersionOf(e)
    /\ e = "transfer.completed" => row[t].state = "COMPLETED"
    /\ e = "transfer.failed" => row[t].state = "FAILED"

\* The saga keeps the contract: its rows move only along the state machine,
\* one version at a time, and each state change follows its effect.
Contract ==
  INSTANCE TransferContract WITH
    state <- [t \in Transfers |-> row[t].state],
    legs  <- [t \in Transfers |-> {l \in Leg : posted[t][l] > 0}],
    acked <- {t \in Transfers : acks[t] > 0}

KeepsContract == Contract!CSpec

\* No committed update is lost or overwritten: a row changes only together
\* with its version, which grows by one, to a successor state of the current
\* one, and never once it is terminal (UpdateState's WHERE version = ...).
RowsAdvance ==
  [][\A t \in Transfers : row'[t] # row[t] =>
       /\ row'[t].version = row[t].version + 1
       /\ row'[t].state \in validTransitions[row[t].state]]_vars

-----------------------------------------------------------------------------
(* The inductive invariant behind the safety properties.                   *)

\* What the other columns are in each state.
WellFormed(x) ==
  /\ x.version = CASE x.state = "PENDING"      -> 1
                   [] x.state = "DEBITED"      -> 2
                   [] x.state = "BANK_CALLED"  -> 3
                   [] x.state = "CREDITED"     -> 4
                   [] x.state = "COMPLETED"    -> 5
                   [] x.state = "COMPENSATING" -> 3
                   [] x.state = "FAILED"       -> IF x.debitPosted THEN 4 ELSE 2
  /\ x.state = "PENDING" => ~x.debitPosted
  /\ x.state \notin {"PENDING", "FAILED"} => x.debitPosted
  /\ x.creditPosted <=> x.state \in {"CREDITED", "COMPLETED"}
  /\ x.externalRef # None <=> x.state \in {"BANK_CALLED", "CREDITED", "COMPLETED"}
  /\ x.failureReason = "bank" <=>
       \/ x.state = "COMPENSATING"
       \/ x.state = "FAILED" /\ x.debitPosted
  /\ x.failureReason # None <=> x.state \in {"COMPENSATING", "FAILED"}

\* Row r is in state s or has been.
Past(s, r) ==
  CASE s = "PENDING"      -> TRUE
    [] s = "DEBITED"      -> r.debitPosted
    [] s = "BANK_CALLED"  -> r.externalRef # None
    [] s = "CREDITED"     -> r.creditPosted
    [] s = "COMPENSATING" -> r.failureReason = "bank"
    [] OTHER              -> r.state = s

\* The state x was in before its last transition.
Before(x) ==
  CASE x.state = "DEBITED"      -> "PENDING"
    [] x.state = "BANK_CALLED"  -> "DEBITED"
    [] x.state = "COMPENSATING" -> "DEBITED"
    [] x.state = "CREDITED"     -> "BANK_CALLED"
    [] x.state = "COMPLETED"    -> "CREDITED"
    [] OTHER -> IF x.debitPosted THEN "COMPENSATING" ELSE "PENDING"

\* The ledger and the bank are at least where a transfer in state x says.
Effected(t, x) ==
  /\ x.debitPosted => posted[t]["debit"] > 0
  /\ x.externalRef # None => acks[t] > 0
  /\ x.creditPosted => posted[t]["credit"] > 0
  /\ x.state = "FAILED" /\ x.debitPosted => posted[t]["reverseDebit"] > 0

RowInv(t) ==
  /\ WellFormed(row[t])
  /\ Effected(t, row[t])
  /\ posted[t]["credit"] > 0 => row[t].externalRef # None
  /\ posted[t]["reverseDebit"] > 0 => row[t].failureReason = "bank"
  /\ posted[t]["reverseCredit"] = 0

\* A copy in memory may be old, but it is a past state of the row, or one
\* transition ahead of a past state with its effect in place.
TaskInv(k) ==
  k # Idle =>
    /\ WellFormed(k.t)
    /\ k.pc \in {"lock", "balance"} => k.t.state = "PENDING"
    /\ k.pc = "bank" => k.t.state = "DEBITED" /\ Past("DEBITED", row[k.id])
    /\ k.pc = "post" =>
         /\ Past(k.t.state, row[k.id])
         /\ \/ k.t.state = "PENDING" /\ k.legs = <<"debit">>
            \/ k.t.state = "BANK_CALLED" /\ k.legs = <<"credit">>
            \/ k.t.state = "COMPENSATING" /\ k.legs = <<"reverseDebit">>
    /\ k.pc = "update" =>
         /\ k.t.state # "PENDING"
         /\ Past(Before(k.t), row[k.id])
         /\ Effected(k.id, k.t)
    /\ k.pc \in {"append", "outbox"} =>
         /\ k.t.state \notin {"PENDING", "COMPENSATING"}
         /\ Past(k.t.state, row[k.id])
    /\ k.pc = "outbox" => events[k.id][EventOf(k.t.state)] > 0

\* The state an event announces.
StateOf(e) ==
  CASE e = "transfer.debited"     -> "DEBITED"
    [] e = "transfer.bank_called" -> "BANK_CALLED"
    [] e = "transfer.credited"    -> "CREDITED"
    [] e = "transfer.completed"   -> "COMPLETED"
    [] OTHER                      -> "FAILED"

\* The events written and about to be written are all different, and each is
\* one of a state that the row has reached.
Announcing(w) == worker[w].pc \in {"append", "outbox"}

Announcement(w) == [id |-> worker[w].id, subject |-> EventOf(worker[w].t.state)]

OutboxInv ==
  /\ \A i \in DOMAIN outbox :
       /\ Past(StateOf(outbox[i].subject), row[outbox[i].id])
       /\ events[outbox[i].id][outbox[i].subject] > 0
  /\ \A w \in Workers : Announcing(w) =>
       \A i \in DOMAIN outbox : outbox[i] # Announcement(w)
  /\ \A v, w \in Workers :
       v # w /\ Announcing(v) /\ Announcing(w) => Announcement(v) # Announcement(w)

\* A worker's copy is never ahead of the effects in the ledger and never off
\* the row's past, and no two workers announce the same state change: the
\* reason why the optimistic lock of UpdateState is enough for the
\* properties above.
SagaInv ==
  /\ \A t \in Transfers : RowInv(t)
  /\ \A w \in Workers : TaskInv(worker[w])
  /\ AnnouncedOnce
  /\ OutboxInv

\* Inductive: rows, copies in memory, ledger, bank and outbox agree, whichever
\* of the steps of Execute has just been taken by whom.
Inv == TypeOK /\ SagaInv

-----------------------------------------------------------------------------
(* Safety with a single worker.                                            *)

\* No customer account is overdrawn by a debit that the balance check of
\* reserveDebit let through.
NeverOverdrawn ==
  \A t \in Transfers : BalanceOf(posted, Source[t], Currency[t]) >= 0

AtRest == \A w \in Workers : worker[w] = Idle

\* Between two calls, none of which has failed.
Undisturbed == AtRest /\ faults = 0

Once(b) == IF b THEN 1 ELSE 0

\* The ledger and the bank are exactly where a transfer in state x says.
EffectedOnce(t, x) ==
  /\ posted[t]["debit"] = Once(x.debitPosted)
  /\ posted[t]["credit"] = Once(x.creditPosted)
  /\ posted[t]["reverseDebit"] = Once(x.state = "FAILED" /\ x.debitPosted)
  /\ acks[t] = Once(x.externalRef # None)

\* When no call fails, each effect has taken place exactly as often as the
\* row says between two calls of Execute: no double debit, credit, refund or
\* bank call.
ExactlyOnce == Undisturbed => \A t \in Transfers : EffectedOnce(t, row[t])

\* Once a transfer is settled and no call for it is under way, the ledger and
\* the bank hold what its row says and no more: COMPLETED is one debit, one
\* credit and one bank call, and FAILED leaves no debit that is not reversed
\* and no call that the bank has acknowledged, although Execute was called
\* several times and cut short in between.
SettledOnce ==
  \A t \in Transfers :
    IsSettled(t) /\ (\A w \in Workers : worker[w] # Idle => worker[w].id # t) =>
      EffectedOnce(t, row[t])

\* The clearing account holds exactly the amounts of the transfers that are
\* under way, and nothing once all are settled.
FloatHoldsInFlight ==
  Undisturbed => \A c \in DOMAIN FloatAccounts :
    BalanceOf(posted, FloatAccounts[c], c) - Seed[FloatAccounts[c]][c] =
      SumFunctionOnSet(Amount,
        {t \in Transfers : /\ Currency[t] = c
                           /\ row[t].state \in {"DEBITED", "BANK_CALLED", "COMPENSATING"}})

OneWorker == \A v, w \in Workers : v = w

\* No transfer is from its clearing account or from an account in debt.
Funded ==
  \A t \in Transfers : Source[t] # Float(t) /\ Seed[Source[t]][Currency[t]] >= 0

\* A worker's copy is its row, or one transition ahead of it with the effect
\* in place exactly once.
CopyInv(k) ==
  /\ k.pc \in {"lock", "balance", "post", "bank"} => k.t = row[k.id]
  /\ k.pc = "update" =>
       /\ row[k.id].version = k.t.version - 1
       /\ faults = 0 => EffectedOnce(k.id, k.t)

Ahead(t) == \E w \in Workers : worker[w].pc = "update" /\ worker[w].id = t

\* Inductive with OneWorker: nothing changes a row between FindByID and
\* UpdateState, so the only transfer whose effects are not those of its row
\* is the one that is about to be updated.
SerialInv ==
  /\ \A w \in Workers : CopyInv(worker[w])
  /\ \A t \in Transfers : faults = 0 /\ ~Ahead(t) => EffectedOnce(t, row[t])
  /\ \A t \in Transfers, l \in Leg : posted[t][l] > 0 => CanPost(t, l)

\* Inductive with OneWorker and Funded: the balance that reserveDebit has
\* checked is still there when it posts the debit.
FundsInv ==
  /\ NeverOverdrawn
  /\ \A w \in Workers : LET k == worker[w] IN
       k.pc = "post" /\ k.t.state = "PENDING" =>
         BalanceOf(posted, Source[k.id], Currency[k.id]) >= Amount[k.id]

\* A single worker's copy, the row, the ledger and the bank agree at every call
\* of a step, and so does the balance that reserveDebit relies on: what the
\* three properties above rest on.
SoloInv == SerialInv /\ FundsInv

-----------------------------------------------------------------------------
(* Liveness.                                                               *)

\* As long as the bank answers one of the workers, every transfer that has
\* got past its first step is settled in the end, although calls fail (at
\* most MaxFaults times) and overtake each other: Execute resumes the saga
\* from the row, a compensation that was cut short included.  A transfer to
\* the clearing account is left out, since its credit is refused each time.
ResumesUntilSettled ==
  (\E w \in Workers : []<>(worker[w].pc # "bank")) =>
    \A t \in Transfers : CanPost(t, "credit") => (IsAnnounced(t) ~> IsSettled(t))
=============================================================================
