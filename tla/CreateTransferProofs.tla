------------------------ MODULE CreateTransferProofs ------------------------
(***************************************************************************)
(* Proofs about POST /v1/transfers, for any number of requests, keys and   *)
(* faults.  CreateInv is inductive together with the types.                *)
(***************************************************************************)
EXTENDS CreateTransfer, TLAPS

\* How a request may end, or go on, as far as the invariant is concerned.
Outcome(r) ==
  \/ \E p \in Pc : Goto(r, p) /\ Done(r)'
  \/ \E e \in Error : Reject(r, e)
  \/ \E t \in requested, code \in {200, 202} : Key[t] = Key[r] /\ Answer(r, code, t)

\* An error is answered with a status that accepts nothing.
LEMMA ErrorStatus ==
  ASSUME NEW e \in Error
  PROVE  StatusOf(e) \in {0, 400, 404, 500}
BY DEF StatusOf, Error

\* A request takes a step with such an outcome, and the stores only grow.
LEMMA StepInv ==
  ASSUME Inv, NEW r \in Requests, Outcome(r),
         rows \subseteq rows', appended \subseteq appended', requested \subseteq requested',
         rows' \subseteq Requests, requested' \subseteq appended', appended' \subseteq rows',
         \A p, q \in rows' : Key[p] = Key[q] => p = q,
         cache' \in [Keys -> Requests \cup {None}],
         \A k \in Keys : cache'[k] # None => cache'[k] \in requested' /\ Key[cache'[k]] = k,
         status' = status, faults' \in 0..MaxFaults
  PROVE  Inv'
<1>1. /\ pc' \in [Requests -> Pc]
      /\ \A q \in Requests : q # r => pc'[q] = pc[q] /\ resp'[q] = resp[q]
      /\ \/ Done(r)' /\ resp'[r] = resp[r]
         \/ pc'[r] = "done"
  BY DEF Outcome, Goto, Reject, Answer, Ends, Inv, TypeOK, Pc
<1> DEFINE Response == [status : {0, 200, 202, 400, 404, 500},
                        transfer : Requests \cup {None}, error : Error \cup {"none"}]
<1>2. /\ resp' \in [Requests -> Response]
      /\ \/ resp'[r] = resp[r]
         \/ resp'[r].status \notin {200, 202}
         \/ resp'[r].transfer \in requested /\ Key[resp'[r].transfer] = Key[r]
  <2>1. CASE \E p \in Pc : Goto(r, p)
    BY <2>1 DEF Goto, Inv, TypeOK
  <2>2. CASE \E e \in Error : Reject(r, e)
    <3>1. PICK e \in Error : Reject(r, e)
      BY <2>2
    <3> DEFINE x == [status |-> StatusOf(e), transfer |-> None, error |-> e]
    <3>2. x \in Response /\ x.status \notin {200, 202}
      BY ErrorStatus
    <3>3. resp' = [resp EXCEPT ![r] = x]
      BY <3>1 DEF Reject, Ends
    <3> HIDE DEF x
    <3> QED
      BY <3>2, <3>3 DEF Inv, TypeOK
  <2>3. CASE \E t \in requested, code \in {200, 202} : Key[t] = Key[r] /\ Answer(r, code, t)
    <3>1. PICK t \in requested, code \in {200, 202} : Key[t] = Key[r] /\ Answer(r, code, t)
      BY <2>3
    <3> DEFINE x == [status |-> code, transfer |-> t, error |-> "none"]
    <3>2. x \in Response /\ x.transfer = t
      BY DEF Inv, TypeOK
    <3>3. resp' = [resp EXCEPT ![r] = x]
      BY <3>1 DEF Answer, Ends
    <3> HIDE DEF x
    <3> QED
      BY <3>1, <3>2, <3>3 DEF Inv, TypeOK
  <2> QED
    BY <2>1, <2>2, <2>3 DEF Outcome
<1>3. TypeOK'
  BY <1>1, <1>2 DEF Inv, TypeOK
<1>4. \A q \in Requests : Done(q)'
  BY <1>1 DEF Inv, CreateInv, Done
<1>5. AcceptedIsDurable'
  BY <1>1, <1>2 DEF Inv, CreateInv, AcceptedIsDurable, Accepted
<1> QED
  BY <1>3, <1>4, <1>5 DEF Inv, CreateInv

\* Before anything is stored the invariant holds.
LEMMA InitInv == Init => Inv
<1> SUFFICES ASSUME Init PROVE Inv
  OBVIOUS
<1>1. TypeOK
  BY CreateAssumption DEF Init, TypeOK, Pending, Error, Pc
<1>2. CreateInv
  BY DEF Init, CreateInv, Done, AcceptedIsDurable, Accepted, Pending
<1> QED
  BY <1>1, <1>2 DEF Inv

\* Going on to the next check is such an outcome.
LEMMA Proceeds ==
  ASSUME Inv, NEW r \in Requests, NEW p \in {"check", "source", "dest", "save"},
         Goto(r, p), Key[r] # None
  PROVE  Outcome(r)
<1>1. pc'[r] = p
  BY DEF Goto, Inv, TypeOK
<1>2. Done(r)'
  BY <1>1 DEF Done
<1>3. p \in Pc
  BY DEF Pc
<1> QED
  BY <1>2, <1>3 DEF Outcome

\* The steps that only read: the middleware, the checks, faults and replies.
LEMMA ReadInv ==
  ASSUME Inv, NEW r \in Requests,
         \/ Middleware(r) \/ MiddlewareError(r) \/ CheckIdempotency(r)
         \/ ValidateSource(r) \/ ValidateDest(r) \/ Reply(r) \/ Fault(r)
  PROVE  Inv'
<1>1. Outcome(r)
  <2>1. CASE Middleware(r) \/ CheckIdempotency(r)
    <3>1. Key[r] # None => Key[r] \in Keys
      BY CreateAssumption
    <3>2. pc[r] = "check" => Key[r] # None
      BY DEF Inv, CreateInv, Done
    <3>3. Key[r] # None /\ cache[Key[r]] # None =>
            cache[Key[r]] \in requested /\ Key[cache[Key[r]]] = Key[r]
      BY <3>1 DEF Inv, CreateInv
    <3>4. \A p \in {"check", "source"} : Goto(r, p) /\ Key[r] # None => Outcome(r)
      BY Proceeds
    <3> QED
      BY <2>1, <3>2, <3>3, <3>4 DEF Middleware, CheckIdempotency, Outcome, Error
  <2>2. CASE MiddlewareError(r)
    BY <2>2 DEF MiddlewareError, Outcome, Goto, Done, Pc, Inv, TypeOK
  <2>3. CASE ValidateSource(r) \/ ValidateDest(r)
    <3>1. Key[r] # None
      BY <2>3 DEF ValidateSource, ValidateDest, Inv, CreateInv, Done
    <3>2. \A p \in {"dest", "save"} : Goto(r, p) => Outcome(r)
      BY <3>1, Proceeds
    <3>3. \A e \in Error : Reject(r, e) => Outcome(r)
      BY DEF Outcome
    <3> QED
      BY <2>3, <3>2, <3>3 DEF ValidateSource, ValidateDest, ValidateAccount, Error
  <2>4. CASE Reply(r)
    BY <2>4 DEF Reply, Outcome, Inv, CreateInv, Done
  <2>5. CASE Fault(r)
    BY <2>5 DEF Fault, Outcome, Error
  <2> QED
    BY <2>1, <2>2, <2>3, <2>4, <2>5
<1>2. /\ UNCHANGED <<rows, appended, requested, cache, status>>
      /\ faults' \in 0..MaxFaults
  BY CreateAssumption DEF Middleware, MiddlewareError, CheckIdempotency, ValidateSource,
     ValidateDest, ValidateAccount, Reply, Fault, Inv, TypeOK
<1> QED
  BY <1>1, <1>2, StepInv DEF Inv, CreateInv, TypeOK

\* Save: the unique key keeps the rows apart.
LEMMA SaveInv == ASSUME Inv, NEW r \in Requests, Save(r) PROVE Inv'
<1>0. pc[r] = "save" /\ Key[r] # None
  BY DEF Save, Inv, CreateInv, Done
<1>1. Outcome(r)
  <2>1. CASE \E t \in rows : Key[t] = Key[r]
    BY <2>1 DEF Save, Outcome, Error
  <2>2. CASE ~\E t \in rows : Key[t] = Key[r]
    <3>1. Goto(r, "append") /\ rows' = rows \cup {r}
      BY <2>2 DEF Save
    <3> QED
      BY <1>0, <3>1 DEF Outcome, Goto, Done, Pc, Inv, TypeOK
  <2> QED
    BY <2>1, <2>2
<1>2. /\ rows \subseteq rows' /\ rows' \subseteq Requests
      /\ \A p, q \in rows' : Key[p] = Key[q] => p = q
  BY DEF Save, Inv, TypeOK, CreateInv
<1>3. UNCHANGED <<appended, requested, cache, status, faults>>
  BY DEF Save
<1> QED
  BY <1>1, <1>2, <1>3, StepInv DEF Inv, CreateInv, TypeOK

\* The event, the outbox row and the cached response follow the row, in this
\* order.
LEMMA StoreInv ==
  ASSUME Inv, NEW r \in Requests, AppendEvent(r) \/ WriteOutbox(r) \/ CacheResult(r)
  PROVE  Inv'
<1>1. Done(r) /\ Key[r] \in Keys
  BY CreateAssumption DEF AppendEvent, WriteOutbox, CacheResult, Inv, CreateInv, Done
<1>2. /\ rows' = rows /\ status' = status /\ faults' = faults
      /\ appended \subseteq appended' /\ requested \subseteq requested'
      /\ requested' \subseteq appended' /\ appended' \subseteq rows'
  BY <1>1 DEF AppendEvent, WriteOutbox, CacheResult, Done, Inv, CreateInv
<1>3. Outcome(r)
  <2>1. Key[r] # None
    BY <1>1, CreateAssumption
  <2>2. CASE AppendEvent(r)
    BY <1>1, <2>1, <2>2 DEF AppendEvent, Outcome, Goto, Done, Pc, Inv, TypeOK
  <2>3. CASE WriteOutbox(r)
    BY <1>1, <2>1, <2>3 DEF WriteOutbox, Outcome, Goto, Done, Pc, Inv, TypeOK
  <2>4. CASE CacheResult(r)
    BY <1>1, <2>1, <2>4 DEF CacheResult, Outcome, Goto, Done, Pc, Inv, TypeOK
  <2> QED
    BY <2>2, <2>3, <2>4
<1>4. /\ cache' \in [Keys -> Requests \cup {None}]
      /\ \A k \in Keys : cache'[k] # None => cache'[k] \in requested' /\ Key[cache'[k]] = k
  BY <1>1, <1>2 DEF AppendEvent, WriteOutbox, CacheResult, Done, Inv, CreateInv, TypeOK
<1> QED
  BY <1>2, <1>3, <1>4, StepInv DEF Inv, CreateInv, TypeOK

\* The invariant holds of every state of the API: only what Handle has stored,
\* logged and queued is cached or returned.
THEOREM Invariance == Spec => []Inv
<1>1. Inv /\ [Next]_vars => Inv'
  <2> SUFFICES ASSUME Inv, [Next]_vars PROVE Inv'
    OBVIOUS
  <2>1. ASSUME NEW r \in Requests, Handle(r) \/ MiddlewareError(r) \/ Fault(r) PROVE Inv'
    BY <2>1, ReadInv, SaveInv, StoreInv DEF Handle
  <2>2. ASSUME NEW k \in Keys, Expire(k) PROVE Inv'
    BY <2>2 DEF Expire, Inv, TypeOK, CreateInv, Done, AcceptedIsDurable, Accepted
  <2>3. ASSUME NEW a \in Accounts, NEW s \in Statuses, SaveAccount(a, s) PROVE Inv'
    BY <2>3 DEF SaveAccount, Inv, TypeOK, CreateInv, Done, AcceptedIsDurable, Accepted
  <2>4. CASE UNCHANGED vars
    BY <2>4 DEF vars, Inv, TypeOK, CreateInv, Done, AcceptedIsDurable, Accepted
  <2> QED
    BY <2>1, <2>2, <2>3, <2>4 DEF Next
<1> QED
  BY <1>1, InitInv, PTL DEF Spec

-----------------------------------------------------------------------------

\* A client that gets a transfer back can rely on its row, its event and its
\* message.
THEOREM Durable == Spec => []AcceptedIsDurable
<1>1. Inv => AcceptedIsDurable
  BY DEF Inv, CreateInv
<1> QED
  BY <1>1, Invariance, PTL

\* A request and its retries are answered with the same transfer, for any
\* number of overlapping, failing and repeated requests.
THEOREM Idempotent == Spec => []SameAnswer
<1>1. Inv => SameAnswer
  BY DEF Inv, CreateInv, AcceptedIsDurable, SameAnswer
<1> QED
  BY <1>1, Invariance, PTL

\* At most one message per key reaches the outbox.
THEOREM OnePerKey == Spec => []OneTransferPerKey
<1>1. Inv => OneTransferPerKey
  BY DEF Inv, CreateInv, OneTransferPerKey
<1> QED
  BY <1>1, Invariance, PTL

\* Every variable keeps its type: every error has one of the handler's
\* statuses.
THEOREM CreateTypes == Spec => []TypeOK
<1>1. Inv => TypeOK
  BY DEF Inv
<1> QED
  BY <1>1, Invariance, PTL

-----------------------------------------------------------------------------
(* A request that is refused has stored nothing.                           *)

Early == {"arriving", "check", "source", "dest", "save"}

\* A request with a row is past Save, and none is answered before it is done.
RefusedInv ==
  /\ RefusedLeavesNothing
  /\ \A r \in rows : pc[r] \notin Early
  /\ \A r \in Requests : pc[r] # "done" => resp[r].error = "no_answer"

\* A request goes on, or ends as it may, without a new row.
LEMMA RefusedStep ==
  ASSUME TypeOK, RefusedInv, NEW r \in Requests, rows' = rows,
         \/ \E p \in Pc \ {"arriving"} : Goto(r, p) /\ (pc[r] \in Early \/ p \notin Early)
              /\ pc[r] # "done"
         \/ \E e \in Error : Reject(r, e) /\ (pc[r] \in Early \/ e \in {"store_error", "no_answer"})
         \/ \E t, code : Answer(r, code, t)
  PROVE  RefusedInv'
<1>1. CASE \E p \in Pc \ {"arriving"} : Goto(r, p) /\ (pc[r] \in Early \/ p \notin Early)
             /\ pc[r] # "done"
  BY <1>1 DEF Goto, RefusedInv, RefusedLeavesNothing, TypeOK
<1>2. CASE \E e \in Error : Reject(r, e) /\ (pc[r] \in Early \/ e \in {"store_error", "no_answer"})
  <2>0. PICK e \in Error : Reject(r, e) /\ (pc[r] \in Early \/ e \in {"store_error", "no_answer"})
    BY <1>2
  <2>1. PICK x : /\ x = [status |-> StatusOf(e), transfer |-> None, error |-> e]
                 /\ resp' = [resp EXCEPT ![r] = x] /\ pc' = [pc EXCEPT ![r] = "done"]
    BY <2>0 DEF Reject, Ends
  <2>2. x.error = e
    BY <2>1
  <2>3. /\ pc'[r] = "done" /\ resp'[r] = x
        /\ \A q \in Requests : q # r => pc'[q] = pc[q] /\ resp'[q] = resp[q]
    BY <2>1 DEF TypeOK
  <2> QED
    BY <2>0, <2>2, <2>3 DEF RefusedInv, RefusedLeavesNothing, TypeOK, Early
<1>3. CASE \E t, code : Answer(r, code, t)
  <2>1. PICK t, code, x : /\ x = [status |-> code, transfer |-> t, error |-> "none"]
                          /\ resp' = [resp EXCEPT ![r] = x] /\ pc' = [pc EXCEPT ![r] = "done"]
    BY <1>3 DEF Answer, Ends
  <2>2. x.error = "none"
    BY <2>1
  <2>3. /\ pc'[r] = "done" /\ resp'[r] = x
        /\ \A q \in Requests : q # r => pc'[q] = pc[q] /\ resp'[q] = resp[q]
    BY <2>1 DEF TypeOK
  <2> QED
    BY <2>2, <2>3 DEF RefusedInv, RefusedLeavesNothing, TypeOK, Early
<1> QED
  BY <1>1, <1>2, <1>3

\* A request that ends with an error about itself has left no row: every check
\* of the handler comes before Save, and what fails after it is a store.
THEOREM RefusedIsClean == Spec => []RefusedLeavesNothing
<1>1. Init => RefusedInv
  BY DEF Init, RefusedInv, RefusedLeavesNothing, Pending
<1>2. Inv /\ RefusedInv /\ [Next]_vars => RefusedInv'
  <2> SUFFICES ASSUME Inv, RefusedInv, [Next]_vars PROVE RefusedInv'
    OBVIOUS
  <2>0. TypeOK
    BY DEF Inv
  <2>1. ASSUME NEW r \in Requests, Middleware(r) \/ MiddlewareError(r) \/ CheckIdempotency(r)
        PROVE  RefusedInv'
    BY <2>0, <2>1, RefusedStep
    DEF Middleware, MiddlewareError, CheckIdempotency, Arrives, Early, Pc, Error
  <2>2. ASSUME NEW r \in Requests, ValidateSource(r) \/ ValidateDest(r)
        PROVE  RefusedInv'
    BY <2>0, <2>2, RefusedStep DEF ValidateSource, ValidateDest, ValidateAccount, Early, Pc, Error
  <2>3. ASSUME NEW r \in Requests, Save(r) PROVE RefusedInv'
    <3>1. CASE \E t \in rows : Key[t] = Key[r]
      BY <2>0, <2>3, <3>1, RefusedStep DEF Save, Early, Error
    <3>2. CASE ~\E t \in rows : Key[t] = Key[r]
      <4>1. /\ rows' = rows \cup {r} /\ resp' = resp /\ pc[r] = "save"
            /\ pc' = [pc EXCEPT ![r] = "append"]
        BY <2>3, <3>2 DEF Save, Goto
      <4>2. pc'[r] = "append" /\ \A q \in Requests : q # r => pc'[q] = pc[q]
        BY <2>0, <4>1 DEF TypeOK
      <4> QED
        BY <2>0, <4>1, <4>2 DEF RefusedInv, RefusedLeavesNothing, TypeOK, Early
    <3> QED
      BY <3>1, <3>2
  <2>4. ASSUME NEW r \in Requests, AppendEvent(r) \/ WriteOutbox(r) \/ CacheResult(r)
        PROVE  RefusedInv'
    BY <2>0, <2>4, RefusedStep DEF AppendEvent, WriteOutbox, CacheResult, Early, Pc
  <2>5. ASSUME NEW r \in Requests, Reply(r) \/ Fault(r) PROVE RefusedInv'
    BY <2>0, <2>5, RefusedStep DEF Reply, Fault, Error
  <2>6. CASE UNCHANGED <<rows, pc, resp>>
    BY <2>6 DEF RefusedInv, RefusedLeavesNothing
  <2> QED
    BY <2>1, <2>2, <2>3, <2>4, <2>5, <2>6 DEF Next, Handle, Expire, SaveAccount, vars
<1>3. RefusedInv => RefusedLeavesNothing
  BY DEF RefusedInv
<1> QED
  BY <1>1, <1>2, <1>3, Invariance, PTL DEF Spec
=============================================================================
