--------------------------- MODULE CreateTransfer ---------------------------
(***************************************************************************)
(* POST /v1/transfers: idempotencyMiddleware, Handler.CreateTransfer and   *)
(* CreateTransferHandler.Handle (internal/interfaces/http and              *)
(* internal/application/command) on Redis and Postgres.                    *)
(*                                                                         *)
(* Every request is a process of its own and every store call an action:   *)
(* retries of one key overlap, and an error or a crash comes between any   *)
(* two calls.  The transfer a request creates is named by the request.     *)
(***************************************************************************)
EXTENDS Integers, FiniteSets

CONSTANTS
  Requests,
  Keys,
  None,        \* no key, no cached response, no transfer
  Key,         \* request -> its Idempotency-Key header
  Body,        \* request -> its body
  Accounts,    \* ids with a row in the accounts table
  Statuses,    \* account statuses that occur
  MaxArrivals, \* bound: requests that arrive
  MaxFaults    \* bound: failing store calls and crashes

\* json: the body decodes.  ids: both account ids are UUIDs.
ASSUME CreateAssumption ==
  /\ Key \in [Requests -> Keys \cup {None}]
  /\ None \notin Keys \cup Requests
  /\ \A r \in Requests : Body[r].json \in BOOLEAN /\ Body[r].ids \in BOOLEAN
  /\ "ACTIVE" \in Statuses
  /\ MaxArrivals \in Nat /\ MaxFaults \in Nat

VARIABLES
  rows,       \* transfers: requests whose transfer has been inserted
  appended,   \* transfer_events: those with their transfer.requested event
  requested,  \* outbox: those with their transfer.requested message
  cache,      \* Redis: key -> transfer of the cached response
  status,     \* accounts: account -> status
  pc,         \* request -> what it does next
  resp,       \* request -> how it ended
  faults

vars == <<rows, appended, requested, cache, status, pc, resp, faults>>

Pc == {"arriving", "check", "source", "dest", "save", "append", "outbox",
       "cache", "reply", "done"}

\* The errors a request can end with; "no_answer": the client hears nothing.
Error == {"idempotency_key_required", "invalid_request_body", "invalid_account_id",
          "account_not_found", "account_not_transactable", "invalid_transfer",
          "duplicate_key", "store_error", "no_answer"}

\* writeError and handleDomainError.
StatusOf(e) ==
  CASE e \in {"idempotency_key_required", "invalid_request_body"} -> 400
    [] e = "account_not_found" -> 404
    [] e = "no_answer"         -> 0
    [] OTHER                   -> 500

Pending == [status |-> 0, transfer |-> None, error |-> "no_answer"]

Goto(r, p) == pc' = [pc EXCEPT ![r] = p] /\ UNCHANGED resp

Ends(r, x) == pc' = [pc EXCEPT ![r] = "done"] /\ resp' = [resp EXCEPT ![r] = x]

Answer(r, code, t) == Ends(r, [status |-> code, transfer |-> t, error |-> "none"])

Reject(r, e) == Ends(r, [status |-> StatusOf(e), transfer |-> None, error |-> e])

-----------------------------------------------------------------------------

Init ==
  /\ rows = {} /\ appended = {} /\ requested = {}
  /\ cache = [k \in Keys |-> None]
  /\ status = [a \in Accounts |-> "ACTIVE"]
  /\ pc = [r \in Requests |-> "arriving"]
  /\ resp = [r \in Requests |-> Pending]
  /\ faults = 0

Arrives(r) ==
  pc[r] = "arriving" /\ Cardinality({q \in Requests : pc[q] # "arriving"}) < MaxArrivals

\* idempotencyMiddleware: no key, a cached response, or on to the handler.
Middleware(r) ==
  /\ Arrives(r)
  /\ \/ Key[r] = None /\ Reject(r, "idempotency_key_required")
     \/ /\ Key[r] # None
        /\ IF cache[Key[r]] # None THEN Answer(r, 200, cache[Key[r]])
                                   ELSE Goto(r, "check")
  /\ UNCHANGED <<rows, appended, requested, cache, status, faults>>

\* The middleware takes an error of Redis for a miss.
MiddlewareError(r) ==
  /\ Arrives(r) /\ Key[r] # None
  /\ faults < MaxFaults /\ faults' = faults + 1
  /\ Goto(r, "check")
  /\ UNCHANGED <<rows, appended, requested, cache, status>>

\* CreateTransfer decodes the body; Handle looks into the cache again and
\* parses the account ids.
CheckIdempotency(r) ==
  /\ pc[r] = "check"
  /\ CASE ~Body[r].json           -> Reject(r, "invalid_request_body")
       [] cache[Key[r]] # None    -> Answer(r, 200, cache[Key[r]])
       [] ~Body[r].ids            -> Reject(r, "invalid_account_id")
       [] OTHER                   -> Goto(r, "source")
  /\ UNCHANGED <<rows, appended, requested, cache, status, faults>>

\* validateAccounts: FindByID, then CanTransact.
ValidateAccount(r, a, next) ==
  /\ CASE a \notin Accounts       -> Reject(r, "account_not_found")
       [] status[a] # "ACTIVE"    -> Reject(r, "account_not_transactable")
       [] OTHER                   -> next
  /\ UNCHANGED <<rows, appended, requested, cache, status, faults>>

ValidateSource(r) ==
  /\ pc[r] = "source"
  /\ ValidateAccount(r, Body[r].src, Goto(r, "dest"))

\* Mutant: the transfer is inserted before the destination is looked at.
ValidateDestAfterSave(r) ==
  /\ pc[r] = "dest"
  /\ IF Body[r].dst \notin Accounts THEN Reject(r, "account_not_found") ELSE Goto(r, "append")
  /\ rows' = rows \cup {r}
  /\ UNCHANGED <<appended, requested, cache, status, faults>>

\* After the destination, money.New and transfer.New look at the amount and
\* at the two accounts.
ValidateDest(r) ==
  /\ pc[r] = "dest"
  /\ ValidateAccount(r, Body[r].dst,
       IF Body[r].amount > 0 /\ Body[r].src # Body[r].dst
       THEN Goto(r, "save") ELSE Reject(r, "invalid_transfer"))

\* Mutant: idempotency_key is not UNIQUE.
SaveNotUnique(r) ==
  /\ pc[r] = "save"
  /\ rows' = rows \cup {r}
  /\ Goto(r, "append")
  /\ UNCHANGED <<appended, requested, cache, status, faults>>

\* Save: INSERT into transfers, where idempotency_key is UNIQUE.
Save(r) ==
  /\ pc[r] = "save"
  /\ IF \E t \in rows : Key[t] = Key[r]
     THEN Reject(r, "duplicate_key") /\ UNCHANGED rows
     ELSE Goto(r, "append") /\ rows' = rows \cup {r}
  /\ UNCHANGED <<appended, requested, cache, status, faults>>

\* Mutant: the outbox write is forgotten.
AppendEventOnly(r) ==
  /\ pc[r] = "append"
  /\ appended' = appended \cup {r}
  /\ Goto(r, "cache")
  /\ UNCHANGED <<rows, requested, cache, status, faults>>

AppendEvent(r) ==
  /\ pc[r] = "append"
  /\ appended' = appended \cup {r}
  /\ Goto(r, "outbox")
  /\ UNCHANGED <<rows, requested, cache, status, faults>>

WriteOutbox(r) ==
  /\ pc[r] = "outbox"
  /\ requested' = requested \cup {r}
  /\ Goto(r, "cache")
  /\ UNCHANGED <<rows, appended, cache, status, faults>>

\* cacheResult: SetIfAbsent, whose answer is not looked at.
CacheResult(r) ==
  /\ pc[r] = "cache"
  /\ cache' = [cache EXCEPT ![Key[r]] = IF @ = None THEN r ELSE @]
  /\ Goto(r, "reply")
  /\ UNCHANGED <<rows, appended, requested, status, faults>>

Reply(r) ==
  /\ pc[r] = "reply"
  /\ Answer(r, 202, r)
  /\ UNCHANGED <<rows, appended, requested, cache, status, faults>>

\* A store call returns an error, or the process or the connection is lost:
\* what the request has committed stays.
Fault(r) ==
  /\ pc[r] \notin {"arriving", "done"}
  /\ faults < MaxFaults /\ faults' = faults + 1
  /\ \/ pc[r] # "reply" /\ Reject(r, "store_error")
     \/ Reject(r, "no_answer")
  /\ UNCHANGED <<rows, appended, requested, cache, status>>

\* The 24-hour TTL is over, or Redis restarts.
Expire(k) ==
  /\ cache[k] # None
  /\ cache' = [cache EXCEPT ![k] = None]
  /\ UNCHANGED <<rows, appended, requested, status, pc, resp, faults>>

\* An account is frozen, closed or reactivated (AccountRepo.Save).
SaveAccount(a, s) ==
  /\ status' = [status EXCEPT ![a] = s]
  /\ UNCHANGED <<rows, appended, requested, cache, pc, resp, faults>>

Handle(r) ==
  \/ Middleware(r) \/ CheckIdempotency(r) \/ ValidateSource(r) \/ ValidateDest(r)
  \/ Save(r) \/ AppendEvent(r) \/ WriteOutbox(r) \/ CacheResult(r) \/ Reply(r)

Next ==
  \/ \E r \in Requests : Handle(r) \/ MiddlewareError(r) \/ Fault(r)
  \/ \E k \in Keys : Expire(k)
  \/ \E a \in Accounts, s \in Statuses : SaveAccount(a, s)

Spec == Init /\ [][Next]_vars

-----------------------------------------------------------------------------
(* Safety.                                                                 *)

\* Every variable has its type.
TypeOK ==
  /\ rows \subseteq Requests
  /\ appended \subseteq Requests
  /\ requested \subseteq Requests
  /\ cache \in [Keys -> Requests \cup {None}]
  /\ status \in [Accounts -> Statuses]
  /\ pc \in [Requests -> Pc]
  /\ resp \in [Requests -> [status : {0, 200, 202, 400, 404, 500},
                            transfer : Requests \cup {None},
                            error : Error \cup {"none"}]]
  /\ faults \in 0..MaxFaults

Accepted(r) == resp[r].status \in {200, 202}

\* A request and its retries, with the same key and the same body, are
\* answered with the same transfer if they are answered with one, whatever
\* overlaps, is lost, expires or fails in between, requests that use the key
\* for another body included.
SameAnswer ==
  \A q, r \in Requests :
    Accepted(q) /\ Accepted(r) /\ Key[q] = Key[r] /\ Body[q] = Body[r] =>
      resp[q].transfer = resp[r].transfer

\* A client that is answered 202 or 200 can rely on it: the transfer is in the
\* table under its key, with its event, and its message is in the outbox.
AcceptedIsDurable ==
  \A r \in Requests : Accepted(r) =>
    LET t == resp[r].transfer IN
    /\ t \in rows \cap appended \cap requested
    /\ Key[t] = Key[r]

\* At most one transfer per key asks the worker to move money.
OneTransferPerKey ==
  \A q, r \in requested : Key[q] = Key[r] => q = r

\* A request that is refused for a reason of its own leaves no transfer behind
\* that would make its key useless for the corrected one.
RefusedLeavesNothing ==
  \A r \in rows : resp[r].error \in {"none", "store_error", "no_answer"}

-----------------------------------------------------------------------------
(* The inductive invariant behind them.                                    *)

\* What a request has done when it is at pc.
Done(r) ==
  /\ pc[r] \notin {"arriving", "done"} => Key[r] # None
  /\ pc[r] \in {"append", "outbox", "cache", "reply"} => r \in rows
  /\ pc[r] \in {"outbox", "cache", "reply"} => r \in appended
  /\ pc[r] \in {"cache", "reply"} => r \in requested

\* Only a transfer that is stored, logged and queued is ever cached or
\* returned, and no two stored transfers share a key.
CreateInv ==
  /\ requested \subseteq appended /\ appended \subseteq rows
  /\ \A q, r \in rows : Key[q] = Key[r] => q = r
  /\ \A r \in Requests : Done(r)
  /\ \A k \in Keys : cache[k] # None => cache[k] \in requested /\ Key[cache[k]] = k
  /\ AcceptedIsDurable

\* Inductive: the stores, the cache and the requests in Handle agree.
Inv == TypeOK /\ CreateInv

-----------------------------------------------------------------------------
(* What the documents say.                                                 *)

\* "both commit or both roll back": when a request is over, its row is there
\* only together with its outbox row.
RowMeansRequested ==
  \A r \in rows : pc[r] = "done" => r \in requested
=============================================================================
