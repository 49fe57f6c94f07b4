---------------------------- MODULE LedgerStore -----------------------------
(***************************************************************************)
(* The ledger tables below the saga's PostEntries and GetBalance           *)
(* (postgres/ledger_repo.go, account_repo.go) and those who read them: the *)
(* reconciler (cmd/reconciler) and GET /accounts/{id}/balance.             *)
(*                                                                         *)
(* PostEntries is a transaction of its own: BEGIN, one INSERT per entry,   *)
(* COMMIT, each a round trip that can fail, with other writers and readers *)
(* in between.  A query sees what is committed when it starts.             *)
(***************************************************************************)
EXTENDS LedgerEntries, Sequences

CONSTANTS
  Writers,   \* goroutines that post
  Postings,  \* what they may ask NewPosting for
  Deposits,  \* balances that are seeded, their src not being used
  MaxTx,     \* bound: postings begun and deposits made
  MaxFaults  \* bound: calls cut short by an error or a crash

NoRow == "none"

ASSUME LedgerAssumption ==
  /\ Postings \subseteq Request
  /\ Deposits \subseteq {p \in Request : p.amount > 0}
  /\ MaxTx \in Nat /\ MaxFaults \in Nat
  /\ NoRow \notin Currencies

VARIABLES
  accounts,  \* id -> the currency of its row, or NoRow
  entries,   \* ledger_entries: the committed rows
  txs,       \* transaction ids handed out
  writer,    \* writer -> the transaction it is in
  audit,     \* the reconciler: what it has loaded, what it has found
  client,    \* a balance request and its answer
  faults

vars == <<accounts, entries, txs, writer, audit, client, faults>>

\* A transaction: the entries to insert, the ones inserted and not committed.
Transaction == [todo : Seq(Entry), done : SUBSET Entry]

Idle == [todo |-> <<>>, done |-> {}]

-----------------------------------------------------------------------------
(* Accounts and postings.                                                  *)

Init ==
  /\ accounts = [a \in Ids |-> NoRow]
  /\ entries = {}
  /\ txs = 0
  /\ writer = [w \in Writers |-> Idle]
  /\ audit = [pc |-> "idle"]
  /\ client = [pc |-> "idle"]
  /\ faults = 0

\* AccountRepo.Save: ON CONFLICT leaves the currency of the row alone.
Save(a, c) ==
  /\ accounts' = [accounts EXCEPT ![a] = IF @ = NoRow THEN c ELSE @]
  /\ UNCHANGED <<entries, txs, writer, audit, client, faults>>

\* A balance is seeded.
Deposit(p) ==
  /\ txs < MaxTx /\ txs' = txs + 1
  /\ accounts[p.dst] # NoRow
  /\ entries' = entries \cup {SeedCredit(txs', p)}
  /\ UNCHANGED <<accounts, writer, audit, client, faults>>

\* NewPosting, and PostEntries up to its first INSERT.
Begin(w, p) ==
  /\ writer[w] = Idle
  /\ Accepts(p)
  /\ txs < MaxTx /\ txs' = txs + 1
  /\ writer' = [writer EXCEPT ![w] =
       [todo |-> <<Debit(txs', p), Credit(txs', p)>>, done |-> {}]]
  /\ UNCHANGED <<accounts, entries, audit, client, faults>>

\* Mutant: the INSERT goes through the pool instead of the transaction.
InsertThroughPool(w) ==
  LET e == Head(writer[w].todo) IN
  /\ writer[w].todo # <<>>
  /\ accounts[e.account] # NoRow
  /\ entries' = entries \cup {e}
  /\ writer' = [writer EXCEPT ![w].todo = Tail(@), ![w].done = @ \cup {e}]
  /\ UNCHANGED <<accounts, txs, audit, client, faults>>

\* An INSERT whose account has a row.
Insert(w) ==
  LET e == Head(writer[w].todo) IN
  /\ writer[w].todo # <<>>
  /\ accounts[e.account] # NoRow
  /\ writer' = [writer EXCEPT ![w].todo = Tail(@), ![w].done = @ \cup {e}]
  /\ UNCHANGED <<accounts, entries, txs, audit, client, faults>>

\* Mutant: a row that cannot be inserted is skipped.
InsertSkips(w) ==
  /\ writer[w].todo # <<>>
  /\ accounts[Head(writer[w].todo).account] = NoRow
  /\ writer' = [writer EXCEPT ![w].todo = Tail(@)]
  /\ UNCHANGED <<accounts, entries, txs, audit, client, faults>>

\* An INSERT that the foreign key refuses, as it does for a clearing account
\* that is not seeded: an error, and the deferred Rollback.
InsertRefused(w) ==
  /\ writer[w].todo # <<>>
  /\ accounts[Head(writer[w].todo).account] = NoRow
  /\ writer' = [writer EXCEPT ![w] = Idle]
  /\ UNCHANGED <<accounts, entries, txs, audit, client, faults>>

Inserted(w) == writer[w].todo = <<>> /\ writer[w].done # {}

Commit(w) ==
  /\ Inserted(w)
  /\ entries' = entries \cup writer[w].done
  /\ writer' = [writer EXCEPT ![w] = Idle]
  /\ UNCHANGED <<accounts, txs, audit, client, faults>>

\* The connection or the process is lost: the transaction is rolled back, or
\* has been committed although the caller gets an error.
Break(w) ==
  /\ writer[w] # Idle
  /\ faults < MaxFaults /\ faults' = faults + 1
  /\ writer' = [writer EXCEPT ![w] = Idle]
  /\ \/ UNCHANGED entries
     \/ Inserted(w) /\ entries' = entries \cup writer[w].done
  /\ UNCHANGED <<accounts, txs, audit, client>>

-----------------------------------------------------------------------------
(* The reconciler.                                                         *)

\* reconcile: GetAllEntries, on the ticker.
GetAllEntries ==
  /\ audit.pc # "sum"
  /\ audit' = [pc |-> "sum", rows |-> entries]
  /\ UNCHANGED <<accounts, entries, txs, writer, client, faults>>

\* totals[currency] += e.SignedAmount(), in int64.
Total(rows, c) ==
  FoldFunctionOnSet(LAMBDA x, y : Wrap(x + y), 0, Signed, {e \in rows : e.currency = c})

\* A total other than zero is logged as drift.
Report ==
  /\ audit.pc = "sum"
  /\ audit' = [pc |-> "done", rows |-> audit.rows,
                totals |-> [c \in Currencies |-> Total(audit.rows, c)]]
  /\ UNCHANGED <<accounts, entries, txs, writer, client, faults>>

\* The rows end with an error: nothing is reported until the next tick.
AuditFails ==
  /\ audit.pc = "sum"
  /\ faults < MaxFaults /\ faults' = faults + 1
  /\ audit' = [pc |-> "idle"]
  /\ UNCHANGED <<accounts, entries, txs, writer, client>>

-----------------------------------------------------------------------------
(* GET /accounts/{id}/balance.                                             *)

\* The handler looks the account up.
FindByID(a) ==
  /\ client.pc # "balance"
  /\ client' = IF accounts[a] = NoRow THEN [pc |-> "404"]
               ELSE [pc |-> "balance", id |-> a, currency |-> accounts[a]]
  /\ UNCHANGED <<accounts, entries, txs, writer, audit, faults>>

Sum(a, c) ==
  SumFunctionOnSet(Signed, {e \in entries : e.account = a /\ e.currency = c})

\* Mutant: a sum that does not fit wraps around.
GetBalanceWraps ==
  LET s == Sum(client.id, client.currency) IN
  /\ client.pc = "balance"
  /\ client' = [pc |-> "200", id |-> client.id, currency |-> client.currency,
                balance |-> Wrap(s)]
  /\ UNCHANGED <<accounts, entries, txs, writer, audit, faults>>

\* SUM is NUMERIC, and scanning one that does not fit into int64 is an error.
GetBalance ==
  LET s == Sum(client.id, client.currency) IN
  /\ client.pc = "balance"
  /\ client' = IF s \in MinInt..MaxInt
               THEN [pc |-> "200", id |-> client.id, currency |-> client.currency,
                     balance |-> s]
               ELSE [pc |-> "500"]
  /\ UNCHANGED <<accounts, entries, txs, writer, audit, faults>>

\* The query fails.
BalanceFails ==
  /\ client.pc = "balance"
  /\ faults < MaxFaults /\ faults' = faults + 1
  /\ client' = [pc |-> "500"]
  /\ UNCHANGED <<accounts, entries, txs, writer, audit>>

-----------------------------------------------------------------------------

Next ==
  \/ \E a \in Ids, c \in Currencies : Save(a, c)
  \/ \E p \in Deposits : Deposit(p)
  \/ \E w \in Writers, p \in Postings : Begin(w, p)
  \/ \E w \in Writers : Insert(w) \/ InsertRefused(w) \/ Commit(w) \/ Break(w)
  \/ GetAllEntries \/ Report \/ AuditFails
  \/ \E a \in Ids : FindByID(a)
  \/ GetBalance \/ BalanceFails

Spec == Init /\ [][Next]_vars

-----------------------------------------------------------------------------
(* Properties.                                                             *)

Txs(S) == {e.tx : e \in S}

\* Every variable has its type.
TypeOK ==
  /\ accounts \in [Ids -> Currencies \cup {NoRow}]
  /\ entries \in SUBSET Entry
  /\ txs \in 0..MaxTx
  /\ writer \in [Writers -> Transaction]
  /\ \/ audit.pc = "idle"
     \/ audit.pc \in {"sum", "done"} /\ audit.rows \in SUBSET Entry
  /\ client.pc \in {"idle", "balance", "200", "404", "500"}
  /\ client.pc \in {"balance", "200"} => client.id \in Ids /\ client.currency \in Currencies
  /\ faults \in 0..MaxFaults

Whole(S) ==
  \A e \in S : e.description = "posting" => \E f \in S : Balances(e, f)

\* Nobody ever reads half a posting: the committed entries, and the ones that
\* the reconciler has loaded, contain the counter-entry of each of theirs,
\* wherever PostEntries fails or is refused, and however writers interleave.
WholePostings ==
  /\ Whole(entries)
  /\ audit.pc # "idle" => Whole(audit.rows) /\ audit.rows \subseteq entries

Seeded(rows, c) ==
  SumFunctionOnSet(Amounts, {e \in rows : e.currency = c /\ e.description = "seed"})

\* What the reconciler reports as drift is exactly what was seeded without a
\* counter-entry and nothing that the engine posted, also when the int64
\* totals overflow on the way.
OnlySeedsDrift ==
  audit.pc = "done" => \A c \in Currencies :
    audit.totals[c] = Wrap(Seeded(audit.rows, c))

Received(a, c, type) ==
  SumFunctionOnSet(Amounts,
    {e \in entries : e.account = a /\ e.currency = c /\ e.type = type})

\* A balance is answered with 200 only if it is what the account has received
\* less what it has given: a sum beyond int64 is an error, never a number.
BalanceIsTrue ==
  [][client' # client /\ client'.pc = "200" =>
       client'.balance = Received(client'.id, accounts[client'.id], "CREDIT")
                         - Received(client'.id, accounts[client'.id], "DEBIT")]_vars

\* The tables keep the ledger's contract: append-only, by whole postings.
Contract == INSTANCE LedgerContract WITH ledger <- entries

KeepsLedger == Contract!LSpec

-----------------------------------------------------------------------------
(* The inductive invariant behind these properties.                        *)

\* What a transaction has inserted and still has to insert is one posting,
\* debit first, under an id that no one else uses.
Held(w) == writer[w].done \cup {writer[w].todo[i] : i \in DOMAIN writer[w].todo}

WriterInv(w) ==
  writer[w] # Idle =>
    \E d, c \in Held(w) :
      /\ Balances(d, c) /\ d.tx <= txs
      /\ \/ writer[w] = [todo |-> <<d, c>>, done |-> {}]
         \/ writer[w] = [todo |-> <<c>>, done |-> {d}]
         \/ writer[w] = [todo |-> <<>>, done |-> {d, c}]
      /\ d.tx \notin Txs(entries)
      /\ \A v \in Writers \ {w} : d.tx \notin Txs(Held(v))

\* PostEntries holds one whole posting at a time, and its transaction id is
\* its own: what makes WholePostings inductive.
LedgerInv ==
  /\ WholePostings
  /\ \A e \in entries : e.tx <= txs
  /\ \A w \in Writers : WriterInv(w)

\* The signed amounts of all the rows come to what was seeded.
Conserved(rows) ==
  /\ IsFiniteSet(rows)
  /\ \A c \in Currencies :
       SumFunctionOnSet(Signed, {e \in rows : e.currency = c}) = Seeded(rows, c)

\* So it is in the table and in what the reconciler has loaded: what makes
\* OnlySeedsDrift inductive.
SumsInv ==
  /\ Conserved(entries)
  /\ audit.pc # "idle" => Conserved(audit.rows)
  /\ OnlySeedsDrift

\* Inductive: the tables, the transactions of PostEntries and the reconciler
\* agree.
Inv == TypeOK /\ LedgerInv /\ SumsInv
=============================================================================
