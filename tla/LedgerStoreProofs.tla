------------------------- MODULE LedgerStoreProofs --------------------------
(***************************************************************************)
(* Proofs about the ledger tables, for any number of writers, accounts,    *)
(* currencies and faults and any requests.                                 *)
(***************************************************************************)
EXTENDS LedgerStore, Sums

\* The initial state has its types.
LEMMA InitTypes == Init => TypeOK
  BY LedgerAssumption DEF Init, TypeOK, Idle, Transaction

\* The two entries of an accepted request are entries that balance.
LEMMA PostingBalances ==
  ASSUME NEW p \in Request, NEW tx \in Nat, Accepts(p)
  PROVE  /\ Debit(tx, p) \in Entry /\ Credit(tx, p) \in Entry
         /\ Balances(Debit(tx, p), Credit(tx, p))
         /\ Debit(tx, p).tx = tx
  BY DEF Request, Accepts, Debit, Credit, Entry, Balances

\* The entry of a seeded balance.
LEMMA SeedIsEntry ==
  ASSUME NEW p \in Request, NEW tx \in Nat, p.amount > 0
  PROVE  /\ SeedCredit(tx, p) \in Entry
         /\ SeedCredit(tx, p).tx = tx
         /\ SeedCredit(tx, p).type = "CREDIT"
         /\ SeedCredit(tx, p).description = "seed"
  BY DEF Request, SeedCredit, Credit, Entry

LEMMA IdleIsTransaction == Idle \in Transaction
  BY DEF Idle, Transaction

\* Every step keeps the types.
LEMMA NextTypes == TypeOK /\ [Next]_vars => TypeOK'
<1> SUFFICES ASSUME TypeOK, [Next]_vars PROVE TypeOK'
  OBVIOUS
<1> USE LedgerAssumption
<1>1. CASE UNCHANGED vars
  BY <1>1 DEF TypeOK, vars
<1>2. ASSUME NEW a \in Ids, NEW c \in Currencies, Save(a, c) PROVE TypeOK'
  BY <1>2 DEF TypeOK, Save
<1>3. ASSUME NEW p \in Deposits, Deposit(p) PROVE TypeOK'
  <2>1. txs' \in Nat
    BY <1>3 DEF TypeOK, Deposit
  <2>2. SeedCredit(txs', p) \in Entry
    BY <2>1, SeedIsEntry
  <2> QED
    BY <1>3, <2>2 DEF TypeOK, Deposit
<1>4. ASSUME NEW w \in Writers, NEW p \in Postings, Begin(w, p) PROVE TypeOK'
  <2>1. txs' \in Nat
    BY <1>4 DEF TypeOK, Begin
  <2>2. Debit(txs', p) \in Entry /\ Credit(txs', p) \in Entry
    BY <1>4, <2>1, PostingBalances DEF Begin
  <2>3. [todo |-> <<Debit(txs', p), Credit(txs', p)>>, done |-> {}] \in Transaction
    BY <2>2 DEF Transaction
  <2> QED
    BY <1>4, <2>3 DEF TypeOK, Begin
<1>5. ASSUME NEW w \in Writers, Insert(w) PROVE TypeOK'
  <2>1. writer[w].todo \in Seq(Entry) /\ writer[w].todo # <<>>
    BY <1>5 DEF TypeOK, Insert, Transaction
  <2>2. Head(writer[w].todo) \in Entry /\ Tail(writer[w].todo) \in Seq(Entry)
    BY <2>1
  <2>3. writer' \in [Writers -> Transaction]
    BY <1>5, <2>2 DEF TypeOK, Insert, Transaction
  <2> QED
    BY <1>5, <2>3 DEF TypeOK, Insert
<1>6. ASSUME NEW w \in Writers, InsertRefused(w) PROVE TypeOK'
  BY <1>6, IdleIsTransaction DEF TypeOK, InsertRefused
<1>7. ASSUME NEW w \in Writers, Commit(w) \/ Break(w) PROVE TypeOK'
  <2>1. writer[w].done \in SUBSET Entry
    BY DEF TypeOK, Transaction
  <2>2. CASE Commit(w)
    BY <2>1, <2>2, IdleIsTransaction DEF TypeOK, Commit
  <2>3. CASE Break(w)
    BY <2>1, <2>3, IdleIsTransaction DEF TypeOK, Break
  <2> QED
    BY <1>7, <2>2, <2>3
<1>8. CASE GetAllEntries \/ Report \/ AuditFails
  BY <1>8 DEF TypeOK, GetAllEntries, Report, AuditFails
<1>9. ASSUME NEW a \in Ids, FindByID(a) PROVE TypeOK'
  BY <1>9 DEF TypeOK, FindByID
<1>10. CASE GetBalance \/ BalanceFails
  BY <1>10 DEF TypeOK, GetBalance, BalanceFails
<1> QED
  BY <1>1, <1>2, <1>3, <1>4, <1>5, <1>6, <1>7, <1>8, <1>9, <1>10 DEF Next

\* PostEntries, the reconciler and the balance request keep the types of the
\* tables and of their own state.
THEOREM LedgerTypes == Spec => []TypeOK
  BY InitTypes, NextTypes, PTL DEF Spec

-----------------------------------------------------------------------------

\* Writer w's transaction consists of d and c, debit first.
Form(x, d, c) ==
  \/ x = [todo |-> <<d, c>>, done |-> {}]
  \/ x = [todo |-> <<c>>, done |-> {d}]
  \/ x = [todo |-> <<>>, done |-> {d, c}]

HeldBy(x) == x.done \cup {x.todo[i] : i \in DOMAIN x.todo}

\* Whatever has been inserted, the transaction holds the same two entries.
LEMMA FormHolds ==
  ASSUME NEW x, NEW d, NEW c, Form(x, d, c)
  PROVE  HeldBy(x) = {d, c} /\ x # Idle
<1>1. CASE x = [todo |-> <<d, c>>, done |-> {}]
  <2>1. DOMAIN x.todo = {1, 2} /\ x.todo[1] = d /\ x.todo[2] = c
    BY <1>1
  <2> QED
    BY <1>1, <2>1 DEF HeldBy, Idle
<1>2. CASE x = [todo |-> <<c>>, done |-> {d}]
  <2>1. DOMAIN x.todo = {1} /\ x.todo[1] = c
    BY <1>2
  <2> QED
    BY <1>2, <2>1 DEF HeldBy, Idle
<1>3. CASE x = [todo |-> <<>>, done |-> {d, c}]
  <2>1. DOMAIN x.todo = {}
    BY <1>3
  <2> QED
    BY <1>3, <2>1 DEF HeldBy, Idle
<1> QED
  BY <1>1, <1>2, <1>3 DEF Form

LEMMA IdleHolds == HeldBy(Idle) = {}
<1>1. DOMAIN Idle.todo = {} /\ Idle.done = {}
  BY DEF Idle
<1> QED
  BY <1>1 DEF HeldBy

\* The invariant of one writer with its two entries named.
Owns(w, d, c) ==
  /\ Balances(d, c) /\ d.tx <= txs
  /\ Form(writer[w], d, c)
  /\ d.tx \notin Txs(entries)
  /\ \A v \in Writers \ {w} : d.tx \notin Txs(HeldBy(writer[v]))

LEMMA OwnsSuffices ==
  ASSUME NEW w \in Writers, NEW d, NEW c, Owns(w, d, c)
  PROVE  WriterInv(w)
<1>1. HeldBy(writer[w]) = {d, c}
  BY FormHolds DEF Owns
<1> QED
  BY <1>1 DEF WriterInv, Owns, Form, Held, HeldBy

LEMMA OwnsHolds ==
  ASSUME NEW w \in Writers, WriterInv(w), writer[w] # Idle
  PROVE  \E d, c \in Held(w) : Owns(w, d, c)
  BY DEF WriterInv, Owns, Form, Held, HeldBy

\* A step that leaves the tables and the transactions alone.
LEMMA Aside ==
  ASSUME LedgerInv, UNCHANGED <<entries, txs, writer>>,
         WholePostings'
  PROVE  LedgerInv'
<1>1. \A w \in Writers : WriterInv(w)'
  <2>1. \A w \in Writers : Held(w)' = Held(w)
    BY DEF Held
  <2> QED
    BY <2>1, ZenonT(30) DEF LedgerInv, WriterInv, Txs
<1> QED
  BY <1>1 DEF LedgerInv

\* A writer that takes no step still owns its posting, if nobody else commits
\* or takes up its transaction id.
LEMMA StillOwns ==
  ASSUME LedgerInv, TypeOK, NEW v \in Writers, writer'[v] = writer[v],
         txs' \in Nat, txs <= txs',
         \A tx \in Txs(entries') \ Txs(entries) :
           tx > txs \/ \E u \in Writers \ {v} : tx \in Txs(HeldBy(writer[u])),
         \A u \in Writers \ {v} : \A tx \in Txs(HeldBy(writer'[u])) :
           tx > txs \/ tx \in Txs(HeldBy(writer[u]))
  PROVE  WriterInv(v)'
<1>1. CASE writer[v] = Idle
  BY <1>1 DEF WriterInv
<1>2. CASE writer[v] # Idle
  <2>1. PICK d, c \in Held(v) : Owns(v, d, c)
    BY <1>2, OwnsHolds DEF LedgerInv
  <2>2. d \in Entry
    <3>1. HeldBy(writer[v]) = {d, c} /\ Form(writer[v], d, c)
      BY <2>1, FormHolds DEF Owns
    <3>2. writer[v].done \subseteq Entry /\ writer[v].todo \in Seq(Entry)
      BY DEF TypeOK, Transaction
    <3> QED
      BY <2>1, <3>2 DEF Held
  <2>3. d.tx \in Nat /\ txs \in Nat /\ d.tx <= txs /\ ~(d.tx > txs)
    BY <2>1, <2>2, LedgerAssumption DEF Entry, Owns, TypeOK
  <2>4. d.tx \notin Txs(entries')
    BY <2>1, <2>3 DEF Owns
  <2>5. \A u \in Writers \ {v} : d.tx \notin Txs(HeldBy(writer'[u]))
    BY <2>1, <2>3 DEF Owns
  <2>6. d.tx <= txs'
    BY <2>3
  <2>7. HeldBy(writer'[v]) = {d, c}
    BY <2>1, FormHolds DEF Owns
  <2> QED
    BY <2>1, <2>4, <2>5, <2>6, <2>7 DEF WriterInv, Owns, Form, Held, HeldBy, Txs
<1> QED
  BY <1>1, <1>2

\* A step of writer w that leaves the tables alone and ends its transaction.
LEMMA GivesUp ==
  ASSUME LedgerInv, TypeOK, NEW w \in Writers,
         writer' = [writer EXCEPT ![w] = Idle],
         UNCHANGED <<entries, txs, audit>>
  PROVE  LedgerInv'
<1>1. writer'[w] = Idle /\ \A v \in Writers \ {w} : writer'[v] = writer[v]
  BY DEF TypeOK
<1>2. txs \in Nat
  BY LedgerAssumption DEF TypeOK
<1>3. ASSUME NEW v \in Writers \ {w} PROVE WriterInv(v)'
  <2>1. \A u \in Writers \ {v} : \A tx \in Txs(HeldBy(writer'[u])) :
          tx \in Txs(HeldBy(writer[u]))
    BY <1>1, IdleHolds DEF Txs
  <2> QED
    BY <1>1, <1>2, <2>1, StillOwns
<1>4. WriterInv(w)'
  BY <1>1 DEF WriterInv
<1> QED
  BY <1>3, <1>4 DEF LedgerInv, WholePostings, Whole

\* A posting is committed: the tables gain exactly its two entries.
LEMMA Commits ==
  ASSUME LedgerInv, TypeOK, NEW w \in Writers, Inserted(w),
         entries' = entries \cup writer[w].done,
         writer' = [writer EXCEPT ![w] = Idle],
         UNCHANGED <<txs, audit>>
  PROVE  /\ LedgerInv'
         /\ \E d, c \in entries' : Contract!PostWhole(d, c)
<1>1. writer'[w] = Idle /\ \A v \in Writers \ {w} : writer'[v] = writer[v]
  BY DEF TypeOK
<1>2. txs \in Nat
  BY LedgerAssumption DEF TypeOK
<1>3. writer[w] # Idle
  BY DEF Inserted, Idle
<1>4. PICK d, c \in Held(w) : Owns(w, d, c)
  BY <1>3, OwnsHolds DEF LedgerInv
<1>5. writer[w].done = {d, c} /\ HeldBy(writer[w]) = {d, c}
  <2>1. Form(writer[w], d, c)
    BY <1>4 DEF Owns
  <2>2. writer[w] = [todo |-> <<>>, done |-> {d, c}]
    BY <2>1 DEF Form, Inserted
  <2> QED
    BY <2>1, <2>2, FormHolds
<1>6. Balances(d, c) /\ Balances(c, d) /\ c.tx = d.tx
  BY <1>4 DEF Owns, Balances
<1>7. Whole(entries')
  BY <1>5, <1>6 DEF Whole, LedgerInv, WholePostings
<1>8. WholePostings'
  BY <1>7 DEF WholePostings, Whole, LedgerInv
<1>9. \A e \in entries' : e.tx <= txs
  BY <1>4, <1>5, <1>6 DEF LedgerInv, Owns
<1>10. ASSUME NEW v \in Writers \ {w} PROVE WriterInv(v)'
  <2>1. \A u \in Writers \ {v} : \A tx \in Txs(HeldBy(writer'[u])) :
          tx \in Txs(HeldBy(writer[u]))
    BY <1>1, IdleHolds DEF Txs
  <2>2. \A tx \in Txs(entries') \ Txs(entries) :
          \E u \in Writers \ {v} : tx \in Txs(HeldBy(writer[u]))
    BY <1>5 DEF Txs
  <2>3. txs' \in Nat /\ txs <= txs' /\ writer'[v] = writer[v]
    BY <1>1, <1>2
  <2> QED
    BY <2>1, <2>2, <2>3, StillOwns
<1>11. WriterInv(w)'
  BY <1>1 DEF WriterInv
<1>12. LedgerInv'
  BY <1>8, <1>9, <1>10, <1>11 DEF LedgerInv
<1>13. Contract!PostWhole(d, c)
  BY <1>4, <1>5, <1>6 DEF Contract!PostWhole, Contract!Unused, Contract!Balances,
     Balances, Owns, Txs
<1> QED
  BY <1>5, <1>12, <1>13

\* A balance is seeded under a transaction id of its own.
LEMMA Seeds ==
  ASSUME LedgerInv, TypeOK, NEW p \in Deposits, Deposit(p)
  PROVE  /\ LedgerInv'
         /\ \E c \in entries' : Contract!DepositWhole(c)
<1>1. txs \in Nat /\ txs' = txs + 1 /\ txs' \in Nat /\ txs <= txs'
  BY LedgerAssumption DEF TypeOK, Deposit
<1>2. PICK e : e = SeedCredit(txs', p)
  OBVIOUS
<1>3. /\ e \in Entry /\ e.tx = txs' /\ e.type = "CREDIT" /\ e.description = "seed"
      /\ entries' = entries \cup {e} /\ UNCHANGED <<writer, audit>>
  BY <1>1, <1>2, SeedIsEntry, LedgerAssumption DEF Deposit
<1>4. \A x \in entries : x.tx \in Nat /\ x.tx <= txs
  BY DEF TypeOK, Entry, LedgerInv
<1>5. WholePostings'
  BY <1>3 DEF LedgerInv, WholePostings, Whole
<1>6. \A x \in entries' : x.tx <= txs'
  BY <1>1, <1>3, <1>4
<1>7. ASSUME NEW v \in Writers PROVE WriterInv(v)'
  <2>1. \A tx \in Txs(entries') \ Txs(entries) : tx > txs
    BY <1>1, <1>3 DEF Txs
  <2> QED
    BY <1>1, <1>3, <2>1, StillOwns
<1>8. Contract!DepositWhole(e)
  BY <1>1, <1>3, <1>4 DEF Contract!DepositWhole, Contract!Unused
<1> QED
  BY <1>3, <1>5, <1>6, <1>7, <1>8 DEF LedgerInv

\* A transaction begins with a posting under a new transaction id.
LEMMA Begins ==
  ASSUME LedgerInv, TypeOK, NEW w \in Writers, NEW p \in Postings, Begin(w, p)
  PROVE  LedgerInv'
<1>1. txs \in Nat /\ txs' = txs + 1 /\ txs' \in Nat /\ txs <= txs'
  BY LedgerAssumption DEF TypeOK, Begin
<1>2. PICK d, c : d = Debit(txs', p) /\ c = Credit(txs', p)
  OBVIOUS
<1>3. d \in Entry /\ c \in Entry /\ Balances(d, c) /\ d.tx = txs' /\ c.tx = txs'
  BY <1>1, <1>2, PostingBalances, LedgerAssumption DEF Begin, Balances
<1>4. /\ writer'[w] = [todo |-> <<d, c>>, done |-> {}]
      /\ \A v \in Writers \ {w} : writer'[v] = writer[v]
      /\ UNCHANGED <<entries, audit>>
  BY <1>2 DEF Begin, TypeOK
<1>5. Form(writer'[w], d, c)
  BY <1>4 DEF Form
<1>6. HeldBy(writer'[w]) = {d, c}
  BY <1>5, FormHolds
<1>7. \A x \in entries : x.tx \in Nat /\ x.tx <= txs
  BY DEF TypeOK, Entry, LedgerInv
<1>8. ASSUME NEW v \in Writers \ {w} PROVE WriterInv(v)'
  <2>1. \A u \in Writers \ {v} : \A tx \in Txs(HeldBy(writer'[u])) :
          tx > txs \/ tx \in Txs(HeldBy(writer[u]))
    <3>1. \A tx \in Txs(HeldBy(writer'[w])) : tx > txs
      BY <1>1, <1>3, <1>6 DEF Txs
    <3> QED
      BY <1>4, <3>1
  <2>2. Txs(entries') = Txs(entries) /\ writer'[v] = writer[v]
    BY <1>4
  <2> QED
    BY <1>1, <2>1, <2>2, StillOwns
<1>9. ASSUME NEW v \in Writers \ {w} PROVE txs' \notin Txs(HeldBy(writer'[v]))
  <2>1. writer'[v] = writer[v]
    BY <1>4
  <2>2. CASE writer[v] = Idle
    BY <2>1, <2>2, IdleHolds DEF Txs
  <2>3. CASE writer[v] # Idle
    <3>1. PICK d2, c2 \in Held(v) : Owns(v, d2, c2)
      BY <2>3, OwnsHolds DEF LedgerInv
    <3>2. HeldBy(writer[v]) = {d2, c2} /\ c2.tx = d2.tx /\ d2.tx <= txs
      BY <3>1, FormHolds DEF Owns, Balances
    <3>3. d2 \in Entry
      BY DEF Held, TypeOK, Transaction
    <3>4. d2.tx \in Nat
      BY <3>3 DEF Entry
    <3> QED
      BY <1>1, <2>1, <3>2, <3>4 DEF Txs
  <2> QED
    BY <2>2, <2>3
<1>10. WriterInv(w)'
  <2>1. d.tx \notin Txs(entries')
    BY <1>1, <1>3, <1>4, <1>7 DEF Txs
  <2>2. d.tx <= txs'
    BY <1>1, <1>3
  <2>3. Owns(w, d, c)'
    BY <1>3, <1>5, <1>9, <2>1, <2>2 DEF Owns, Balances, Form, HeldBy, Txs
  <2> QED
    BY <1>6, <2>3 DEF WriterInv, Owns, Form, Held, HeldBy
<1>11. \A x \in entries' : x.tx <= txs'
  BY <1>1, <1>4, <1>7
<1> QED
  BY <1>4, <1>8, <1>10, <1>11 DEF LedgerInv, WholePostings, Whole

\* An insert moves an entry from those to insert to those inserted.
LEMMA Inserts ==
  ASSUME LedgerInv, TypeOK, NEW w \in Writers, Insert(w)
  PROVE  LedgerInv'
<1>1. txs \in Nat /\ UNCHANGED <<entries, txs, audit>>
  BY LedgerAssumption DEF TypeOK, Insert
<1>2. writer[w] # Idle
  BY DEF Insert, Idle
<1>3. PICK d, c \in Held(w) : Owns(w, d, c)
  BY <1>2, OwnsHolds DEF LedgerInv
<1>4. PICK x, y : x = writer[w] /\ y = writer'[w]
  OBVIOUS
<1>5. \A v \in Writers \ {w} : writer'[v] = writer[v]
  BY DEF Insert, TypeOK
<1>6. /\ x.todo # <<>> /\ Form(x, d, c)
      /\ y = [x EXCEPT !.todo = Tail(x.todo), !.done = x.done \cup {Head(x.todo)}]
  BY <1>3, <1>4 DEF Insert, TypeOK, Owns
<1>7. Form(y, d, c)
  <2>1. CASE x = [todo |-> <<d, c>>, done |-> {}]
    <3>1. Head(x.todo) = d /\ Tail(x.todo) = <<c>> /\ x.done = {}
      BY <2>1
    <3>2. y = [todo |-> <<c>>, done |-> {d}]
      BY <1>6, <2>1, <3>1
    <3> QED
      BY <3>2 DEF Form
  <2>2. CASE x = [todo |-> <<c>>, done |-> {d}]
    <3>1. Head(x.todo) = c /\ Tail(x.todo) = <<>> /\ x.done = {d}
      BY <2>2
    <3>2. y = [todo |-> <<>>, done |-> {d, c}]
      BY <1>6, <2>2, <3>1
    <3> QED
      BY <3>2 DEF Form
  <2> QED
    BY <1>6, <2>1, <2>2 DEF Form
<1>8. HeldBy(y) = {d, c} /\ HeldBy(x) = {d, c}
  BY <1>6, <1>7, FormHolds
<1>9. \A u \in Writers : HeldBy(writer'[u]) = HeldBy(writer[u])
  BY <1>4, <1>5, <1>8
<1>10. ASSUME NEW v \in Writers \ {w} PROVE WriterInv(v)'
  BY <1>1, <1>5, <1>9, StillOwns
<1>11. WriterInv(w)'
  <2>1. Balances(d, c) /\ d.tx <= txs' /\ Form(writer'[w], d, c)
    BY <1>1, <1>3, <1>4, <1>7 DEF Owns
  <2>2. d.tx \notin Txs(entries')
    BY <1>1, <1>3 DEF Owns
  <2>3. \A v \in Writers \ {w} : d.tx \notin Txs(HeldBy(writer'[v]))
    BY <1>3, <1>5 DEF Owns
  <2>4. Owns(w, d, c)'
    BY <2>1, <2>2, <2>3 DEF Owns, Balances, Form, HeldBy, Txs
  <2>5. HeldBy(writer'[w]) = {d, c}
    BY <1>4, <1>8
  <2> QED
    BY <2>4, <2>5 DEF WriterInv, Owns, Form, Held, HeldBy
<1> QED
  BY <1>1, <1>10, <1>11 DEF LedgerInv, WholePostings, Whole

\* Every step keeps the invariant and is a step of the contract.
LEMMA NextInv ==
  LedgerInv /\ TypeOK /\ [Next]_vars => LedgerInv' /\ [Contract!LNext]_entries
<1> SUFFICES ASSUME LedgerInv, TypeOK, [Next]_vars
             PROVE  LedgerInv' /\ [Contract!LNext]_entries
  OBVIOUS
<1>1. CASE UNCHANGED vars
  BY <1>1, Aside DEF vars, LedgerInv, WholePostings, Whole
<1>2. ASSUME NEW a \in Ids, NEW c \in Currencies, Save(a, c)
      PROVE  LedgerInv' /\ UNCHANGED entries
  BY <1>2, Aside DEF Save, LedgerInv, WholePostings, Whole
<1>3. ASSUME NEW p \in Deposits, Deposit(p)
      PROVE  LedgerInv' /\ Contract!LNext
  BY <1>3, Seeds DEF Contract!LNext
<1>4. ASSUME NEW w \in Writers, NEW p \in Postings, Begin(w, p)
      PROVE  LedgerInv' /\ UNCHANGED entries
  BY <1>4, Begins DEF Begin
<1>5. ASSUME NEW w \in Writers, Insert(w)
      PROVE  LedgerInv' /\ UNCHANGED entries
  BY <1>5, Inserts DEF Insert
<1>6. ASSUME NEW w \in Writers, InsertRefused(w)
      PROVE  LedgerInv' /\ UNCHANGED entries
  BY <1>6, GivesUp DEF InsertRefused
<1>7. ASSUME NEW w \in Writers, Commit(w)
      PROVE  LedgerInv' /\ Contract!LNext
  BY <1>7, Commits DEF Commit, Contract!LNext
<1>8. ASSUME NEW w \in Writers, Break(w)
      PROVE  LedgerInv' /\ [Contract!LNext]_entries
  <2>1. CASE UNCHANGED entries
    BY <1>8, <2>1, GivesUp DEF Break
  <2>2. CASE Inserted(w) /\ entries' = entries \cup writer[w].done
    BY <1>8, <2>2, Commits DEF Break, Contract!LNext
  <2> QED
    BY <1>8, <2>1, <2>2 DEF Break
<1>9. CASE GetAllEntries
  <2>1. WholePostings'
    BY <1>9 DEF GetAllEntries, LedgerInv, WholePostings, Whole
  <2> QED
    BY <1>9, <2>1, Aside DEF GetAllEntries
<1>10. CASE Report \/ AuditFails
  <2>1. WholePostings'
    BY <1>10 DEF Report, AuditFails, LedgerInv, WholePostings, Whole
  <2> QED
    BY <1>10, <2>1, Aside DEF Report, AuditFails
<1>11. ASSUME NEW a \in Ids, FindByID(a)
       PROVE  LedgerInv' /\ UNCHANGED entries
  BY <1>11, Aside DEF FindByID, LedgerInv, WholePostings, Whole
<1>12. CASE GetBalance \/ BalanceFails
  BY <1>12, Aside DEF GetBalance, BalanceFails, LedgerInv, WholePostings, Whole
<1> QED
  BY <1>1, <1>2, <1>3, <1>4, <1>5, <1>6, <1>7, <1>8, <1>9, <1>10, <1>11, <1>12
  DEF Next

LEMMA InitInv == Init => LedgerInv
<1> SUFFICES ASSUME Init PROVE LedgerInv
  OBVIOUS
<1>1. WholePostings
  BY DEF Init, WholePostings, Whole
<1>2. \A w \in Writers : WriterInv(w)
  BY Zenon DEF Init, WriterInv
<1> QED
  BY <1>1, <1>2 DEF Init, LedgerInv

-----------------------------------------------------------------------------
(* int64 arithmetic.                                                       *)

\* Division with a remainder.
LEMMA Quotient ==
  ASSUME NEW M \in Nat \ {0}, NEW x \in Int
  PROVE  \E q \in Int, r \in 0..(M - 1) : r = x % M /\ x = M * q + r
<1>1. x % M \in 0..(M - 1) /\ x \div M \in Int /\ x = M * (x \div M) + (x % M)
  OBVIOUS
<1> QED
  BY <1>1

\* Remainders that differ by a multiple of the modulus are equal.
LEMMA SameRemainder ==
  ASSUME NEW M \in Nat \ {0}, NEW s \in Int, NEW r \in 0..(M - 1), NEW q \in 0..(M - 1),
         M * s + r = q
  PROVE  q = r
<1>1. CASE s >= 1
  <2>1. M * s >= M
    BY <1>1
  <2> QED
    BY <2>1
<1>2. CASE s <= -1
  <2>1. M * s <= -M
    BY <1>2
  <2> QED
    BY <2>1
<1>3. CASE s = 0
  BY <1>3
<1> QED
  BY <1>1, <1>2, <1>3

\* A product of a sum.
LEMMA Distributes ==
  ASSUME NEW M \in Int, NEW s \in Int, NEW q \in Int, NEW t \in Int
  PROVE  M * (s + q - t) = M * s + M * q - M * t
OBVIOUS

\* An addend may be reduced before it is added.
LEMMA ReducedAddend ==
  ASSUME NEW M \in Nat \ {0}, NEW x \in Int, NEW y \in Int
  PROVE  ((x % M) + y) % M = (x + y) % M
<1>1. PICK q \in Int, p \in 0..(M - 1) : p = x % M /\ x = M * q + p
  BY Quotient
<1>2. PICK a \in Int : a = p + y
  OBVIOUS
<1>3. PICK b \in Int : b = x + y
  OBVIOUS
<1>4. PICK s \in Int, u \in 0..(M - 1) : u = a % M /\ a = M * s + u
  BY Quotient
<1>5. PICK t \in Int, v \in 0..(M - 1) : v = b % M /\ b = M * t + v
  BY Quotient
<1>6. PICK d \in Int : d = s + q - t
  OBVIOUS
<1>7. M * d = M * s + M * q - M * t
  BY <1>6, Distributes
<1>8. PICK i, j, k \in Int : i = M * s /\ j = M * q /\ k = M * t
  OBVIOUS
<1>9. M * d + u = v
  <2>1. x = j + p /\ a = i + u /\ b = k + v /\ M * d = i + j - k
    BY <1>1, <1>4, <1>5, <1>7, <1>8, Zenon
  <2>2. i + j - k + u = v
    BY <1>2, <1>3, <2>1
  <2> QED
    BY <2>1, <2>2, Zenon
<1>10. v = u
  BY <1>9, SameRemainder
<1> QED
  BY <1>1, <1>2, <1>3, <1>4, <1>5, <1>10

\* The wrap-around of a sum does not depend on that of its parts.
LEMMA WrapAdd ==
  ASSUME NEW x \in Int, NEW y \in Int
  PROVE  Wrap(x) \in Int /\ Wrap(y + Wrap(x)) = Wrap(y + x)
<1>1. PICK m \in Int : m = MinInt
  BY IntAssumption DEF MinInt
<1>2. PICK M \in Nat \ {0} : M = MaxInt - MinInt + 1
  BY IntAssumption DEF MinInt
<1>3. \A n : Wrap(n) = ((n - m) % M) + m
  BY <1>1, <1>2, Zenon DEF Wrap
<1>4. PICK r \in 0..(M - 1) : r = (x - m) % M
  <2>1. x - m \in Int
    OBVIOUS
  <2> QED
    BY <2>1, Quotient
<1>5. Wrap(x) = r + m
  BY <1>3, <1>4
<1>6. (r + y) % M = ((x - m) + y) % M
  <2>1. x - m \in Int
    OBVIOUS
  <2> QED
    BY <1>4, <2>1, ReducedAddend
<1>7. (y + (r + m)) - m = r + y /\ (y + x) - m = (x - m) + y
  OBVIOUS
<1>8. Wrap(y + (r + m)) = ((r + y) % M) + m /\ Wrap(y + x) = (((x - m) + y) % M) + m
  BY <1>3, <1>7, Zenon
<1>9. r + m \in Int
  OBVIOUS
<1> QED
  BY <1>5, <1>6, <1>8, <1>9, Zenon

\* Zero is within the range.
LEMMA WrapZero == Wrap(0) = 0
<1>1. 0 - MinInt \in 0..(MaxInt - MinInt)
  BY IntAssumption DEF MinInt
<1>2. PICK n, M \in Nat : n = 0 - MinInt /\ M = MaxInt - MinInt + 1 /\ n < M
  BY <1>1, IntAssumption DEF MinInt
<1>3. n % M = n
  BY <1>2
<1>4. n + MinInt = 0
  BY <1>2, IntAssumption DEF MinInt
<1> QED
  BY <1>2, <1>3, <1>4 DEF Wrap

\* g[s] is the int64 total of f over s, for every subset s of S.
WrapAdds(g, f, S) ==
  g = [s \in SUBSET S |-> IF s = {} THEN 0 ELSE Wrap(f[Chosen(s)] + g[s \ {Chosen(s)}])]

\* What Total says, with its recursive function named.
LEMMA TotalIs ==
  ASSUME NEW f, NEW S
  PROVE  FoldFunctionOnSet(LAMBDA x, y : Wrap(x + y), 0, f, S) = (CHOOSE g : WrapAdds(g, f, S))[S]
BY DEF FoldFunctionOnSet, MapThenFoldSet, WrapAdds, Chosen

\* Whatever the order in which the reconciler adds, and wherever a total
\* overflows on the way, the int64 total is the sum, wrapped around once.
LEMMA TotalWraps ==
  ASSUME NEW S, IsFiniteSet(S), NEW f, \A x \in S : f[x] \in Int
  PROVE  FoldFunctionOnSet(LAMBDA x, y : Wrap(x + y), 0, f, S) = Wrap(SumFunctionOnSet(f, S))
<1>1. ASSUME NEW s \in SUBSET S
      PROVE  /\ IsFiniteSet(s) /\ SumFunctionOnSet(f, s) \in Int
             /\ s = {} => Wrap(SumFunctionOnSet(f, s)) = 0
             /\ s # {} => /\ Chosen(s) \in s /\ f[Chosen(s)] \in Int
                          /\ Wrap(SumFunctionOnSet(f, s))
                               = Wrap(f[Chosen(s)] + Wrap(SumFunctionOnSet(f, s \ {Chosen(s)})))
  <2>1. IsFiniteSet(s) /\ \A x \in s : f[x] \in Int
    BY FS_Subset
  <2>2. SumFunctionOnSet(f, s) \in Int
    BY <2>1, SumType
  <2>3. s = {} => Wrap(SumFunctionOnSet(f, s)) = 0
    BY SumEmpty, WrapZero
  <2>4. ASSUME s # {}
        PROVE  /\ Chosen(s) \in s /\ f[Chosen(s)] \in Int
               /\ Wrap(SumFunctionOnSet(f, s))
                    = Wrap(f[Chosen(s)] + Wrap(SumFunctionOnSet(f, s \ {Chosen(s)})))
    <3>1. PICK e \in s : e = Chosen(s)
      BY <2>4, ChosenIn
    <3>2. PICK r : r = s \ {e}
      OBVIOUS
    <3>3. SumFunctionOnSet(f, s) = f[e] + SumFunctionOnSet(f, r)
      BY <2>1, <3>2, SumTake
    <3>4. IsFiniteSet(r) /\ \A x \in r : f[x] \in Int
      BY <2>1, <3>2, FS_Subset
    <3>5. SumFunctionOnSet(f, r) \in Int /\ f[e] \in Int
      BY <2>1, <3>4, SumType
    <3>6. Wrap(f[e] + Wrap(SumFunctionOnSet(f, r))) = Wrap(f[e] + SumFunctionOnSet(f, r))
      BY <3>5, WrapAdd
    <3> QED
      BY <3>1, <3>2, <3>3, <3>5, <3>6, Zenon
  <2> QED
    BY <2>1, <2>2, <2>3, <2>4
<1> DEFINE w == [s \in SUBSET S |-> Wrap(SumFunctionOnSet(f, s))]
<1>2. WrapAdds(w, f, S)
  <2>1. ASSUME NEW s \in SUBSET S
        PROVE  w[s] = IF s = {} THEN 0 ELSE Wrap(f[Chosen(s)] + w[s \ {Chosen(s)}])
    BY <1>1
  <2>2. w = [s \in SUBSET S |-> w[s]]
    OBVIOUS
  <2> HIDE DEF w
  <2> QED
    BY <2>1, <2>2 DEF WrapAdds
<1>3. w[S] = Wrap(SumFunctionOnSet(f, S))
  OBVIOUS
<1> HIDE DEF w
<1>4. PICK h : h = (CHOOSE g : WrapAdds(g, f, S))
  OBVIOUS
<1>5. WrapAdds(h, f, S)
  BY <1>2, <1>4, Zenon
<1> DEFINE G == {s \in SUBSET S : h[s] = w[s]}
<1>6. ASSUME NEW s \in SUBSET S, \A t \in SUBSET s : t # s => t \in G
      PROVE  s \in G
  <2>1. /\ h[s] = IF s = {} THEN 0 ELSE Wrap(f[Chosen(s)] + h[s \ {Chosen(s)}])
        /\ w[s] = IF s = {} THEN 0 ELSE Wrap(f[Chosen(s)] + w[s \ {Chosen(s)}])
    BY <1>2, <1>5 DEF WrapAdds
  <2>2. s # {} => s \ {Chosen(s)} \in SUBSET s /\ s \ {Chosen(s)} # s
    BY ChosenIn
  <2>3. s # {} => h[s \ {Chosen(s)}] = w[s \ {Chosen(s)}]
    BY <1>6, <2>2
  <2> QED
    BY <2>1, <2>3
<1> HIDE DEF G
<1>7. SUBSET S \subseteq G
  <2>1. G \in SUBSET (SUBSET S)
    BY DEF G
  <2> QED
    BY <1>6, <2>1, EverySubset
<1>8. h[S] = w[S]
  BY <1>7 DEF G
<1> QED
  BY <1>3, <1>4, <1>8, TotalIs, Zenon

-----------------------------------------------------------------------------
(* What the reconciler and a balance request add up.                       *)

\* The signed amount of an entry is an integer, and that of the entries of a
\* posting adds up to zero.
LEMMA SignedAmounts ==
  /\ \A e \in Entry : /\ Signed[e] \in Int /\ Amounts[e] \in Int
                      /\ e.type = "DEBIT" => Signed[e] = -Amounts[e]
                      /\ e.type # "DEBIT" => Signed[e] = Amounts[e]
  /\ \A d, c \in Entry : Balances(d, c) => Signed[d] + Signed[c] = 0
<1>1. \A e \in Entry : e.amount \in Nat /\ e.type \in {"DEBIT", "CREDIT"}
  BY DEF Entry
<1>2. \A e \in Entry : Signed[e] = (IF e.type = "DEBIT" THEN -e.amount ELSE e.amount)
                       /\ Amounts[e] = e.amount
  BY Zenon DEF Signed, Amounts, SignedAmount
<1>3. \A d, c \in Entry : Balances(d, c) => d.amount = c.amount /\ d.type # c.type
  BY DEF Balances
<1> QED
  BY <1>1, <1>2, <1>3

\* A step of the ledger's contract: what is in the table keeps its sum.
LEMMA Conserves ==
  ASSUME TypeOK, TypeOK', Conserved(entries), [Contract!LNext]_entries
  PROVE  Conserved(entries')
<1> DEFINE In(rows, k) == {e \in rows : e.currency = k}
           SeedsIn(rows, k) == {e \in rows : e.currency = k /\ e.description = "seed"}
<1>0. entries \subseteq Entry /\ entries' \subseteq Entry /\ IsFiniteSet(entries)
  BY DEF TypeOK, Conserved
<1>1. \A k \in Currencies : SumFunctionOnSet(Signed, In(entries, k)) = SumFunctionOnSet(Amounts, SeedsIn(entries, k))
  BY DEF Conserved, Seeded
<1>2. \A k : /\ IsFiniteSet(In(entries, k)) /\ IsFiniteSet(SeedsIn(entries, k))
             /\ In(entries, k) \subseteq Entry /\ SeedsIn(entries, k) \subseteq Entry
  <2>1. \A k : In(entries, k) \subseteq entries /\ SeedsIn(entries, k) \subseteq entries
    OBVIOUS
  <2> HIDE DEF In, SeedsIn
  <2> QED
    BY <1>0, <2>1, FS_Subset
<1>3. \A k : SumFunctionOnSet(Signed, In(entries, k)) \in Int
  <2>1. \A k : \A e \in In(entries, k) : Signed[e] \in Int
    BY <1>2, SignedAmounts
  <2> HIDE DEF In
  <2> QED
    BY <1>2, <2>1, SumType
<1>4. SUFFICES /\ IsFiniteSet(entries')
               /\ \A k \in Currencies : SumFunctionOnSet(Signed, In(entries', k))
                                        = SumFunctionOnSet(Amounts, SeedsIn(entries', k))
  BY Zenon DEF Conserved, Seeded
<1>5. CASE UNCHANGED entries
  BY <1>0, <1>1, <1>5
<1>6. ASSUME NEW d \in entries', NEW c \in entries', Contract!PostWhole(d, c)
      PROVE  /\ IsFiniteSet(entries')
             /\ \A k \in Currencies : SumFunctionOnSet(Signed, In(entries', k))
                                      = SumFunctionOnSet(Amounts, SeedsIn(entries', k))
  <2>1. /\ d \in Entry /\ c \in Entry /\ d \notin entries /\ c \notin entries /\ d # c
        /\ d.currency = c.currency /\ d.description # "seed" /\ c.description # "seed"
        /\ Balances(d, c) /\ entries' = (entries \cup {d}) \cup {c}
    BY <1>0, <1>6 DEF Contract!PostWhole, Contract!Unused, Contract!Balances, Balances
  <2>2. IsFiniteSet(entries')
    BY <1>0, <2>1, FS_AddElement
  <2>3. ASSUME NEW k \in Currencies
        PROVE  SumFunctionOnSet(Signed, In(entries', k)) = SumFunctionOnSet(Amounts, SeedsIn(entries', k))
    <3>1. SeedsIn(entries', k) = SeedsIn(entries, k)
      BY <2>1
    <3>2. CASE d.currency # k
      <4>1. In(entries', k) = In(entries, k)
        BY <2>1, <3>2
      <4> QED
        BY <1>1, <3>1, <4>1, Zenon
    <3>3. CASE d.currency = k
      <4>1. PICK S : S = In(entries, k)
        OBVIOUS
      <4>2. PICK T : T = S \cup {d}
        OBVIOUS
      <4>3. In(entries', k) = T \cup {c} /\ d \notin S /\ c \notin T
        BY <2>1, <3>3, <4>1, <4>2
      <4>4. IsFiniteSet(S) /\ IsFiniteSet(T) /\ SumFunctionOnSet(Signed, S) \in Int
        BY <1>2, <1>3, <4>1, <4>2, FS_AddElement
      <4>5. \A x \in T \cup {c} : Signed[x] \in Int
        BY <1>2, <2>1, <4>1, <4>2, SignedAmounts
      <4>6. SumFunctionOnSet(Signed, T) = Signed[d] + SumFunctionOnSet(Signed, S)
        BY <4>2, <4>3, <4>4, <4>5, SumAdd
      <4>7. SumFunctionOnSet(Signed, T \cup {c}) = Signed[c] + SumFunctionOnSet(Signed, T)
        BY <4>3, <4>4, <4>5, SumAdd
      <4>8. Signed[d] \in Int /\ Signed[c] \in Int /\ Signed[d] + Signed[c] = 0
        BY <2>1, SignedAmounts
      <4>9. SumFunctionOnSet(Signed, T \cup {c}) = SumFunctionOnSet(Signed, S)
        BY <4>4, <4>6, <4>7, <4>8
      <4> QED
        BY <1>1, <3>1, <4>1, <4>3, <4>9, Zenon
    <3> QED
      BY <3>2, <3>3
  <2> QED
    BY <2>2, <2>3
<1>7. ASSUME NEW c \in entries', Contract!DepositWhole(c)
      PROVE  /\ IsFiniteSet(entries')
             /\ \A k \in Currencies : SumFunctionOnSet(Signed, In(entries', k))
                                      = SumFunctionOnSet(Amounts, SeedsIn(entries', k))
  <2>1. /\ c \in Entry /\ c \notin entries /\ c.type # "DEBIT" /\ c.description = "seed"
        /\ entries' = entries \cup {c}
    BY <1>0, <1>7 DEF Contract!DepositWhole, Contract!Unused
  <2>2. IsFiniteSet(entries')
    BY <1>0, <2>1, FS_AddElement
  <2>3. ASSUME NEW k \in Currencies
        PROVE  SumFunctionOnSet(Signed, In(entries', k)) = SumFunctionOnSet(Amounts, SeedsIn(entries', k))
    <3>1. CASE c.currency # k
      <4>1. In(entries', k) = In(entries, k) /\ SeedsIn(entries', k) = SeedsIn(entries, k)
        BY <2>1, <3>1
      <4> QED
        BY <1>1, <4>1, Zenon
    <3>2. CASE c.currency = k
      <4>1. PICK S : S = In(entries, k)
        OBVIOUS
      <4>2. PICK T : T = SeedsIn(entries, k)
        OBVIOUS
      <4>3. /\ In(entries', k) = S \cup {c} /\ SeedsIn(entries', k) = T \cup {c}
            /\ c \notin S /\ c \notin T
        BY <2>1, <3>2, <4>1, <4>2
      <4>4. IsFiniteSet(S) /\ IsFiniteSet(T)
        BY <1>2, <4>1, <4>2
      <4>5. \A x \in S \cup {c} : Signed[x] \in Int
        BY <1>2, <2>1, <4>1, SignedAmounts
      <4>6. \A x \in T \cup {c} : Amounts[x] \in Int
        BY <1>2, <2>1, <4>2, SignedAmounts
      <4>7. SumFunctionOnSet(Signed, S \cup {c}) = Signed[c] + SumFunctionOnSet(Signed, S)
        BY <4>3, <4>4, <4>5, SumAdd
      <4>8. SumFunctionOnSet(Amounts, T \cup {c}) = Amounts[c] + SumFunctionOnSet(Amounts, T)
        BY <4>3, <4>4, <4>6, SumAdd
      <4>9. Signed[c] = Amounts[c]
        BY <2>1, SignedAmounts
      <4>10. SumFunctionOnSet(Signed, S) = SumFunctionOnSet(Amounts, T)
        BY <1>1, <4>1, <4>2, Zenon
      <4> QED
        BY <4>3, <4>7, <4>8, <4>9, <4>10, Zenon
    <3> QED
      BY <3>1, <3>2
  <2> QED
    BY <2>2, <2>3
<1> QED
  BY <1>5, <1>6, <1>7 DEF Contract!LNext

\* The total that Report stores is what was seeded among the rows, wrapped
\* around.
LEMMA TotalSeeded ==
  ASSUME NEW rows \in SUBSET Entry, Conserved(rows), NEW c \in Currencies
  PROVE  Total(rows, c) = Wrap(Seeded(rows, c))
<1> DEFINE S == {e \in rows : e.currency = c}
<1>1. S \in SUBSET rows /\ IsFiniteSet(rows) /\ S \subseteq Entry
  BY DEF Conserved
<1>2. SumFunctionOnSet(Signed, S) = Seeded(rows, c)
  BY DEF Conserved
<1>3. Total(rows, c) = FoldFunctionOnSet(LAMBDA x, y : Wrap(x + y), 0, Signed, S)
  BY DEF Total
<1> HIDE DEF S
<1>4. IsFiniteSet(S) /\ \A e \in S : Signed[e] \in Int
  BY <1>1, FS_Subset, SignedAmounts
<1>5. FoldFunctionOnSet(LAMBDA x, y : Wrap(x + y), 0, Signed, S) = Wrap(SumFunctionOnSet(Signed, S))
  BY <1>4, TotalWraps
<1> QED
  BY <1>2, <1>3, <1>5, Zenon

\* No row is seeded in the empty table.
LEMMA InitSums == Init => SumsInv
<1> SUFFICES ASSUME Init PROVE SumsInv
  OBVIOUS
<1>1. entries = {} /\ audit.pc = "idle"
  BY DEF Init
<1>2. \A c : {e \in entries : e.currency = c} = {}
             /\ {e \in entries : e.currency = c /\ e.description = "seed"} = {}
  BY <1>1
<1>3. Conserved(entries)
  BY <1>1, <1>2, SumEmpty, FS_EmptySet, Zenon DEF Conserved, Seeded
<1> QED
  BY <1>1, <1>3 DEF SumsInv, OnlySeedsDrift

\* Every step keeps the sums.
LEMMA NextSums == Inv /\ [Next]_vars => SumsInv'
<1> SUFFICES ASSUME Inv, [Next]_vars PROVE SumsInv'
  OBVIOUS
<1>1. TypeOK /\ LedgerInv /\ SumsInv
  BY DEF Inv
<1>2. TypeOK' /\ [Contract!LNext]_entries
  BY <1>1, NextTypes, NextInv
<1>3. Conserved(entries) /\ Conserved(entries')
  BY <1>1, <1>2, Conserves DEF SumsInv
<1>4. CASE UNCHANGED audit
  BY <1>1, <1>3, <1>4 DEF SumsInv, OnlySeedsDrift
<1>5. CASE GetAllEntries
  BY <1>3, <1>5 DEF GetAllEntries, SumsInv, OnlySeedsDrift
<1>6. CASE AuditFails
  BY <1>3, <1>6 DEF AuditFails, SumsInv, OnlySeedsDrift
<1>7. CASE Report
  <2>1. audit.pc = "sum" /\ audit.rows \in SUBSET Entry /\ Conserved(audit.rows)
    BY <1>1, <1>7 DEF Report, TypeOK, SumsInv
  <2>2. \A c \in Currencies : Total(audit.rows, c) = Wrap(Seeded(audit.rows, c))
    BY <2>1, TotalSeeded
  <2>3. audit'.rows = audit.rows /\ audit'.totals = [c \in Currencies |-> Total(audit.rows, c)]
    BY <1>7 DEF Report
  <2>4. \A c \in Currencies : audit'.totals[c] = Wrap(Seeded(audit'.rows, c))
    BY <2>2, <2>3, Zenon
  <2> QED
    BY <1>3, <2>1, <2>3, <2>4, Zenon DEF SumsInv, OnlySeedsDrift
<1> QED
  BY <1>4, <1>5, <1>6, <1>7
  DEF Next, Save, Deposit, Begin, Insert, InsertRefused, Commit, Break, FindByID,
      GetBalance, BalanceFails, vars

-----------------------------------------------------------------------------
(* Theorems.                                                               *)

\* PostEntries holds one whole posting at a time under an id of its own, and
\* what has been posted adds up to zero.
THEOREM LedgerInvariance == Spec => []Inv
<1>1. Inv /\ [Next]_vars => Inv'
  BY NextTypes, NextInv, NextSums DEF Inv
<1> QED
  BY <1>1, InitTypes, InitInv, InitSums, PTL DEF Spec, Inv

\* Nobody reads half a posting: PostEntries is atomic for GetBalance,
\* GetAllEntries and the reconciler, wherever it fails.
THEOREM NoHalfPosting == Spec => []WholePostings
<1>1. Inv => WholePostings
  BY DEF Inv, LedgerInv
<1> QED
  BY <1>1, LedgerInvariance, PTL

\* The tables implement the append-only ledger of whole postings.
THEOREM LedgerKept == Spec => KeepsLedger
<1>1. Init => Contract!LInit
  BY DEF Init, Contract!LInit
<1> QED
  BY <1>1, InitTypes, NextTypes, InitInv, NextInv, PTL
  DEF Spec, KeepsLedger, Contract!LSpec

\* The account's currency, as GetAccountBalance has read it with the account.
RightCurrency ==
  client.pc = "balance" => accounts[client.id] = client.currency

\* AccountRepo.Save does not change it before GetBalance uses it.
LEMMA CurrencyIsCurrent == Spec => []RightCurrency
<1>1. Init => RightCurrency
  BY DEF Init, RightCurrency
<1>2. TypeOK /\ RightCurrency /\ [Next]_vars => RightCurrency'
  <2> SUFFICES ASSUME TypeOK, RightCurrency, [Next]_vars PROVE RightCurrency'
    OBVIOUS
  <2>1. ASSUME NEW a \in Ids, NEW c \in Currencies, Save(a, c)
        PROVE  RightCurrency'
    BY <2>1, LedgerAssumption DEF Save, RightCurrency, TypeOK
  <2>2. ASSUME NEW a \in Ids, FindByID(a) PROVE RightCurrency'
    BY <2>2 DEF FindByID, RightCurrency
  <2>3. CASE GetBalance
    BY <2>3 DEF GetBalance, RightCurrency
  <2>4. CASE BalanceFails
    BY <2>4 DEF BalanceFails, RightCurrency
  <2>5. CASE UNCHANGED <<accounts, client>>
    BY <2>5 DEF RightCurrency
  <2> QED
    BY <2>1, <2>2, <2>3, <2>4, <2>5
    DEF Next, Deposit, Begin, Insert, InsertRefused, Commit, Break,
        GetAllEntries, Report, AuditFails, vars
<1> QED
  BY <1>1, <1>2, LedgerTypes, PTL DEF Spec

\* The reconciler's drift is exactly what was seeded without a counter-entry,
\* whenever it loads the table and however often its int64 totals overflow:
\* nothing that PostEntries writes ever shows as drift.
THEOREM DriftIsSeeds == Spec => []OnlySeedsDrift
<1>1. Inv => OnlySeedsDrift
  BY DEF Inv, SumsInv
<1> QED
  BY <1>1, LedgerInvariance, PTL

\* The sum that GetBalance scans is what the account has received less what
\* it has given.
LEMMA SumIsNet ==
  ASSUME TypeOK, IsFiniteSet(entries), NEW a, NEW k
  PROVE  Sum(a, k) = Received(a, k, "CREDIT") - Received(a, k, "DEBIT")
<1> DEFINE S == {e \in entries : e.account = a /\ e.currency = k}
           C == {e \in entries : e.account = a /\ e.currency = k /\ e.type = "CREDIT"}
           D == {e \in entries : e.account = a /\ e.currency = k /\ e.type = "DEBIT"}
<1>1. \A e \in entries : e \in Entry /\ e.type \in {"DEBIT", "CREDIT"}
  BY DEF TypeOK, Entry
<1>2. S \in SUBSET entries /\ C \in SUBSET S /\ D = S \ C
  BY <1>1
<1>3. (\A e \in C : e.type # "DEBIT") /\ (\A e \in D : e.type = "DEBIT")
  OBVIOUS
<1>4. /\ Sum(a, k) = SumFunctionOnSet(Signed, S)
      /\ Received(a, k, "CREDIT") = SumFunctionOnSet(Amounts, C)
      /\ Received(a, k, "DEBIT") = SumFunctionOnSet(Amounts, D)
  BY Zenon DEF Sum, Received
<1> HIDE DEF S, C, D
<1>5. IsFiniteSet(S) /\ \A e \in S : e \in Entry /\ Signed[e] \in Int
  BY <1>1, <1>2, FS_Subset, SignedAmounts
<1>6. IsFiniteSet(C) /\ IsFiniteSet(D)
  BY <1>2, <1>5, FS_Subset
<1>7. SumFunctionOnSet(Signed, S) = SumFunctionOnSet(Signed, C) + SumFunctionOnSet(Signed, S \ C)
  BY <1>2, <1>5, SumSplit
<1>8. SumFunctionOnSet(Signed, C) = SumFunctionOnSet(Amounts, C)
  <2>1. \A e \in C : Amounts[e] \in Int /\ Signed[e] = Amounts[e]
    BY <1>2, <1>3, <1>5, SignedAmounts
  <2> QED
    BY <1>6, <2>1, SumSame
<1>9. \A e \in D : Amounts[e] \in Int /\ Signed[e] = -Amounts[e]
  BY <1>2, <1>3, <1>5, SignedAmounts
<1>10. SumFunctionOnSet(Signed, D) = -SumFunctionOnSet(Amounts, D)
  BY <1>6, <1>9, SumNegate
<1>11. \A e \in C : Amounts[e] \in Int
  BY <1>2, <1>5, SignedAmounts
<1>12. SumFunctionOnSet(Amounts, C) \in Int /\ SumFunctionOnSet(Amounts, D) \in Int
  BY <1>6, <1>9, <1>11, SumType
<1>13. SumFunctionOnSet(Signed, S) = SumFunctionOnSet(Amounts, C) - SumFunctionOnSet(Amounts, D)
  BY <1>2, <1>7, <1>8, <1>10, <1>12
<1> QED
  BY <1>4, <1>13, Zenon

\* GET /accounts/{id}/balance answers 200 only with the account's credits
\* less its debits in the currency of the account: an error stands for every
\* sum that int64 cannot hold.
THEOREM BalanceAnswered == Spec => BalanceIsTrue
<1> DEFINE A == client' # client /\ client'.pc = "200" =>
                  client'.balance = Received(client'.id, accounts[client'.id], "CREDIT")
                                    - Received(client'.id, accounts[client'.id], "DEBIT")
<1>1. Inv /\ RightCurrency /\ [Next]_vars => [A]_vars
  <2> SUFFICES ASSUME Inv, RightCurrency, Next, client' # client, client'.pc = "200"
               PROVE  client'.balance = Received(client'.id, accounts[client'.id], "CREDIT")
                                        - Received(client'.id, accounts[client'.id], "DEBIT")
    BY DEF vars
  <2>1. ~(\E a \in Ids : FindByID(a)) /\ ~BalanceFails
    BY DEF FindByID, BalanceFails
  <2>2. GetBalance
    BY <2>1 DEF Next, Save, Deposit, Begin, Insert, InsertRefused, Commit, Break,
                GetAllEntries, Report, AuditFails
  <2>3. PICK s : s = Sum(client.id, client.currency)
    OBVIOUS
  <2>4. /\ client.pc = "balance" /\ client'.id = client.id /\ client'.balance = s
        /\ accounts[client.id] = client.currency
    BY <2>2, <2>3 DEF GetBalance, RightCurrency
  <2>5. TypeOK /\ IsFiniteSet(entries)
    BY DEF Inv, SumsInv, Conserved
  <2>6. s = Received(client.id, client.currency, "CREDIT") - Received(client.id, client.currency, "DEBIT")
    BY <2>3, <2>5, SumIsNet
  <2> QED
    BY <2>4, <2>6, Zenon
<1> QED
  BY <1>1, LedgerInvariance, CurrencyIsCurrent, PTL DEF Spec, BalanceIsTrue
=============================================================================
