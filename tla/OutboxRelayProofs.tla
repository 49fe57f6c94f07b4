-------------------------- MODULE OutboxRelayProofs -------------------------
(***************************************************************************)
(* No event is lost between the outbox and the stream and few are          *)
(* published twice, for any number of relays, rows and faults.             *)
(***************************************************************************)
EXTENDS OutboxRelay, FiniteSetTheorems, TLAPS

\* What Append keeps of a sequence.
LEMMA Appended ==
  ASSUME NEW S, NEW s \in Seq(S), NEW e \in S
  PROVE  /\ Append(s, e) \in Seq(S)
         /\ \A j \in DOMAIN s : j \in DOMAIN Append(s, e) /\ Append(s, e)[j] = s[j]
OBVIOUS

\* The initial state is typed and satisfies the relay invariant.
LEMMA TypeInit == Init => TypeOK /\ RelayInv
<1> SUFFICES ASSUME Init PROVE TypeOK /\ RelayInv
  OBVIOUS
<1>1. outbox \in Seq(Row) /\ stream \in Seq(DOMAIN outbox) /\ DOMAIN outbox = {}
  BY DEF Init
<1>2. Idle \in RelayState
  BY DEF Idle, RelayState
<1>3. streamUp \in BOOLEAN /\ relay \in [Relays -> RelayState] /\ faults \in 0..MaxFaults
  BY <1>2, RelayAssumption DEF Init
<1>4. RelayInv
  BY <1>1 DEF Init, RelayInv, PublishedIsInStream, Idle
<1> QED
  BY <1>1, <1>3, <1>4 DEF TypeOK

\* What the next stage of a relay may be, for every step that leaves the
\* table and the stream to grow: the state it gives the relay is typed, its
\* batch lies in the table, and it does not go to "mark" by it.
Unmarked(k) == k \in RelayState /\ k.batch \subseteq DOMAIN outbox /\ k.pc # "mark"

\* The state that Continue gives a relay.
LEMMA ContinueUnmarked ==
  ASSUME TypeOK, NEW r \in Relays, NEW batch \in SUBSET DOMAIN outbox, Continue(r, batch)
  PROVE  \E k : Unmarked(k) /\ relay' = [relay EXCEPT ![r] = k]
<1>1. DOMAIN outbox \subseteq Nat
  BY DEF TypeOK
<1>2. Unmarked(Idle)
  BY DEF Idle, Unmarked, RelayState
<1>3. Unmarked([pc |-> "publish", batch |-> batch, row |-> 0])
  BY <1>1 DEF Unmarked, RelayState
<1> QED
  BY <1>2, <1>3 DEF Continue

\* A step that gives one relay such a state, and at most appends a row of the
\* table to the stream or marks a row that is in it, preserves the invariant.
LEMMA RelayMoves ==
  ASSUME TypeOK, RelayInv, NEW r \in Relays, NEW k,
         Unmarked(k) \/ (/\ k \in RelayState /\ k.batch \subseteq DOMAIN outbox
                         /\ k.row \in DOMAIN outbox /\ stream' = Append(stream, k.row)),
         relay' = [relay EXCEPT ![r] = k],
         stream' = stream \/ (\E i \in DOMAIN outbox : stream' = Append(stream, i)),
         outbox' = outbox
           \/ (\E i \in DOMAIN outbox :
                 InStream(i) /\ outbox' = [outbox EXCEPT ![i].status = "PUBLISHED"]),
         UNCHANGED streamUp, faults' \in 0..MaxFaults
  PROVE  TypeOK' /\ RelayInv'
<1>1. outbox' \in Seq(Row) /\ DOMAIN outbox' = DOMAIN outbox
  <2>1. CASE outbox' = outbox
    BY <2>1 DEF TypeOK
  <2>2. CASE \E i \in DOMAIN outbox : outbox' = [outbox EXCEPT ![i].status = "PUBLISHED"]
    <3> PICK i \in DOMAIN outbox : outbox' = [outbox EXCEPT ![i].status = "PUBLISHED"]
      BY <2>2
    <3>1. outbox[i] \in Row
      BY DEF TypeOK
    <3>2. [outbox[i] EXCEPT !.status = "PUBLISHED"] \in Row
      BY <3>1 DEF Row
    <3> QED
      BY <3>2 DEF TypeOK
  <2> QED
    BY <2>1, <2>2
<1>a. /\ stream' \in Seq(DOMAIN outbox)
      /\ \A j \in DOMAIN stream : j \in DOMAIN stream' /\ stream'[j] = stream[j]
  <2>1. stream \in Seq(DOMAIN outbox)
    BY DEF TypeOK
  <2>2. CASE stream' = stream
    BY <2>1, <2>2
  <2>3. CASE \E i \in DOMAIN outbox : stream' = Append(stream, i)
    <3> PICK i \in DOMAIN outbox : stream' = Append(stream, i)
      BY <2>3
    <3> PICK S : S = DOMAIN outbox
      OBVIOUS
    <3>1. /\ Append(stream, i) \in Seq(S)
          /\ \A j \in DOMAIN stream :
               j \in DOMAIN Append(stream, i) /\ Append(stream, i)[j] = stream[j]
      BY <2>1, Appended
    <3> QED
      BY <3>1, Zenon
  <2> QED
    BY <2>2, <2>3
<1>2. stream' \in Seq(DOMAIN outbox)
  BY <1>a
<1>3. \A i : InStream(i) => InStream(i)'
  BY <1>a, Zenon DEF InStream
<1>4. relay' \in [Relays -> RelayState]
  BY DEF TypeOK, Unmarked
<1>5. TypeOK'
  BY <1>1, <1>2, <1>4 DEF TypeOK
<1>6. PublishedIsInStream'
  <2> SUFFICES ASSUME NEW i \in DOMAIN outbox, outbox'[i].status = "PUBLISHED"
               PROVE  InStream(i)'
    BY <1>1 DEF PublishedIsInStream
  <2>1. CASE outbox[i].status = "PUBLISHED"
    BY <2>1, <1>3 DEF RelayInv, PublishedIsInStream
  <2>2. CASE outbox[i].status # "PUBLISHED"
    BY <2>2, <1>3 DEF TypeOK
  <2> QED
    BY <2>1, <2>2
<1>7. ASSUME NEW q \in Relays
      PROVE  /\ relay'[q].batch \subseteq DOMAIN outbox'
             /\ relay'[q].pc = "mark" => /\ relay'[q].row \in DOMAIN outbox'
                                         /\ InStream(relay[q].row)'
  <2>1. CASE q # r
    <3>1. relay'[q] = relay[q]
      BY <2>1 DEF TypeOK
    <3>2. /\ relay[q].batch \subseteq DOMAIN outbox
          /\ relay[q].pc = "mark" => relay[q].row \in DOMAIN outbox /\ InStream(relay[q].row)
      BY Zenon DEF RelayInv
    <3>3. relay[q].pc = "mark" => (\E j \in DOMAIN stream' : stream'[j] = relay'[q].row)
      BY <3>1, <3>2, <1>a, Zenon DEF InStream
    <3>4. InStream(relay[q].row)' <=> \E j \in DOMAIN stream' : stream'[j] = relay'[q].row
      BY Zenon DEF InStream
    <3> QED
      BY <3>1, <3>2, <3>3, <3>4, <1>1, Zenon
  <2>2. CASE q = r
    <3>1. relay'[q] = k
      BY <2>2 DEF TypeOK
    <3>2. CASE Unmarked(k)
      BY <3>1, <3>2, <1>1 DEF Unmarked
    <3>3. CASE /\ k \in RelayState /\ k.batch \subseteq DOMAIN outbox
               /\ k.row \in DOMAIN outbox /\ stream' = Append(stream, k.row)
      <4>1. \E j \in DOMAIN stream' : stream'[j] = k.row
        BY <3>3 DEF TypeOK
      <4> QED
        BY <4>1, <3>1, <3>3, <1>1 DEF InStream
    <3> QED
      BY <3>2, <3>3
  <2> QED
    BY <2>1, <2>2
<1> QED
  BY <1>5, <1>6, <1>7 DEF RelayInv

\* Every step preserves the type invariant and the relay invariant.
LEMMA RelayStep == TypeOK /\ RelayInv /\ [Next]_vars => TypeOK' /\ RelayInv'
<1> SUFFICES ASSUME TypeOK, RelayInv, [Next]_vars PROVE TypeOK' /\ RelayInv'
  OBVIOUS
<1>d. DOMAIN outbox \subseteq Nat /\ faults \in 0..MaxFaults
  BY DEF TypeOK
<1>1. ASSUME NEW s \in Subjects, Write(s) PROVE TypeOK' /\ RelayInv'
  <2> DEFINE row == [subject |-> s, status |-> "PENDING"]
  <2>1. row \in Row /\ row.status # "PUBLISHED"
    BY DEF Row
  <2>2. outbox' = Append(outbox, row)
    BY <1>1 DEF Write
  <2> HIDE DEF row
  <2>3. /\ outbox' \in Seq(Row) /\ DOMAIN outbox \subseteq DOMAIN outbox'
        /\ \A i \in DOMAIN outbox' :
             (i \in DOMAIN outbox /\ outbox'[i] = outbox[i]) \/ outbox'[i] = row
    BY <2>1, <2>2 DEF TypeOK
  <2>4. stream' \in Seq(DOMAIN outbox')
    BY <1>1, <2>3 DEF Write, TypeOK
  <2>5. TypeOK'
    BY <1>1, <2>3, <2>4 DEF Write, TypeOK
  <2>6. PublishedIsInStream'
    BY <1>1, <2>1, <2>3 DEF Write, RelayInv, PublishedIsInStream, InStream
  <2> QED
    BY <1>1, <2>3, <2>5, <2>6 DEF Write, RelayInv, InStream
<1>2. ASSUME EnsureStream PROVE TypeOK' /\ RelayInv'
  BY <1>2 DEF EnsureStream, TypeOK, RelayInv, PublishedIsInStream, InStream
<1>3. ASSUME NEW r \in Relays, Select(r) PROVE TypeOK' /\ RelayInv'
  <2> PICK k : k = [pc |-> "reading", batch |-> Batch(Pending(r)), row |-> 0]
    OBVIOUS
  <2>1. Unmarked(k)
    BY <1>d DEF Unmarked, RelayState, Batch, Pending
  <2> QED
    BY <1>3, <2>1, <1>d, RelayMoves DEF Select, Goto
<1>4. ASSUME NEW r \in Relays, CloseRows(r) PROVE TypeOK' /\ RelayInv'
  <2> PICK k : k = [pc |-> "publish", batch |-> relay[r].batch, row |-> 0]
    OBVIOUS
  <2>1. Unmarked(k)
    BY <1>d DEF Unmarked, RelayState, RelayInv
  <2> QED
    BY <1>4, <2>1, <1>d, RelayMoves DEF CloseRows, Goto
<1>5. ASSUME NEW r \in Relays, Publish(r) PROVE TypeOK' /\ RelayInv'
  <2> PICK i \in relay[r].batch :
        IF streamUp /\ outbox[i].subject \in StreamSubjects
        THEN stream' = Append(stream, i) /\ Goto(r, "mark", relay[r].batch \ {i}, i)
        ELSE UNCHANGED stream /\ Continue(r, relay[r].batch \ {i})
    BY <1>5 DEF Publish
  <2>1. i \in DOMAIN outbox /\ relay[r].batch \ {i} \in SUBSET DOMAIN outbox
    BY DEF RelayInv
  <2>2. CASE streamUp /\ outbox[i].subject \in StreamSubjects
    <3> PICK k : k = [pc |-> "mark", batch |-> relay[r].batch \ {i}, row |-> i]
      OBVIOUS
    <3>1. k \in RelayState /\ k.batch \subseteq DOMAIN outbox /\ k.row = i
      BY <2>1, <1>d DEF RelayState
    <3> QED
      BY <1>5, <2>1, <2>2, <3>1, <1>d, RelayMoves DEF Publish, Goto
  <2>3. CASE ~(streamUp /\ outbox[i].subject \in StreamSubjects)
    <3>1. PICK k : Unmarked(k) /\ relay' = [relay EXCEPT ![r] = k]
      BY <2>1, <2>3, ContinueUnmarked
    <3> QED
      BY <1>5, <2>3, <3>1, <1>d, RelayMoves DEF Publish
  <2> QED
    BY <2>2, <2>3
<1>6. ASSUME NEW r \in Relays, Mark(r) PROVE TypeOK' /\ RelayInv'
  <2>1. /\ relay[r].row \in DOMAIN outbox /\ InStream(relay[r].row)
        /\ relay[r].batch \in SUBSET DOMAIN outbox
    BY <1>6 DEF Mark, RelayInv
  <2>2. PICK k : Unmarked(k) /\ relay' = [relay EXCEPT ![r] = k]
    BY <1>6, <2>1, ContinueUnmarked DEF Mark
  <2> QED
    BY <1>6, <2>1, <2>2, <1>d, RelayMoves DEF Mark
<1>7. ASSUME NEW r \in Relays, PublishError(r) PROVE TypeOK' /\ RelayInv'
  <2> PICK i \in relay[r].batch :
        /\ stream' = stream \/ stream' = Append(stream, i)
        /\ Continue(r, relay[r].batch \ {i})
    BY <1>7 DEF PublishError
  <2>1. i \in DOMAIN outbox /\ relay[r].batch \ {i} \in SUBSET DOMAIN outbox
    BY DEF RelayInv
  <2>2. PICK k : Unmarked(k) /\ relay' = [relay EXCEPT ![r] = k]
    BY <2>1, ContinueUnmarked
  <2>3. faults' \in 0..MaxFaults
    BY <1>7, <1>d, RelayAssumption DEF PublishError
  <2> QED
    BY <1>7, <2>1, <2>2, <2>3, RelayMoves DEF PublishError
<1>8. ASSUME NEW r \in Relays, MarkError(r) PROVE TypeOK' /\ RelayInv'
  <2>1. relay[r].batch \in SUBSET DOMAIN outbox
    BY DEF RelayInv
  <2>2. PICK k : Unmarked(k) /\ relay' = [relay EXCEPT ![r] = k]
    BY <1>8, <2>1, ContinueUnmarked DEF MarkError
  <2>3. faults' \in 0..MaxFaults
    BY <1>8, <1>d, RelayAssumption DEF MarkError
  <2> QED
    BY <1>8, <2>2, <2>3, RelayMoves DEF MarkError
<1>9. ASSUME NEW r \in Relays, Crash(r) PROVE TypeOK' /\ RelayInv'
  <2>1. Unmarked(Idle)
    BY DEF Idle, Unmarked, RelayState
  <2>2. faults' \in 0..MaxFaults
    BY <1>9, <1>d, RelayAssumption DEF Crash
  <2> QED
    BY <1>9, <2>1, <2>2, RelayMoves DEF Crash
<1>10. CASE UNCHANGED vars
  BY <1>10 DEF vars, TypeOK, RelayInv, PublishedIsInStream, InStream
<1> QED
  BY <1>1, <1>2, <1>3, <1>4, <1>5, <1>6, <1>7, <1>8, <1>9, <1>10 DEF Next, Step

\* The variables keep their types in every behaviour.
THEOREM RelayTypes == Spec => []TypeOK
BY TypeInit, RelayStep, PTL DEF Spec

\* The relay loop never marks a row whose message JetStream has not stored:
\* with any number of relays, lost acknowledgements, failing updates and
\* restarts, no event is lost.
THEOREM NoEventLost == Spec => []PublishedIsInStream
<1>1. RelayInv => PublishedIsInStream
  BY DEF RelayInv
<1> QED
  BY <1>1, TypeInit, RelayStep, PTL DEF Spec

-----------------------------------------------------------------------------
(* How often an event is published.                                        *)

\* Two sets of relays that differ in one relay at most.
LEMMA OneDiffers ==
  ASSUME NEW S, IsFiniteSet(S), NEW r \in S, NEW A \in SUBSET S, NEW B \in SUBSET S,
         A \ {r} = B \ {r}
  PROVE  /\ Cardinality(A) \in Nat /\ Cardinality(B) \in Nat
         /\ Cardinality(B) + (IF r \in A THEN 1 ELSE 0)
              = Cardinality(A) + (IF r \in B THEN 1 ELSE 0)
<1>1. IsFiniteSet(A) /\ IsFiniteSet(B)
  BY FS_Subset
<1>2. Cardinality(A) \in Nat /\ Cardinality(B) \in Nat
  BY <1>1, FS_CardinalityType
<1>3. Cardinality(A \ {r}) = IF r \in A THEN Cardinality(A) - 1 ELSE Cardinality(A)
  BY <1>1, FS_RemoveElement
<1>4. Cardinality(B \ {r}) = IF r \in B THEN Cardinality(B) - 1 ELSE Cardinality(B)
  BY <1>1, FS_RemoveElement
<1> QED
  BY <1>2, <1>3, <1>4

\* How often a value occurs in a sequence.
Occurrences(q, i) == Cardinality({j \in DOMAIN q : q[j] = i})

\* It is finitely often, and once more when the value is appended.
LEMMA Places ==
  ASSUME NEW S, NEW q \in Seq(S), NEW e \in S, NEW i
  PROVE  /\ Occurrences(q, i) \in Nat
         /\ Occurrences(Append(q, e), i) = Occurrences(q, i) + (IF i = e THEN 1 ELSE 0)
<1> DEFINE A == {j \in DOMAIN q : q[j] = i}
           B == {j \in DOMAIN Append(q, e) : Append(q, e)[j] = i}
<1>1. IsFiniteSet(1..Len(q))
  BY FS_Interval
<1>2. A \in SUBSET (1..Len(q))
  OBVIOUS
<1>3. IsFiniteSet(A)
  BY <1>1, <1>2, FS_Subset
<1>4. Cardinality(A) \in Nat
  BY <1>3, FS_CardinalityType
<1>5. Len(q) + 1 \notin A
  BY <1>2
<1>6. B = IF i = e THEN A \cup {Len(q) + 1} ELSE A
  OBVIOUS
<1> HIDE DEF A, B
<1>7. Cardinality(A \cup {Len(q) + 1}) = Cardinality(A) + 1
  BY <1>3, <1>5, FS_AddElement
<1>8. Cardinality(B) = Cardinality(A) + (IF i = e THEN 1 ELSE 0)
  BY <1>4, <1>6, <1>7
<1> QED
  BY <1>4, <1>8 DEF A, B, Occurrences

\* What a message adds to the copies of a row.
LEMMA CopiesStored ==
  ASSUME TypeOK, NEW e \in DOMAIN outbox, NEW i
  PROVE  /\ Copies(i) \in Nat
         /\ stream' = Append(stream, e) => Copies(i)' = Copies(i) + (IF i = e THEN 1 ELSE 0)
         /\ stream' = stream => Copies(i)' = Copies(i)
<1> PICK S : S = DOMAIN outbox
  OBVIOUS
<1>1. stream \in Seq(S) /\ e \in S
  BY DEF TypeOK
<1>2. /\ Occurrences(stream, i) \in Nat
      /\ Occurrences(Append(stream, e), i)
           = Occurrences(stream, i) + (IF i = e THEN 1 ELSE 0)
  BY <1>1, Places
<1>3. Copies(i) = Occurrences(stream, i) /\ Copies(i)' = Occurrences(stream', i)
  BY Zenon DEF Copies, Occurrences
<1> QED
  BY <1>2, <1>3

\* What a step of one relay may do to a row: a copy of a row that stays
\* pending comes from a relay that goes to mark it or from a fault; a copy of
\* a published one from a relay that had read it or from a fault; and a row
\* becomes published when the relay has published it before.
Accounted(r, k, i) ==
  /\ outbox'[i].status = "PENDING" =>
       /\ outbox[i].status = "PENDING"
       /\ Copies(i)' + (IF relay[r].pc = "mark" /\ relay[r].row = i THEN 1 ELSE 0) + faults
            <= Copies(i) + (IF k.pc = "mark" /\ k.row = i THEN 1 ELSE 0) + faults'
  /\ outbox'[i].status = "PUBLISHED" /\ outbox[i].status = "PUBLISHED" =>
       Copies(i)' + (IF i \in k.batch THEN 1 ELSE 0) + faults
         <= Copies(i) + (IF i \in relay[r].batch THEN 1 ELSE 0) + faults'
  /\ outbox'[i].status = "PUBLISHED" /\ outbox[i].status = "PENDING" =>
       /\ Copies(i)' = Copies(i) /\ faults' = faults
       /\ i \in k.batch => i \in relay[r].batch

\* A step of one relay that accounts for every copy preserves the invariant.
LEMMA CopiesMove ==
  ASSUME TypeOK, CopiesInv, TypeOK', NEW r \in Relays, NEW k,
         relay' = [relay EXCEPT ![r] = k],
         k.pc = "mark" => k.row \notin k.batch,
         DOMAIN outbox' = DOMAIN outbox,
         \A i \in DOMAIN outbox : Copies(i)' \in Nat /\ Accounted(r, k, i)
  PROVE  CopiesInv'
<1>1. relay'[r] = k /\ \A q \in Relays \ {r} : relay'[q] = relay[q]
  BY DEF TypeOK
<1>2. ASSUME NEW q \in Relays PROVE relay'[q].pc = "mark" => relay'[q].row \notin relay'[q].batch
  BY <1>1 DEF CopiesInv
<1>3. ASSUME NEW i \in DOMAIN outbox
      PROVE  /\ outbox'[i].status = "PENDING" => Copies(i)' <= Cardinality(Marking(i)') + faults'
             /\ outbox'[i].status = "PUBLISHED" =>
                  Copies(i)' + Cardinality(Holding(i)') <= Cardinality(Relays) + faults'
  <2> PICK M : M = Marking(i)
    OBVIOUS
  <2> PICK N : N = Marking(i)'
    OBVIOUS
  <2> PICK H : H = Holding(i)
    OBVIOUS
  <2> PICK G : G = Holding(i)'
    OBVIOUS
  <2>1. /\ M \in SUBSET Relays /\ N \in SUBSET Relays /\ M \ {r} = N \ {r}
        /\ (r \in M <=> relay[r].pc = "mark" /\ relay[r].row = i)
        /\ (r \in N <=> k.pc = "mark" /\ k.row = i)
    BY <1>1 DEF Marking
  <2>2. /\ H \in SUBSET Relays /\ G \in SUBSET Relays /\ H \ {r} = G \ {r}
        /\ (r \in H <=> i \in relay[r].batch) /\ (r \in G <=> i \in k.batch)
    BY <1>1 DEF Holding
  <2>3. M \cap H = {}
    BY DEF CopiesInv, Marking, Holding
  <2>4. IsFiniteSet(Relays) /\ IsFiniteSet(M) /\ IsFiniteSet(H)
    BY <2>1, <2>2, RelayAssumption, FS_Subset
  <2>5. /\ Cardinality(M) \in Nat /\ Cardinality(N) \in Nat
        /\ Cardinality(N) + (IF r \in M THEN 1 ELSE 0) = Cardinality(M) + (IF r \in N THEN 1 ELSE 0)
    BY <2>1, <2>4, OneDiffers
  <2>6. /\ Cardinality(H) \in Nat /\ Cardinality(G) \in Nat
        /\ Cardinality(G) + (IF r \in H THEN 1 ELSE 0) = Cardinality(H) + (IF r \in G THEN 1 ELSE 0)
    BY <2>2, <2>4, OneDiffers
  <2>7. Cardinality(M) + Cardinality(H) <= Cardinality(Relays) /\ Cardinality(Relays) \in Nat
    <3> PICK U : U = M \cup H
      OBVIOUS
    <3>1. Cardinality(U) = Cardinality(M) + Cardinality(H) - Cardinality(M \cap H)
      BY <2>4, FS_Union
    <3>2. Cardinality(M \cap H) = 0
      BY <2>3, FS_EmptySet
    <3>3. Cardinality(U) <= Cardinality(Relays)
      BY <2>1, <2>2, <2>4, FS_Subset
    <3>4. Cardinality(Relays) \in Nat
      BY <2>4, FS_CardinalityType
    <3> QED
      BY <3>1, <3>2, <3>3, <3>4, <2>5, <2>6
  <2>8. /\ outbox[i].status = "PENDING" => Copies(i) <= Cardinality(M) + faults
        /\ outbox[i].status = "PUBLISHED" => Copies(i) + Cardinality(H) <= Cardinality(Relays) + faults
    BY DEF CopiesInv
  <2>9. Copies(i) \in Nat /\ Copies(i)' \in Nat /\ faults \in Nat /\ faults' \in Nat
    BY CopiesStored, RelayAssumption DEF TypeOK
  <2>10. outbox[i].status = "PENDING" \/ outbox[i].status = "PUBLISHED"
    <3>1. outbox[i] \in Row
      BY DEF TypeOK
    <3> QED
      BY <3>1 DEF Row
  <2> PICK c : c = Copies(i)
    OBVIOUS
  <2> PICK d : d = Copies(i)'
    OBVIOUS
  <2>11. ASSUME outbox'[i].status = "PENDING" PROVE d <= Cardinality(N) + faults'
    <3>1. /\ c <= Cardinality(M) + faults
          /\ d + (IF r \in M THEN 1 ELSE 0) + faults <= c + (IF r \in N THEN 1 ELSE 0) + faults'
      BY <2>1, <2>8, <2>11 DEF Accounted
    <3> QED
      BY <3>1, <2>5, <2>9
  <2>12. ASSUME outbox'[i].status = "PUBLISHED" PROVE d + Cardinality(G) <= Cardinality(Relays) + faults'
    <3>1. CASE outbox[i].status = "PUBLISHED"
      <4>1. /\ c + Cardinality(H) <= Cardinality(Relays) + faults
            /\ d + (IF r \in G THEN 1 ELSE 0) + faults <= c + (IF r \in H THEN 1 ELSE 0) + faults'
        BY <2>2, <2>8, <2>12, <3>1 DEF Accounted
      <4> QED
        BY <4>1, <2>6, <2>7, <2>9
    <3>2. CASE outbox[i].status = "PENDING"
      <4>1. c <= Cardinality(M) + faults /\ d = c /\ faults' = faults /\ (r \in G => r \in H)
        BY <2>2, <2>8, <2>12, <3>2 DEF Accounted
      <4> QED
        BY <4>1, <2>5, <2>6, <2>7, <2>9
    <3> QED
      BY <2>10, <3>1, <3>2
  <2> QED
    BY <2>11, <2>12
<1> QED
  BY <1>2, <1>3 DEF CopiesInv

\* The state that Continue gives a relay: no row to mark, and the rest of the
\* batch.
LEMMA ContinueState ==
  ASSUME NEW r, NEW batch, Continue(r, batch)
  PROVE  \E k : k.pc # "mark" /\ k.batch = batch /\ relay' = [relay EXCEPT ![r] = k]
<1>1. CASE batch = {}
  <2>1. Idle.pc # "mark" /\ Idle.batch = batch
    BY <1>1 DEF Idle
  <2>2. relay' = [relay EXCEPT ![r] = Idle]
    BY <1>1 DEF Continue
  <2> QED
    BY <2>1, <2>2, Zenon
<1>2. CASE batch # {}
  <2> PICK k : k = [pc |-> "publish", batch |-> batch, row |-> 0]
    OBVIOUS
  <2> QED
    BY <1>2 DEF Continue
<1> QED
  BY <1>1, <1>2

\* The initial state satisfies the copies invariant.
LEMMA CopiesInit == Init => CopiesInv
<1> SUFFICES ASSUME Init PROVE CopiesInv
  OBVIOUS
<1>1. DOMAIN outbox = {}
  BY DEF Init
<1> QED
  BY <1>1 DEF Init, CopiesInv, Idle

\* Every step preserves the copies invariant.
LEMMA CopiesStep == TypeOK /\ RelayInv /\ CopiesInv /\ [Next]_vars => CopiesInv'
<1> SUFFICES ASSUME TypeOK, RelayInv, CopiesInv, [Next]_vars PROVE CopiesInv'
  OBVIOUS
<1>t. TypeOK'
  BY RelayStep
<1>d. DOMAIN outbox \subseteq Nat /\ faults \in Nat
  BY RelayAssumption DEF TypeOK
<1>s. \A i \in DOMAIN outbox : outbox[i] \in Row
  BY DEF TypeOK
<1>c. \A i \in DOMAIN outbox :
        /\ Copies(i) \in Nat
        /\ stream' = stream => Copies(i)' = Copies(i)
        /\ \A e \in DOMAIN outbox :
             stream' = Append(stream, e) => Copies(i)' = Copies(i) + (IF i = e THEN 1 ELSE 0)
  BY CopiesStored
<1>u. ASSUME UNCHANGED <<outbox, stream, relay, faults>> PROVE CopiesInv'
  BY <1>u DEF CopiesInv, Copies, Marking, Holding
<1>1. ASSUME NEW s \in Subjects, Write(s) PROVE CopiesInv'
  <2>1. /\ UNCHANGED <<stream, relay, faults>>
        /\ outbox' = Append(outbox, [subject |-> s, status |-> "PENDING"])
    BY <1>1 DEF Write
  <2>2. \A i \in DOMAIN outbox' : (i \in DOMAIN outbox /\ outbox'[i] = outbox[i])
                                   \/ (i \notin DOMAIN outbox /\ outbox'[i].status = "PENDING")
    BY <2>1 DEF TypeOK
  <2>3. \A i : Copies(i)' = Copies(i) /\ Marking(i)' = Marking(i) /\ Holding(i)' = Holding(i)
    BY <2>1 DEF Copies, Marking, Holding
  <2>4. ASSUME NEW i, i \notin DOMAIN outbox PROVE Copies(i) <= Cardinality(Marking(i)) + faults
    <3>1. {j \in DOMAIN stream : stream[j] = i} = {}
      BY <2>4 DEF TypeOK
    <3>2. Copies(i) = 0
      BY <3>1, FS_EmptySet DEF Copies
    <3>3. IsFiniteSet(Marking(i))
      BY RelayAssumption, FS_Subset DEF Marking
    <3>4. Cardinality(Marking(i)) \in Nat
      BY <3>3, FS_CardinalityType
    <3> QED
      BY <3>2, <3>4, <1>d
  <2>5. ASSUME NEW i \in DOMAIN outbox'
        PROVE  /\ outbox'[i].status = "PENDING" =>
                    Copies(i) <= Cardinality(Marking(i)) + faults
               /\ outbox'[i].status = "PUBLISHED" =>
                    Copies(i) + Cardinality(Holding(i)) <= Cardinality(Relays) + faults
    BY <2>2, <2>4 DEF CopiesInv
  <2> QED
    BY <2>1, <2>3, <2>5 DEF CopiesInv
<1>2. ASSUME EnsureStream PROVE CopiesInv'
  BY <1>2, <1>u DEF EnsureStream
<1>3. ASSUME NEW r \in Relays, Select(r) PROVE CopiesInv'
  <2> PICK k : k = [pc |-> "reading", batch |-> Batch(Pending(r)), row |-> 0]
    OBVIOUS
  <2>1. /\ k.pc # "mark" /\ relay' = [relay EXCEPT ![r] = k] /\ relay[r].pc # "mark"
        /\ UNCHANGED <<outbox, stream, faults>>
    BY <1>3 DEF Select, Goto
  <2>2. \A i \in k.batch : outbox[i].status = "PENDING"
    BY DEF Batch, Pending
  <2>3. \A i \in DOMAIN outbox : Copies(i)' \in Nat /\ Accounted(r, k, i)
    BY <2>1, <2>2, <1>c, <1>d DEF Accounted
  <2> QED
    BY <2>1, <2>3, <1>t, CopiesMove
<1>4. ASSUME NEW r \in Relays, CloseRows(r) PROVE CopiesInv'
  <2> PICK k : k = [pc |-> "publish", batch |-> relay[r].batch, row |-> 0]
    OBVIOUS
  <2>1. /\ k.pc # "mark" /\ relay' = [relay EXCEPT ![r] = k] /\ relay[r].pc # "mark"
        /\ UNCHANGED <<outbox, stream, faults>> /\ k.batch = relay[r].batch
    BY <1>4 DEF CloseRows, Goto
  <2>2. \A i \in DOMAIN outbox : Copies(i)' \in Nat /\ Accounted(r, k, i)
    BY <2>1, <1>c, <1>d DEF Accounted
  <2> QED
    BY <2>1, <2>2, <1>t, CopiesMove
<1>5. ASSUME NEW r \in Relays, Publish(r) PROVE CopiesInv'
  <2> PICK i \in relay[r].batch :
        IF streamUp /\ outbox[i].subject \in StreamSubjects
        THEN stream' = Append(stream, i) /\ Goto(r, "mark", relay[r].batch \ {i}, i)
        ELSE UNCHANGED stream /\ Continue(r, relay[r].batch \ {i})
    BY <1>5 DEF Publish
  <2>1. i \in DOMAIN outbox /\ relay[r].pc # "mark" /\ UNCHANGED <<outbox, faults>>
    BY <1>5 DEF RelayInv, Publish
  <2>2. CASE streamUp /\ outbox[i].subject \in StreamSubjects
    <3> PICK k : k = [pc |-> "mark", batch |-> relay[r].batch \ {i}, row |-> i]
      OBVIOUS
    <3>1. /\ relay' = [relay EXCEPT ![r] = k] /\ stream' = Append(stream, i)
          /\ k.pc = "mark" /\ k.batch = relay[r].batch \ {i} /\ k.row = i
      BY <2>2 DEF Goto
    <3>2. \A j \in DOMAIN outbox : Copies(j)' = Copies(j) + (IF j = i THEN 1 ELSE 0)
      BY <3>1, <2>1, <1>c
    <3>3. \A j \in DOMAIN outbox : Copies(j)' \in Nat /\ Accounted(r, k, j)
      BY <2>1, <3>1, <3>2, <1>c, <1>d DEF Accounted
    <3> QED
      BY <2>1, <3>1, <3>3, <1>t, CopiesMove
  <2>3. CASE ~(streamUp /\ outbox[i].subject \in StreamSubjects)
    <3>1. PICK k : /\ k.pc # "mark" /\ k.batch = relay[r].batch \ {i}
                   /\ relay' = [relay EXCEPT ![r] = k]
      BY <2>3, ContinueState
    <3>2. \A j \in DOMAIN outbox : Copies(j)' \in Nat /\ Accounted(r, k, j)
      BY <2>1, <2>3, <3>1, <1>c, <1>d DEF Accounted
    <3> QED
      BY <2>1, <3>1, <3>2, <1>t, CopiesMove
  <2> QED
    BY <2>2, <2>3
<1>6. ASSUME NEW r \in Relays, Mark(r) PROVE CopiesInv'
  <2>1. relay[r].pc = "mark" /\ relay[r].row \in DOMAIN outbox /\ UNCHANGED <<stream, faults>>
    BY <1>6 DEF Mark, RelayInv
  <2>2. PICK k : k.pc # "mark" /\ k.batch = relay[r].batch /\ relay' = [relay EXCEPT ![r] = k]
    BY <1>6, ContinueState DEF Mark
  <2>3. PICK i \in DOMAIN outbox :
          i = relay[r].row /\ outbox' = [outbox EXCEPT ![i].status = "PUBLISHED"]
    BY <1>6, <2>1 DEF Mark
  <2>4. /\ DOMAIN outbox' = DOMAIN outbox /\ outbox'[i].status = "PUBLISHED"
        /\ \A j \in DOMAIN outbox : j # i => outbox'[j] = outbox[j]
    BY <2>3, <1>s DEF Row
  <2>5. \A j \in DOMAIN outbox : Copies(j)' \in Nat /\ Accounted(r, k, j)
    BY <2>1, <2>2, <2>3, <2>4, <1>c, <1>d DEF Accounted
  <2> QED
    BY <2>2, <2>4, <2>5, <1>t, CopiesMove
<1>7. ASSUME NEW r \in Relays, PublishError(r) PROVE CopiesInv'
  <2> PICK i \in relay[r].batch :
        /\ stream' = stream \/ stream' = Append(stream, i)
        /\ Continue(r, relay[r].batch \ {i})
    BY <1>7 DEF PublishError
  <2>1. /\ i \in DOMAIN outbox /\ relay[r].pc # "mark"
        /\ UNCHANGED outbox /\ faults' = faults + 1
    BY <1>7 DEF RelayInv, PublishError
  <2>2. PICK k : /\ k.pc # "mark" /\ k.batch = relay[r].batch \ {i}
                 /\ relay' = [relay EXCEPT ![r] = k]
    BY ContinueState
  <2>3. \A j \in DOMAIN outbox : Copies(j)' \in Nat /\ Copies(j)' <= Copies(j) + 1
    BY <2>1, <1>c
  <2>4. ASSUME NEW j \in DOMAIN outbox PROVE Accounted(r, k, j)
    <3>1. /\ Copies(j) \in Nat /\ Copies(j)' \in Nat /\ Copies(j)' <= Copies(j) + 1
          /\ faults \in Nat /\ faults' = faults + 1
      BY <2>1, <2>3, <1>c, <1>d
    <3>2. k.pc # "mark" /\ relay[r].pc # "mark" /\ (j \in k.batch => j \in relay[r].batch)
      BY <2>1, <2>2
    <3>3. UNCHANGED outbox
      BY <2>1
    <3> QED
      BY <3>1, <3>2, <3>3 DEF Accounted
  <2> QED
    BY <2>1, <2>2, <2>3, <2>4, <1>t, CopiesMove
<1>8. ASSUME NEW r \in Relays, MarkError(r) PROVE CopiesInv'
  <2>1. UNCHANGED <<outbox, stream>> /\ faults' = faults + 1
    BY <1>8 DEF MarkError
  <2>2. PICK k : k.pc # "mark" /\ k.batch = relay[r].batch /\ relay' = [relay EXCEPT ![r] = k]
    BY <1>8, ContinueState DEF MarkError
  <2>3. \A j \in DOMAIN outbox : Copies(j)' \in Nat /\ Accounted(r, k, j)
    BY <2>1, <2>2, <1>c, <1>d DEF Accounted
  <2> QED
    BY <2>1, <2>2, <2>3, <1>t, CopiesMove
<1>9. ASSUME NEW r \in Relays, Crash(r) PROVE CopiesInv'
  <2>1. UNCHANGED <<outbox, stream>> /\ faults' = faults + 1 /\ relay' = [relay EXCEPT ![r] = Idle]
    BY <1>9 DEF Crash
  <2>2. Idle.pc # "mark" /\ Idle.batch = {}
    BY DEF Idle
  <2>3. \A j \in DOMAIN outbox : Copies(j)' \in Nat /\ Accounted(r, Idle, j)
    BY <2>1, <2>2, <1>c, <1>d DEF Accounted
  <2> QED
    BY <2>1, <2>2, <2>3, <1>t, CopiesMove
<1>10. CASE UNCHANGED vars
  BY <1>10, <1>u DEF vars
<1> QED
  BY <1>1, <1>2, <1>3, <1>4, <1>5, <1>6, <1>7, <1>8, <1>9, <1>10 DEF Next, Step

\* The invariants bound the copies of a row.
LEMMA CopiesBounded == TypeOK /\ CopiesInv => FewDuplicates
<1> SUFFICES ASSUME TypeOK, CopiesInv, NEW i \in DOMAIN outbox
             PROVE  Copies(i) <= Cardinality(Relays) + faults
  BY DEF FewDuplicates
<1> PICK M : M = Marking(i)
  OBVIOUS
<1> PICK H : H = Holding(i)
  OBVIOUS
<1>1. M \in SUBSET Relays /\ H \in SUBSET Relays
  BY DEF Marking, Holding
<1>2. IsFiniteSet(M) /\ IsFiniteSet(H) /\ Cardinality(M) <= Cardinality(Relays)
  BY <1>1, RelayAssumption, FS_Subset
<1>3. Cardinality(M) \in Nat /\ Cardinality(H) \in Nat /\ Cardinality(Relays) \in Nat
  BY <1>2, RelayAssumption, FS_CardinalityType
<1>4. Copies(i) \in Nat /\ faults \in Nat
  BY CopiesStored, RelayAssumption DEF TypeOK
<1>5. outbox[i].status = "PENDING" \/ outbox[i].status = "PUBLISHED"
  <2>1. outbox[i] \in Row
    BY DEF TypeOK
  <2> QED
    BY <2>1 DEF Row
<1>6. /\ outbox[i].status = "PENDING" => Copies(i) <= Cardinality(M) + faults
      /\ outbox[i].status = "PUBLISHED" => Copies(i) + Cardinality(H) <= Cardinality(Relays) + faults
  BY DEF CopiesInv
<1> QED
  BY <1>2, <1>3, <1>4, <1>5, <1>6

\* The stages of the relays, the rows of the table and the stream account for
\* every copy of every message in every state.
THEOREM RelayInvariance == Spec => []Inv
BY TypeInit, RelayStep, CopiesInit, CopiesStep, PTL DEF Spec, Inv

\* The relay loop publishes a row at most once per relay process and once more
\* per failing call or restart, for any number of them: the locks that the
\* query gives up early cost no more than that.
THEOREM DuplicatesBounded == Spec => []FewDuplicates
<1>1. Inv => FewDuplicates
  BY CopiesBounded DEF Inv
<1> QED
  BY <1>1, RelayInvariance, PTL

\* A relay that runs alone publishes a row twice only after a fault: it marks
\* every row of its batch before it selects again, so double-publishing takes
\* a second relay between its query and its UPDATE.
THEOREM AloneNoDoublePublish ==
  ASSUME Cardinality(Relays) = 1
  PROVE  Spec => []NoDoublePublish
<1>1. FewDuplicates => NoDoublePublish
  BY DEF FewDuplicates, NoDoublePublish
<1> QED
  BY <1>1, DuplicatesBounded, PTL

-----------------------------------------------------------------------------
(* The relays keep the contract of the channel.                            *)

\* The subjects of a table with one more row.
LEMMA SubjectsAppended ==
  ASSUME NEW q \in Seq(Row), NEW e \in Row
  PROVE  [i \in DOMAIN Append(q, e) |-> Append(q, e)[i].subject]
           = Append([i \in DOMAIN q |-> q[i].subject], e.subject)
<1> DEFINE f == [i \in DOMAIN Append(q, e) |-> Append(q, e)[i].subject]
           g == [i \in DOMAIN q |-> q[i].subject]
<1>1. \A i \in DOMAIN q : q[i] \in Row
  OBVIOUS
<1>2. g \in Seq(Subjects) /\ Len(g) = Len(q) /\ e.subject \in Subjects
  BY <1>1 DEF Row
<1>3. DOMAIN f = 1..(Len(q) + 1)
  OBVIOUS
<1>4. \A i \in 1..(Len(q) + 1) : f[i] = IF i = Len(q) + 1 THEN e.subject ELSE g[i]
  OBVIOUS
<1> HIDE DEF f, g
<1>5. DOMAIN Append(g, e.subject) = 1..(Len(q) + 1)
  BY <1>2
<1>6. \A i \in 1..(Len(q) + 1) :
        Append(g, e.subject)[i] = IF i = Len(q) + 1 THEN e.subject ELSE g[i]
  BY <1>2
<1>7. f = [i \in DOMAIN f |-> f[i]]
  BY DEF f
<1>8. Append(g, e.subject) \in Seq(Subjects)
  BY <1>2
<1>9. Append(g, e.subject) = [i \in DOMAIN Append(g, e.subject) |-> Append(g, e.subject)[i]]
  BY <1>8
<1> QED
  BY <1>3, <1>4, <1>5, <1>6, <1>7, <1>9 DEF f, g

\* No relay changes a row of the table or stores a message of its own: the
\* outbox, the relays and the stream are the channel that the engine assumes.
THEOREM RelayKeepsChannel == Spec => KeepsChannel
<1>1. Init => Channel!ChInit
  <2> SUFFICES ASSUME Init PROVE Channel!ChInit
    OBVIOUS
  <2>1. [i \in DOMAIN outbox |-> outbox[i].subject] = <<>>
    BY DEF Init
  <2> QED
    BY <2>1 DEF Init, Channel!ChInit
<1>2. TypeOK /\ RelayInv /\ [Next]_vars => [Channel!ChNext]_(Channel!channelVars)
  <2> SUFFICES ASSUME TypeOK, RelayInv, [Next]_vars
               PROVE  [Channel!ChNext]_(Channel!channelVars)
    OBVIOUS
  <2>1. ASSUME NEW s \in Subjects, Write(s) PROVE Channel!ChNext
    <3>1. PICK e \in Row : outbox' = Append(outbox, e) /\ e.subject = s
      BY <2>1 DEF Write, Row
    <3>2. outbox \in Seq(Row) /\ UNCHANGED stream
      BY <2>1 DEF TypeOK, Write
    <3>3. [i \in DOMAIN outbox' |-> outbox'[i].subject]
            = Append([i \in DOMAIN outbox |-> outbox[i].subject], s)
      BY <3>1, <3>2, SubjectsAppended
    <3> QED
      BY <3>2, <3>3 DEF Channel!ChNext, Channel!ChWrite
  <2>2. ASSUME NEW i \in DOMAIN outbox, outbox[i].subject \in StreamSubjects,
               stream' = Append(stream, i), UNCHANGED outbox
        PROVE  Channel!ChNext
    BY <2>2 DEF Channel!ChNext, Channel!ChPublish, StreamSubjects
  <2>3. ASSUME NEW r \in Relays, Mark(r) PROVE UNCHANGED Channel!channelVars
    <3>1. outbox \in Seq(Row) /\ relay[r].row \in DOMAIN outbox /\ UNCHANGED stream
      BY <2>3 DEF TypeOK, RelayInv, Mark
    <3>2. PICK i \in DOMAIN outbox : outbox' = [outbox EXCEPT ![i].status = "PUBLISHED"]
      BY <2>3, <3>1 DEF Mark
    <3>3. \A j \in DOMAIN outbox : outbox[j] \in Row
      BY <3>1
    <3>4. DOMAIN outbox' = DOMAIN outbox
      BY <3>2
    <3>5. \A j \in DOMAIN outbox : outbox'[j].subject = outbox[j].subject
      BY <3>2, <3>3 DEF Row
    <3>6. [j \in DOMAIN outbox' |-> outbox'[j].subject] = [j \in DOMAIN outbox |-> outbox[j].subject]
      BY <3>4, <3>5
    <3> QED
      BY <3>1, <3>6 DEF Channel!channelVars
  <2>4. ASSUME NEW r \in Relays, Publish(r) \/ PublishError(r)
        PROVE  Channel!ChNext \/ UNCHANGED Channel!channelVars
    <3>1. PICK i \in relay[r].batch :
            \/ UNCHANGED <<outbox, stream>>
            \/ /\ outbox[i].subject \in StreamSubjects
               /\ stream' = Append(stream, i) /\ UNCHANGED outbox
      BY <2>4 DEF Publish, PublishError
    <3>2. i \in DOMAIN outbox
      BY DEF RelayInv
    <3> QED
      BY <2>2, <3>1, <3>2 DEF Channel!channelVars
  <2>5. CASE UNCHANGED <<outbox, stream>>
    BY <2>5 DEF Channel!channelVars
  <2> QED
    BY <2>1, <2>3, <2>4, <2>5
    DEF Next, Step, EnsureStream, Select, CloseRows, MarkError, Crash, vars
<1> QED
  BY <1>1, <1>2, TypeInit, RelayStep, PTL DEF Spec, KeepsChannel, Channel!ChSpec
=============================================================================
