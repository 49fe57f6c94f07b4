-------------------------------- MODULE Sums --------------------------------
(***************************************************************************)
(* Finite sums, as balances and totals are computed: what                  *)
(* SumFunctionOnSet of the community modules yields for finite sets of any *)
(* size, and the two ways of induction that show it.                       *)
(***************************************************************************)
EXTENDS Functions, FiniteSetTheorems, TLAPS

-----------------------------------------------------------------------------
(* Induction, on sets instead of predicates.                               *)

\* A set of numbers with zero and the successor of each of its members.
LEMMA EveryNumber ==
  ASSUME NEW G \in SUBSET Nat, 0 \in G, \A n \in G : n + 1 \in G
  PROVE  Nat \subseteq G
<1> DEFINE Less == OpToRel(<, Nat)
           B == Nat \ G
<1>1. IsWellFoundedOn(Less, Nat)
  BY NatLessThanWellFounded
<1>2. \A x, y \in Nat : y < x => <<y, x>> \in Less
  BY DEF OpToRel
<1> HIDE DEF Less
<1> SUFFICES ASSUME B # {} PROVE FALSE
  OBVIOUS
<1>3. B \subseteq Nat
  OBVIOUS
<1>4. PICK n \in B : \A m \in B : ~(<<m, n>> \in Less)
  <2> HIDE DEF B
  <2> QED
    BY <1>1, <1>3, WFMin, Zenon
<1>5. n # 0 /\ n \in Nat
  BY <1>4
<1>6. n - 1 \in Nat /\ n - 1 < n
  BY <1>5
<1>7. n - 1 \in G
  BY <1>2, <1>4, <1>5, <1>6
<1> QED
  BY <1>4, <1>5, <1>7

\* Among some subsets of a finite set there is a least one.
LEMMA LeastSubset ==
  ASSUME NEW S, IsFiniteSet(S), NEW B, B \subseteq SUBSET S, B # {}
  PROVE  \E s \in B : \A t \in B : ~(t \subseteq s /\ t # s)
<1>1. PICK P : P = SUBSET S
  OBVIOUS
<1>2. PICK Less : Less = StrictSubsetOrdering(S)
  OBVIOUS
<1>3. IsWellFoundedOn(Less, P)
  BY <1>1, <1>2, FS_StrictSubsetOrderingWellFounded, FS_FiniteSubsetsOfFinite
<1>4. B \subseteq P
  BY <1>1
<1>5. \E s \in B : \A t \in B : ~(<<t, s>> \in Less)
  BY <1>3, <1>4, WFMin, Zenon
<1>6. \A s, t \in P : t \subseteq s /\ t # s => <<t, s>> \in Less
  BY <1>1, <1>2 DEF StrictSubsetOrdering
<1> QED
  BY <1>4, <1>5, <1>6

\* A set of subsets of S that has every set whose proper subsets it has.
LEMMA EverySubset ==
  ASSUME NEW S, IsFiniteSet(S), NEW G \in SUBSET (SUBSET S),
         \A s \in SUBSET S : (\A t \in SUBSET s : t # s => t \in G) => s \in G
  PROVE  SUBSET S \subseteq G
<1>1. PICK B : B = (SUBSET S) \ G
  OBVIOUS
<1> SUFFICES ASSUME B # {} PROVE FALSE
  BY <1>1
<1>2. PICK s \in B : \A t \in B : ~(t \subseteq s /\ t # s)
  <2>1. B \subseteq SUBSET S
    BY <1>1
  <2> QED
    BY <2>1, LeastSubset
<1>3. s \in SUBSET S /\ s \notin G
  BY <1>1, <1>2
<1>4. ASSUME NEW t \in SUBSET s, t # s PROVE t \in G
  BY <1>1, <1>2, <1>3, <1>4
<1> QED
  BY <1>3, <1>4

-----------------------------------------------------------------------------
(* Folds are defined.                                                      *)

\* The element that a fold takes out of a set first.
Chosen(s) == CHOOSE x \in s : TRUE

\* It is one of the set.
LEMMA ChosenIn == ASSUME NEW s, s # {} PROVE Chosen(s) \in s
BY DEF Chosen

\* g at s, computed from g at s without its first element.
Unfolds(g, s, base, step) ==
  g[s] = IF s = {} THEN base ELSE step[s][g[s \ {Chosen(s)}]]

\* What a fold unfolds to defines a function on the subsets of a finite set.
LEMMA FoldExists ==
  ASSUME NEW S, IsFiniteSet(S), NEW V, NEW base \in V,
         NEW step \in [SUBSET S -> [V -> V]]
  PROVE  \E g \in [SUBSET S -> V] : \A s \in SUBSET S : Unfolds(g, s, base, step)
<1> DEFINE Upto(n, g) == \A s \in SUBSET S : Cardinality(s) <= n => Unfolds(g, s, base, step)
           G == {n \in Nat : \E g \in [SUBSET S -> V] : Upto(n, g)}
<1>1. \A s \in SUBSET S : IsFiniteSet(s) /\ Cardinality(s) \in Nat
  BY FS_Subset, FS_CardinalityType
<1>2. \A s \in SUBSET S : s # {} =>
        /\ Chosen(s) \in s /\ s \ {Chosen(s)} \in SUBSET S
        /\ Cardinality(s \ {Chosen(s)}) = Cardinality(s) - 1
  BY <1>1, ChosenIn, FS_RemoveElement
<1>3. 0 \in G
  <2> DEFINE g == [s \in SUBSET S |-> base]
  <2>1. g \in [SUBSET S -> V]
    OBVIOUS
  <2>2. \A s \in SUBSET S : Cardinality(s) <= 0 => s = {}
    BY <1>1, FS_EmptySet
  <2>3. Upto(0, g)
    BY <2>2 DEF Unfolds
  <2> QED
    BY <2>1, <2>3
<1>4. ASSUME NEW n \in G PROVE n + 1 \in G
  <2>0. n \in Nat /\ n + 1 \in Nat
    OBVIOUS
  <2>1. PICK g \in [SUBSET S -> V] : Upto(n, g)
    OBVIOUS
  <2> DEFINE h == [s \in SUBSET S |-> IF s = {} THEN base ELSE step[s][g[s \ {Chosen(s)}]]]
  <2>2. h \in [SUBSET S -> V]
    OBVIOUS
  <2>3. \A s \in SUBSET S : Cardinality(s) <= n => h[s] = g[s]
    BY <2>1 DEF Unfolds
  <2>4. ASSUME NEW s \in SUBSET S, Cardinality(s) <= n + 1, s # {}
        PROVE  h[s \ {Chosen(s)}] = g[s \ {Chosen(s)}]
    <3>1. Cardinality(s \ {Chosen(s)}) <= n /\ s \ {Chosen(s)} \in SUBSET S
      BY <1>1, <1>2, <2>0, <2>4
    <3> QED
      BY <2>3, <3>1
  <2>5. Upto(n + 1, h)
    BY <2>4 DEF Unfolds
  <2> QED
    BY <2>0, <2>2, <2>5
<1> HIDE DEF G
<1>5. Cardinality(S) \in G
  BY <1>1, <1>3, <1>4, EveryNumber DEF G
<1>6. PICK g \in [SUBSET S -> V] : Upto(Cardinality(S), g)
  BY <1>5 DEF G
<1>7. \A s \in SUBSET S : Cardinality(s) <= Cardinality(S)
  BY FS_Subset
<1> QED
  BY <1>6, <1>7

-----------------------------------------------------------------------------
(* Sums.                                                                   *)

\* g[s] is the sum of f over s, for every subset s of S.
Adds(g, f, S) ==
  g = [s \in SUBSET S |-> IF s = {} THEN 0 ELSE f[Chosen(s)] + g[s \ {Chosen(s)}]]

\* What SumFunctionOnSet says, with its recursive function named.
LEMMA SumIs ==
  ASSUME NEW f, NEW S
  PROVE  SumFunctionOnSet(f, S) = (CHOOSE g : Adds(g, f, S))[S]
BY DEF SumFunctionOnSet, FoldFunctionOnSet, MapThenFoldSet, Adds, Chosen

\* There is such a function, with integers as its values.
LEMMA SumExists ==
  ASSUME NEW S, IsFiniteSet(S), NEW f, \A x \in S : f[x] \in Int
  PROVE  \E g \in [SUBSET S -> Int] : Adds(g, f, S)
<1> DEFINE step == [s \in SUBSET S |-> [v \in Int |-> IF s = {} THEN 0 ELSE f[Chosen(s)] + v]]
<1>1. \A s \in SUBSET S : s # {} => f[Chosen(s)] \in Int
  BY ChosenIn
<1>2. step \in [SUBSET S -> [Int -> Int]]
  BY <1>1
<1>3. \A s \in SUBSET S, v \in Int : s # {} => step[s][v] = f[Chosen(s)] + v
  OBVIOUS
<1> HIDE DEF step
<1>4. PICK g \in [SUBSET S -> Int] : \A s \in SUBSET S : Unfolds(g, s, 0, step)
  <2>1. \A z \in Int : \E g \in [SUBSET S -> Int] : \A s \in SUBSET S : Unfolds(g, s, z, step)
    BY <1>2, FoldExists
  <2>2. 0 \in Int
    OBVIOUS
  <2> QED
    BY <2>1, <2>2, Zenon
<1>5. \A s \in SUBSET S : g[s] = IF s = {} THEN 0 ELSE f[Chosen(s)] + g[s \ {Chosen(s)}]
  BY <1>3, <1>4 DEF Unfolds
<1>6. Adds(g, f, S)
  BY <1>5 DEF Adds
<1> QED
  BY <1>6

\* The sums over the subsets of a set and of a subset of it agree.
LEMMA SumAgrees ==
  ASSUME NEW S, IsFiniteSet(S), NEW T \in SUBSET S, NEW f, NEW g, NEW h,
         Adds(g, f, S), Adds(h, f, T)
  PROVE  \A s \in SUBSET T : g[s] = h[s]
<1> DEFINE G == {s \in SUBSET T : g[s] = h[s]}
<1>1. IsFiniteSet(T)
  BY FS_Subset
<1>2. ASSUME NEW s \in SUBSET T, \A t \in SUBSET s : t # s => t \in G
      PROVE  s \in G
  <2>1. /\ g[s] = IF s = {} THEN 0 ELSE f[Chosen(s)] + g[s \ {Chosen(s)}]
        /\ h[s] = IF s = {} THEN 0 ELSE f[Chosen(s)] + h[s \ {Chosen(s)}]
    BY DEF Adds
  <2>2. s # {} => s \ {Chosen(s)} \in SUBSET s /\ s \ {Chosen(s)} # s
    BY ChosenIn
  <2>3. s # {} => g[s \ {Chosen(s)}] = h[s \ {Chosen(s)}]
    BY <1>2, <2>2
  <2> QED
    BY <2>1, <2>3
<1> HIDE DEF G
<1>3. SUBSET T \subseteq G
  <2>1. G \in SUBSET (SUBSET T)
    BY DEF G
  <2> QED
    BY <1>1, <1>2, <2>1, EverySubset
<1> QED
  BY <1>3 DEF G

\* All the sums over subsets of a set at once.
LEMMA AllSums ==
  ASSUME NEW S, IsFiniteSet(S), NEW f, \A x \in S : f[x] \in Int
  PROVE  \E g \in [SUBSET S -> Int] :
           /\ Adds(g, f, S)
           /\ \A s \in SUBSET S : g[s] = SumFunctionOnSet(f, s)
<1>1. PICK g \in [SUBSET S -> Int] : Adds(g, f, S)
  BY SumExists
<1>2. ASSUME NEW s \in SUBSET S PROVE g[s] = SumFunctionOnSet(f, s)
  <2>1. \E h \in [SUBSET s -> Int] : Adds(h, f, s)
    <3>1. IsFiniteSet(s) /\ \A x \in s : f[x] \in Int
      BY FS_Subset
    <3> QED
      BY <3>1, SumExists
  <2>2. PICK h : h = (CHOOSE k : Adds(k, f, s))
    OBVIOUS
  <2>3. Adds(h, f, s)
    BY <2>1, <2>2
  <2>4. g[s] = h[s]
    BY <1>1, <2>3, SumAgrees
  <2> QED
    BY <2>2, <2>4, SumIs
<1> QED
  BY <1>1, <1>2

\* A sum of integers is an integer.
LEMMA SumType ==
  ASSUME NEW S, IsFiniteSet(S), NEW f, \A x \in S : f[x] \in Int
  PROVE  SumFunctionOnSet(f, S) \in Int
<1>1. PICK g \in [SUBSET S -> Int] :
        /\ Adds(g, f, S)
        /\ \A s \in SUBSET S : g[s] = SumFunctionOnSet(f, s)
  BY AllSums
<1> QED
  BY <1>1

\* The sum over nothing.
LEMMA SumEmpty ==
  ASSUME NEW f
  PROVE  SumFunctionOnSet(f, {}) = 0
<1>1. PICK g \in [SUBSET {} -> Int] :
        /\ Adds(g, f, {})
        /\ \A s \in SUBSET {} : g[s] = SumFunctionOnSet(f, s)
  BY FS_EmptySet, AllSums
<1> QED
  BY <1>1 DEF Adds

\* Any element can be taken out of a sum.
LEMMA SumTake ==
  ASSUME NEW S, IsFiniteSet(S), NEW f, \A x \in S : f[x] \in Int, NEW e \in S
  PROVE  SumFunctionOnSet(f, S) = f[e] + SumFunctionOnSet(f, S \ {e})
<1>1. PICK g \in [SUBSET S -> Int] :
        /\ Adds(g, f, S)
        /\ \A s \in SUBSET S : g[s] = SumFunctionOnSet(f, s)
  BY AllSums
<1> DEFINE G == {s \in SUBSET S : \A x \in s : g[s] = f[x] + g[s \ {x}]}
<1>2. ASSUME NEW s \in SUBSET S, \A t \in SUBSET s : t # s => t \in G
      PROVE  s \in G
  <2>1. SUFFICES ASSUME NEW x \in s PROVE g[s] = f[x] + g[s \ {x}]
    OBVIOUS
  <2>2. PICK y : y = Chosen(s)
    OBVIOUS
  <2>3. y \in s
    BY <2>2, ChosenIn
  <2>4. g[s] = f[y] + g[s \ {y}]
    BY <1>1, <2>2, <2>3 DEF Adds
  <2>5. CASE x = y
    BY <2>4, <2>5
  <2>6. CASE x # y
    <3>1. PICK r \in SUBSET S : r = (s \ {y}) \ {x} /\ r = (s \ {x}) \ {y}
      OBVIOUS
    <3>2. g[s \ {y}] = f[x] + g[r]
      <4>1. s \ {y} \in G /\ x \in s \ {y}
        BY <1>2, <2>3, <2>6
      <4> QED
        BY <3>1, <4>1
    <3>4. g[s \ {x}] = f[y] + g[r]
      <4>1. s \ {x} \in G /\ y \in s \ {x}
        BY <1>2, <2>3, <2>6
      <4> QED
        BY <3>1, <4>1
    <3>5. f[x] \in Int /\ f[y] \in Int /\ g[r] \in Int
      BY <2>3
    <3>6. f[y] + (f[x] + g[r]) = f[x] + (f[y] + g[r])
      BY <3>5
    <3> QED
      BY <2>4, <3>2, <3>4, <3>6, Zenon
  <2> QED
    BY <2>5, <2>6
<1> HIDE DEF G
<1>3. SUBSET S \subseteq G
  <2>1. G \in SUBSET (SUBSET S)
    BY DEF G
  <2> QED
    BY <1>2, <2>1, EverySubset
<1>4. g[S] = f[e] + g[S \ {e}]
  BY <1>3 DEF G
<1> QED
  BY <1>1, <1>4

\* An element is added to a sum.
LEMMA SumAdd ==
  ASSUME NEW S, IsFiniteSet(S), NEW f, NEW e, e \notin S,
         \A x \in S \cup {e} : f[x] \in Int
  PROVE  SumFunctionOnSet(f, S \cup {e}) = f[e] + SumFunctionOnSet(f, S)
<1>1. PICK T : T = S \cup {e}
  OBVIOUS
<1>2. IsFiniteSet(T) /\ e \in T /\ T \ {e} = S /\ \A x \in T : f[x] \in Int
  BY <1>1, FS_AddElement
<1>3. SumFunctionOnSet(f, T) = f[e] + SumFunctionOnSet(f, T \ {e})
  BY <1>2, SumTake
<1> QED
  BY <1>1, <1>2, <1>3

\* The sum of the sums of two functions.
LEMMA SumPlus ==
  ASSUME NEW S, IsFiniteSet(S), NEW f, NEW g, NEW h,
         \A x \in S : f[x] \in Int /\ g[x] \in Int /\ h[x] = f[x] + g[x]
  PROVE  SumFunctionOnSet(h, S) = SumFunctionOnSet(f, S) + SumFunctionOnSet(g, S)
<1> DEFINE G == {s \in SUBSET S : SumFunctionOnSet(h, s)
                                  = SumFunctionOnSet(f, s) + SumFunctionOnSet(g, s)}
<1>1. ASSUME NEW s \in SUBSET S, \A t \in SUBSET s : t # s => t \in G
      PROVE  s \in G
  <2>1. CASE s = {}
    <3>1. SumFunctionOnSet(f, s) = 0 /\ SumFunctionOnSet(g, s) = 0 /\ SumFunctionOnSet(h, s) = 0
      BY <2>1, SumEmpty
    <3> QED
      BY <3>1
  <2>2. CASE s # {}
    <3>1. PICK x : x \in s
      BY <2>2
    <3>2. s \ {x} \in G
      BY <1>1, <3>1
    <3>3. \A t \in SUBSET S : IsFiniteSet(t)
      BY FS_Subset
    <3>4. /\ SumFunctionOnSet(f, s) = f[x] + SumFunctionOnSet(f, s \ {x})
          /\ SumFunctionOnSet(g, s) = g[x] + SumFunctionOnSet(g, s \ {x})
          /\ SumFunctionOnSet(h, s) = h[x] + SumFunctionOnSet(h, s \ {x})
      <4>1. IsFiniteSet(s) /\ \A z \in s : f[z] \in Int /\ g[z] \in Int /\ h[z] \in Int
        BY <3>3
      <4> QED
        BY <3>1, <4>1, SumTake
    <3>5. SumFunctionOnSet(f, s \ {x}) \in Int /\ SumFunctionOnSet(g, s \ {x}) \in Int
      BY <3>3, SumType
    <3>6. f[x] \in Int /\ g[x] \in Int /\ h[x] = f[x] + g[x]
      BY <3>1
    <3>7. SumFunctionOnSet(h, s \ {x})
          = SumFunctionOnSet(f, s \ {x}) + SumFunctionOnSet(g, s \ {x})
      BY <3>2
    <3> QED
      BY <3>4, <3>5, <3>6, <3>7
  <2> QED
    BY <2>1, <2>2
<1> HIDE DEF G
<1>2. SUBSET S \subseteq G
  <2>1. G \in SUBSET (SUBSET S)
    BY DEF G
  <2> QED
    BY <1>1, <2>1, EverySubset
<1> QED
  BY <1>2 DEF G

\* A sum of zeros.
LEMMA SumZero ==
  ASSUME NEW S, IsFiniteSet(S), NEW f, \A x \in S : f[x] = 0
  PROVE  SumFunctionOnSet(f, S) = 0
<1>1. SumFunctionOnSet(f, S) \in Int
  BY SumType
<1>2. \A x \in S : f[x] \in Int /\ f[x] \in Int /\ f[x] = f[x] + f[x]
  OBVIOUS
<1>3. SumFunctionOnSet(f, S) = SumFunctionOnSet(f, S) + SumFunctionOnSet(f, S)
  BY <1>2, SumPlus
<1>4. \A n \in Int : n = n + n => n = 0
  OBVIOUS
<1> QED
  BY <1>1, <1>3, <1>4, Zenon

\* The sum of the opposites.
LEMMA SumNegate ==
  ASSUME NEW S, IsFiniteSet(S), NEW f, NEW g, \A x \in S : f[x] \in Int /\ g[x] = -f[x]
  PROVE  SumFunctionOnSet(g, S) = -SumFunctionOnSet(f, S)
<1>1. PICK z : z = [x \in S |-> 0]
  OBVIOUS
<1>2. SumFunctionOnSet(z, S) = 0
  BY <1>1, SumZero
<1>3. \A x \in S : f[x] \in Int /\ g[x] \in Int /\ z[x] = f[x] + g[x]
  BY <1>1
<1>4. SumFunctionOnSet(z, S) = SumFunctionOnSet(f, S) + SumFunctionOnSet(g, S)
  BY <1>3, SumPlus
<1>5. SumFunctionOnSet(f, S) \in Int /\ SumFunctionOnSet(g, S) \in Int
  BY <1>3, SumType
<1> QED
  BY <1>2, <1>4, <1>5

\* Functions that agree on a set have the same sum over it.
LEMMA SumSame ==
  ASSUME NEW S, IsFiniteSet(S), NEW f, NEW g, \A x \in S : f[x] \in Int /\ g[x] = f[x]
  PROVE  SumFunctionOnSet(g, S) = SumFunctionOnSet(f, S)
<1>1. PICK z : z = [x \in S |-> 0]
  OBVIOUS
<1>2. SumFunctionOnSet(z, S) = 0
  BY <1>1, SumZero
<1>3. \A x \in S : f[x] \in Int /\ z[x] \in Int /\ g[x] = f[x] + z[x]
  BY <1>1
<1>4. SumFunctionOnSet(g, S) = SumFunctionOnSet(f, S) + SumFunctionOnSet(z, S)
  BY <1>3, SumPlus
<1>5. SumFunctionOnSet(f, S) \in Int
  BY SumType
<1> QED
  BY <1>2, <1>4, <1>5

\* The sum over a set, of which one element changes its value.
LEMMA SumChange ==
  ASSUME NEW S, IsFiniteSet(S), NEW f, NEW g, NEW x \in S,
         \A y \in S : f[y] \in Int /\ g[y] \in Int,
         \A y \in S \ {x} : g[y] = f[y]
  PROVE  SumFunctionOnSet(g, S) = SumFunctionOnSet(f, S) + (g[x] - f[x])
<1>1. IsFiniteSet(S \ {x})
  BY FS_Subset
<1>2. SumFunctionOnSet(g, S \ {x}) = SumFunctionOnSet(f, S \ {x})
  BY <1>1, SumSame
<1>3. SumFunctionOnSet(f, S \ {x}) \in Int
  BY <1>1, SumType
<1>4. SumFunctionOnSet(f, S) = f[x] + SumFunctionOnSet(f, S \ {x})
  BY SumTake
<1>5. SumFunctionOnSet(g, S) = g[x] + SumFunctionOnSet(g, S \ {x})
  BY SumTake
<1> QED
  BY <1>2, <1>3, <1>4, <1>5

\* The sum over a set is the sum over a part of it and over the rest.
LEMMA SumSplit ==
  ASSUME NEW S, IsFiniteSet(S), NEW T \in SUBSET S, NEW f, \A x \in S : f[x] \in Int
  PROVE  SumFunctionOnSet(f, S) = SumFunctionOnSet(f, T) + SumFunctionOnSet(f, S \ T)
<1>0. PICK R \in SUBSET S : R = S \ T
  OBVIOUS
<1> DEFINE G == {s \in SUBSET R : SumFunctionOnSet(f, T \cup s)
                                        = SumFunctionOnSet(f, T) + SumFunctionOnSet(f, s)}
<1>1. \A t \in SUBSET S : IsFiniteSet(t) /\ \A x \in t : f[x] \in Int
  BY FS_Subset
<1>2. \A t \in SUBSET S : SumFunctionOnSet(f, t) \in Int
  BY <1>1, SumType
<1>3. ASSUME NEW s \in SUBSET R, \A t \in SUBSET s : t # s => t \in G
      PROVE  s \in G
  <2>1. CASE s = {}
    <3>1. SumFunctionOnSet(f, s) = 0 /\ T \cup s = T
      BY <2>1, SumEmpty
    <3>2. \A n \in Int : n = n + 0
      OBVIOUS
    <3>3. SumFunctionOnSet(f, T) = SumFunctionOnSet(f, T) + 0
      BY <1>2, <3>2, Zenon
    <3> QED
      BY <3>1, <3>3
  <2>2. CASE s # {}
    <3>1. PICK x \in S : x \in s
      BY <2>2
    <3>2. PICK r \in SUBSET R : r = s \ {x}
      OBVIOUS
    <3>3. r \in G
      BY <1>3, <3>1, <3>2
    <3>4. SumFunctionOnSet(f, s) = f[x] + SumFunctionOnSet(f, r)
      <4>1. s \in SUBSET S
        OBVIOUS
      <4> QED
        BY <1>1, <3>1, <3>2, <4>1, SumTake
    <3>5. SumFunctionOnSet(f, T \cup s) = f[x] + SumFunctionOnSet(f, T \cup r)
      <4>1. T \cup s \in SUBSET S /\ (T \cup s) \ {x} = T \cup r /\ x \in T \cup s
        BY <1>0, <3>1, <3>2
      <4>2. SumFunctionOnSet(f, T \cup s) = f[x] + SumFunctionOnSet(f, (T \cup s) \ {x})
        BY <1>1, <4>1, SumTake
      <4> QED
        BY <4>1, <4>2
    <3>6. SumFunctionOnSet(f, T \cup r) = SumFunctionOnSet(f, T) + SumFunctionOnSet(f, r)
      BY <3>3
    <3>7. f[x] \in Int /\ SumFunctionOnSet(f, T) \in Int /\ SumFunctionOnSet(f, r) \in Int
      BY <1>2
    <3> QED
      BY <3>4, <3>5, <3>6, <3>7
  <2> QED
    BY <2>1, <2>2
<1> HIDE DEF G
<1>4. SUBSET R \subseteq G
  <2>1. G \in SUBSET (SUBSET R)
    BY DEF G
  <2>2. IsFiniteSet(R)
    BY <1>1
  <2> QED
    BY <1>3, <2>1, <2>2, EverySubset
<1>5. R \in G /\ T \cup R = S
  BY <1>0, <1>4
<1> QED
  BY <1>0, <1>5 DEF G

\* What is zero outside a part of a set has its sum over that part.
LEMMA SumOn ==
  ASSUME NEW S, IsFiniteSet(S), NEW T \in SUBSET S, NEW f, \A x \in S : f[x] \in Int,
         \A x \in S \ T : f[x] = 0
  PROVE  SumFunctionOnSet(f, S) = SumFunctionOnSet(f, T)
<1>1. IsFiniteSet(T) /\ IsFiniteSet(S \ T)
  BY FS_Subset
<1>2. SumFunctionOnSet(f, S \ T) = 0
  BY <1>1, SumZero
<1>3. SumFunctionOnSet(f, T) \in Int
  BY <1>1, SumType
<1>4. SumFunctionOnSet(f, S) = SumFunctionOnSet(f, T) + SumFunctionOnSet(f, S \ T)
  BY SumSplit
<1> QED
  BY <1>2, <1>3, <1>4
=============================================================================
