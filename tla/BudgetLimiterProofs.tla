-------------------------- MODULE BudgetLimiterProofs --------------------------
(***************************************************************************)
(* Proofs about BudgetLimiter, for any budgets, windows, costs and finite  *)
(* number of requests, and about SpendGate, for any gate.  Most of the way *)
(* goes to what a sum over a deque does when the deque is pruned, charged  *)
(* or grows older; the invariants are short.                               *)
(***************************************************************************)
EXTENDS BudgetLimiter, FunctionTheorems, FiniteSetTheorems, SequenceTheorems, WellFoundedInduction, TLAPS

-----------------------------------------------------------------------------
(* Induction, in terms of sets: a set of numbers with 0 and the successors *)
(* of its elements has all numbers, and a set of subsets with the empty    *)
(* one and whatever one more element gives has the whole finite set.       *)

LEMMA LeastNumber ==
  ASSUME NEW S \in SUBSET Nat, S # {}
  PROVE  \E m \in S : \A n \in S : m <= n
<1>. DEFINE R == {ss \in Nat \X Nat : ss[1] < ss[2]}
<1>1. IsWellFoundedOn(R, Nat)
  BY NatLessThanWellFounded DEF OpToRel
<1>2. PICK m \in S : \A n \in S : ~ (<<n, m>> \in R)
  BY <1>1, WFMin
<1>3. ASSUME NEW n \in S PROVE m <= n
  <2>1. n \in Nat /\ m \in Nat /\ ~ (<<n, m>> \in R)
    BY <1>2
  <2>2. ~ (n < m)
    BY <2>1
  <2>3. QED
    BY <2>1, <2>2
<1>4. QED
  BY <1>3

LEMMA Induct ==
  ASSUME NEW S, 0 \in S, \A n \in Nat : n \in S => n + 1 \in S
  PROVE  Nat \subseteq S
<1>1. SUFFICES ASSUME Nat \ S # {} PROVE FALSE
  OBVIOUS
<1>2. PICK m \in Nat \ S : \A n \in Nat \ S : m <= n
  BY <1>1, LeastNumber
<1>3. m # 0 /\ m - 1 \in Nat
  BY <1>2
<1>4. m - 1 \in S
  BY <1>2, <1>3
<1>5. QED
  BY <1>2, <1>3, <1>4

LEMMA FiniteInduct ==
  ASSUME NEW S, IsFiniteSet(S), NEW P \in SUBSET (SUBSET S), {} \in P,
         \A T \in P : \A x \in S \ T : T \cup {x} \in P
  PROVE  S \in P
<1>. DEFINE N == {n \in Nat : \A T \in SUBSET S : Cardinality(T) = n => T \in P}
<1>1. \A T \in SUBSET S : IsFiniteSet(T) /\ Cardinality(T) \in Nat
  BY FS_Subset, FS_CardinalityType
<1>2. 0 \in N
  BY <1>1, FS_EmptySet
<1>3. ASSUME NEW n \in Nat, n \in N PROVE n + 1 \in N
  <2>1. ASSUME NEW T \in SUBSET S, Cardinality(T) = n + 1 PROVE T \in P
    <3>1. PICK x \in T : TRUE
      BY <1>1, <2>1, FS_EmptySet
    <3>2. Cardinality(T \ {x}) = Cardinality(T) - 1
      BY <1>1, FS_RemoveElement
    <3>3. T \ {x} \in P /\ x \in S \ (T \ {x}) /\ (T \ {x}) \cup {x} = T
      BY <1>3, <2>1, <3>2
    <3>4. QED
      BY <3>3
  <2>2. QED
    BY <2>1
<1>4. Cardinality(S) \in N
  <2>. HIDE DEF N
  <2>1. QED
    BY <1>1, <1>2, <1>3, Induct
<1>5. QED
  BY <1>4

\* What Min and Max choose.
LEMMA Least ==
  ASSUME NEW S \in SUBSET Nat, S # {}
  PROVE  Min(S) \in S /\ \A x \in S : Min(S) <= x
  BY LeastNumber DEF Min

LEMMA Greatest ==
  ASSUME NEW S \in SUBSET Int, IsFiniteSet(S), S # {}
  PROVE  Max(S) \in S /\ \A x \in S : x <= Max(S)
<1>. DEFINE P == {T \in SUBSET S : T # {} => \E m \in T : \A x \in T : x <= m}
<1>1. ASSUME NEW T \in P, NEW y \in S \ T PROVE T \cup {y} \in P
  <2>1. CASE T = {}
    BY <2>1
  <2>2. CASE T # {}
    <3>1. PICK m \in T : \A x \in T : x <= m
      BY <2>2
    <3>2. m \in Int /\ y \in Int
      OBVIOUS
    <3>3. CASE m <= y
      <4>1. \A x \in T \cup {y} : x <= y
        BY <3>1, <3>2, <3>3
      <4>2. QED
        BY <4>1
    <3>4. CASE y <= m
      <4>1. \A x \in T \cup {y} : x <= m
        BY <3>1, <3>2, <3>4
      <4>2. QED
        BY <4>1
    <3>5. QED
      BY <3>2, <3>3, <3>4
  <2>3. QED
    BY <2>1, <2>2
<1>2. S \in P
  <2>1. P \in SUBSET (SUBSET S) /\ {} \in P
    OBVIOUS
  <2>. HIDE DEF P
  <2>2. QED
    BY <1>1, <2>1, FiniteInduct
<1>3. PICK m \in S : \A x \in S : m >= x
  BY <1>2
<1>4. Max(S) \in S /\ \A x \in S : Max(S) >= x
  BY <1>3 DEF Max
<1>5. QED
  BY <1>4

-----------------------------------------------------------------------------
(* A total counts what it adds up, unit by unit.  From this follows what   *)
(* pruning, charging and time do to it.                                    *)

\* The units that the transactions at the places S of s weigh.
Units(w, s, S) == {u \in S \X Nat : 1 <= u[2] /\ u[2] <= Weight(w, s[u[1]])}

\* The places of what is young enough to count.
Recent(s, within) == {i \in DOMAIN s : s[i].age <= within}

LEMMA UnitsOfOneMore ==
  ASSUME NEW w, NEW s, NEW S, NEW i, i \notin S, Weight(w, s[i]) \in Nat, IsFiniteSet(Units(w, s, S))
  PROVE  /\ IsFiniteSet(Units(w, s, S \cup {i}))
         /\ Cardinality(Units(w, s, S \cup {i})) = Weight(w, s[i]) + Cardinality(Units(w, s, S))
<1>. DEFINE weight == Weight(w, s[i])
            New == {i} \X (1..weight)
<1>1. Units(w, s, S \cup {i}) = Units(w, s, S) \cup New
  <2>1. ASSUME NEW u PROVE u \in Units(w, s, S \cup {i}) <=> u \in Units(w, s, S) \cup New
    BY DEF Units
  <2>2. QED
    BY <2>1
<1>2. Units(w, s, S) \cap New = {}
  BY DEF Units
<1>3. IsFiniteSet(New) /\ Cardinality(New) = weight
  <2>1. IsFiniteSet({i}) /\ Cardinality({i}) = 1
    BY FS_Singleton
  <2>2. IsFiniteSet(1..weight) /\ Cardinality(1..weight) = weight
    <3>. HIDE DEF weight
    <3>1. IsFiniteSet(1..weight) /\ Cardinality(1..weight) = IF 1 > weight THEN 0 ELSE weight - 1 + 1
      BY FS_Interval DEF weight
    <3>2. weight \in Nat
      BY DEF weight
    <3>3. QED
      BY <3>1, <3>2
  <2>3. IsFiniteSet(New) /\ Cardinality(New) = Cardinality({i}) * Cardinality(1..weight)
    BY <2>1, <2>2, FS_Product
  <2>4. QED
    BY <2>1, <2>2, <2>3
<1>4. Cardinality(Units(w, s, S)) \in Nat /\ Cardinality({}) = 0
  BY FS_CardinalityType, FS_EmptySet
<1>. HIDE DEF New
<1>5. /\ IsFiniteSet(Units(w, s, S) \cup New)
      /\ Cardinality(Units(w, s, S) \cup New)
           = Cardinality(Units(w, s, S)) + Cardinality(New) - Cardinality({})
  BY <1>2, <1>3, FS_Union
<1>6. \A a, b \in Nat : a + b - 0 = b + a
  OBVIOUS
<1>7. QED
  BY <1>1, <1>3, <1>4, <1>5, <1>6, Zenon

LEMMA NoUnits ==
  ASSUME NEW w, NEW s
  PROVE  Units(w, s, {}) = {} /\ IsFiniteSet(Units(w, s, {})) /\ Cardinality(Units(w, s, {})) = 0
<1>1. Units(w, s, {}) = {}
  BY DEF Units
<1>2. QED
  BY <1>1, FS_EmptySet

LEMMA UnitsAreFinite ==
  ASSUME NEW w, NEW s, NEW S, IsFiniteSet(S), \A i \in S : Weight(w, s[i]) \in Nat
  PROVE  IsFiniteSet(Units(w, s, S))
<1>. DEFINE P == {T \in SUBSET S : IsFiniteSet(Units(w, s, T))}
<1>1. {} \in P
  BY NoUnits
<1>2. ASSUME NEW T \in P, NEW i \in S \ T PROVE T \cup {i} \in P
  BY <1>2, UnitsOfOneMore
<1>3. S \in P
  <2>1. P \in SUBSET (SUBSET S)
    OBVIOUS
  <2>. HIDE DEF P
  <2>2. QED
    BY <1>1, <1>2, <2>1, FiniteInduct
<1>4. QED
  BY <1>3

\* The equation that MapThenSumSet solves.
Sums(g, w, s, S) ==
    g = [T \in SUBSET S |->
           IF T = {} THEN 0
           ELSE Weight(w, s[CHOOSE i \in T : TRUE]) + g[T \ {CHOOSE i \in T : TRUE}]]

LEMMA TotalSums ==
  ASSUME NEW w, NEW s, NEW within
  PROVE  Total(w, s, within) = (CHOOSE g : Sums(g, w, s, Recent(s, within)))[Recent(s, within)]
  BY DEF Total, MapThenSumSet, MapThenFoldSet, Sums, Recent

\* A total is a number of units.  It is the value of a recursive function that some
\* solution of its equation is chosen for; that the count of units is one, and that every
\* other agrees with it, is shown by induction over the sets below S.
LEMMA TotalCounts ==
  ASSUME NEW w, NEW s, NEW within, IsFiniteSet(Recent(s, within)),
         \A i \in Recent(s, within) : Weight(w, s[i]) \in Nat
  PROVE  /\ IsFiniteSet(Units(w, s, Recent(s, within)))
         /\ Total(w, s, within) = Cardinality(Units(w, s, Recent(s, within)))
<1>. DEFINE S == Recent(s, within)
            Count(T) == Cardinality(Units(w, s, T))
            First(T) == CHOOSE i \in T : TRUE
<1>0. IsFiniteSet(S) /\ \A i \in S : Weight(w, s[i]) \in Nat
  OBVIOUS
<1>1. Total(w, s, within) = (CHOOSE g : Sums(g, w, s, S))[S]
  BY TotalSums
<1>. HIDE DEF S
<1>2. ASSUME NEW T \in SUBSET S, NEW i \in T PROVE Count(T) = Weight(w, s[i]) + Count(T \ {i})
  <2>1. IsFiniteSet(T \ {i}) /\ i \notin T \ {i} /\ (T \ {i}) \cup {i} = T
    BY <1>0, FS_Subset
  <2>2. IsFiniteSet(Units(w, s, T \ {i}))
    BY <1>0, <2>1, UnitsAreFinite
  <2>3. Count((T \ {i}) \cup {i}) = Weight(w, s[i]) + Count(T \ {i})
    BY <1>0, <2>1, <2>2, UnitsOfOneMore
  <2>4. QED
    BY <2>1, <2>3
<1>3. Count({}) = 0
  BY NoUnits
<1>4. \A T \in SUBSET S : T # {} => First(T) \in T
  OBVIOUS
<1>5. Sums([T \in SUBSET S |-> Count(T)], w, s, S)
  <2>. DEFINE g == [T \in SUBSET S |-> Count(T)]
  <2>1. ASSUME NEW T \in SUBSET S
        PROVE  Count(T) = IF T = {} THEN 0 ELSE Weight(w, s[First(T)]) + g[T \ {First(T)}]
    <3>1. CASE T = {}
      BY <1>3, <3>1
    <3>2. CASE T # {}
      <4>. HIDE DEF Count
      <4>1. First(T) \in T
        BY <1>4, <3>2
      <4>. HIDE DEF First
      <4>2. g[T \ {First(T)}] = Count(T \ {First(T)})
        OBVIOUS
      <4>3. QED
        BY <1>2, <3>2, <4>1, <4>2
    <3>3. QED
      BY <3>1, <3>2
  <2>. HIDE DEF Count
  <2>2. QED
    BY <2>1 DEF Sums
<1>6. PICK g : Sums(g, w, s, S) /\ Total(w, s, within) = g[S]
  BY <1>1, <1>5
<1>7. ASSUME NEW T \in SUBSET S
      PROVE  g[T] = IF T = {} THEN 0 ELSE Weight(w, s[First(T)]) + g[T \ {First(T)}]
  BY <1>6 DEF Sums
<1>8. g[S] = Count(S)
  <2>. DEFINE N == {n \in Nat : \A T \in SUBSET S : Cardinality(T) = n => g[T] = Count(T)}
  <2>1. \A T \in SUBSET S : IsFiniteSet(T) /\ Cardinality(T) \in Nat
    BY <1>0, FS_Subset, FS_CardinalityType
  <2>2. 0 \in N
    BY <1>3, <1>7, <2>1, FS_EmptySet
  <2>3. ASSUME NEW n \in Nat, n \in N PROVE n + 1 \in N
    <3>1. ASSUME NEW T \in SUBSET S, Cardinality(T) = n + 1 PROVE g[T] = Count(T)
      <4>1. T # {}
        BY <2>1, <3>1, FS_EmptySet
      <4>2. First(T) \in T
        BY <1>4, <4>1
      <4>. DEFINE R == T \ {First(T)}
      <4>3. R \in SUBSET S /\ Cardinality(R) = n
        <5>. HIDE DEF First
        <5>1. Cardinality(R) = Cardinality(T) - 1
          BY <2>1, <4>2, FS_RemoveElement
        <5>2. QED
          BY <3>1, <5>1
      <4>4. g[R] = Count(R)
        BY <2>3, <4>3
      <4>5. g[T] = Weight(w, s[First(T)]) + g[R]
        BY <1>7, <4>1
      <4>. HIDE DEF First, Count
      <4>6. QED
        BY <1>2, <4>2, <4>4, <4>5
    <3>2. QED
      BY <3>1
  <2>4. Cardinality(S) \in N
    <3>. HIDE DEF N
    <3>1. QED
      BY <2>1, <2>2, <2>3, Induct
  <2>5. QED
    BY <2>4
<1>9. QED
  BY <1>0, <1>6, <1>8, UnitsAreFinite DEF S

-----------------------------------------------------------------------------
(* The deque. *)

Deque == Seq(Transaction)

LEMMA WeightIsNatural ==
  ASSUME NEW w \in Window, NEW tx \in Transaction
  PROVE  Weight(w, tx) \in Nat
  BY DEF Weight, Window, Transaction

LEMMA LengthIsNatural ==
  ASSUME NEW w \in Window
  PROVE  Length(w) \in Nat /\ Length(w) <= Day
  BY BudgetAssumption DEF Window, Length

LEMMA DequeType ==
  ASSUME NEW s \in Deque
  PROVE  /\ Len(s) \in Nat /\ DOMAIN s = 1..Len(s)
         /\ \A i \in 1..Len(s) : s[i] \in Transaction /\ s[i].age \in Int /\ s[i].age <= Day + 1
<1>1. Len(s) \in Nat /\ DOMAIN s = 1..Len(s) /\ \A i \in 1..Len(s) : s[i] \in Transaction
  BY DEF Deque
<1>2. \A tx \in Transaction : tx.age \in Int /\ tx.age <= Day + 1
  BY BudgetAssumption DEF Transaction
<1>3. QED
  BY <1>1, <1>2

\* What a deque's total counts.
LEMMA DequeCounts ==
  ASSUME NEW w \in Window, NEW s \in Deque, NEW within \in Int
  PROVE  /\ Recent(s, within) \in SUBSET (1..Len(s))
         /\ IsFiniteSet(Recent(s, within))
         /\ IsFiniteSet(Units(w, s, Recent(s, within)))
         /\ Total(w, s, within) = Cardinality(Units(w, s, Recent(s, within)))
         /\ Total(w, s, within) \in Nat
<1>1. Recent(s, within) \in SUBSET (1..Len(s))
  BY DEF Recent, Deque
<1>2. IsFiniteSet(Recent(s, within))
  BY <1>1, FS_Interval, FS_Subset DEF Deque
<1>3. \A i \in Recent(s, within) : Weight(w, s[i]) \in Nat
  BY <1>1, WeightIsNatural DEF Deque
<1>4. QED
  BY <1>1, <1>2, <1>3, TotalCounts, FS_CardinalityType

\* Pruning drops a number of transactions, each more than a day old, and leaves none
\* that old in front.
LEMMA Pruned ==
  ASSUME NEW s \in Deque
  PROVE  \E d \in 0..Len(s) :
            /\ Prune(s) \in Deque
            /\ Len(Prune(s)) = Len(s) - d
            /\ \A i \in 1..Len(Prune(s)) : Prune(s)[i] = s[i + d]
            /\ \A i \in 1..d : s[i].age > Day
            /\ Prune(s) # << >> => Prune(s)[1].age <= Day
<1>. DEFINE live == {i \in DOMAIN s : s[i].age <= Day}
<1>1. /\ Len(s) \in Nat /\ DOMAIN s = 1..Len(s)
      /\ \A i \in 1..Len(s) : s[i] \in Transaction /\ s[i].age \in Int
  BY DequeType
<1>2. CASE live = {}
  <2>1. Prune(s) = << >>
    BY <1>2 DEF Prune
  <2>2. \A i \in 1..Len(s) : s[i].age > Day
    BY <1>1, <1>2, BudgetAssumption
  <2>3. Prune(s) \in Deque /\ Len(Prune(s)) = Len(s) - Len(s)
    BY <1>1, <2>1 DEF Deque
  <2>4. \A i \in 1..Len(Prune(s)) : FALSE
    BY <2>1
  <2>5. Len(s) \in 0..Len(s)
    BY <1>1
  <2>6. QED
    BY <2>1, <2>2, <2>3, <2>4, <2>5
<1>3. CASE live # {}
  <2>1. live \in SUBSET Nat /\ live \subseteq 1..Len(s)
    BY <1>1
  <2>2. PICK m \in live : m = Min(live) /\ \A i \in live : m <= i
    <3>. HIDE DEF live
    <3>1. QED
      BY <1>3, <2>1, Least
  <2>3. m \in 1..Len(s) /\ s[m].age <= Day /\ Prune(s) = SubSeq(s, m, Len(s))
    BY <1>3, <2>1, <2>2 DEF Prune
  <2>4. \A i \in 1..(m - 1) : s[i].age > Day
    <3>1. ASSUME NEW i \in 1..(m - 1) PROVE s[i].age > Day
      <4>1. i \in 1..Len(s) /\ ~ (m <= i)
        BY <1>1, <2>3
      <4>2. i \notin live
        BY <2>2, <4>1
      <4>3. QED
        BY <1>1, <4>1, <4>2, BudgetAssumption
    <3>2. QED
      BY <3>1
  <2>5. /\ Prune(s) \in Deque
        /\ Len(Prune(s)) = Len(s) - (m - 1)
        /\ \A i \in 1..Len(Prune(s)) : Prune(s)[i] = s[i + (m - 1)]
    <3>1. \A i \in m..Len(s) : s[i] \in Transaction
      BY <1>1, <2>3
    <3>2. /\ SubSeq(s, m, Len(s)) \in Seq(Transaction)
          /\ Len(SubSeq(s, m, Len(s))) = Len(s) - m + 1
          /\ \A i \in 1..(Len(s) - m + 1) : SubSeq(s, m, Len(s))[i] = s[m + i - 1]
      BY <1>1, <2>3, <3>1, SubSeqProperties
    <3>3. QED
      BY <1>1, <2>3, <3>2 DEF Deque
  <2>6. Prune(s) # << >> => Prune(s)[1].age <= Day
    BY <1>1, <2>3, <2>5
  <2>7. m - 1 \in 0..Len(s)
    BY <1>1, <2>3
  <2>8. QED
    BY <2>4, <2>5, <2>6, <2>7
<1>4. QED
  BY <1>2, <1>3

\* What is recent enough to count is still there after pruning, and nothing else is.
LEMMA PruningKeepsTotals ==
  ASSUME NEW s \in Deque, NEW w \in Window, NEW within \in Nat, within <= Day
  PROVE  Total(w, Prune(s), within) = Total(w, s, within)
<1>1. PICK d \in 0..Len(s) :
            /\ Prune(s) \in Deque
            /\ Len(Prune(s)) = Len(s) - d
            /\ \A i \in 1..Len(Prune(s)) : Prune(s)[i] = s[i + d]
            /\ \A i \in 1..d : s[i].age > Day
  BY Pruned
<1>. DEFINE New == Units(w, Prune(s), Recent(Prune(s), within))
            Old == Units(w, s, Recent(s, within))
            Move == [u \in New |-> <<u[1] + d, u[2]>>]
<1>2. /\ Len(s) \in Nat /\ DOMAIN s = 1..Len(s) /\ DOMAIN Prune(s) = 1..Len(Prune(s))
      /\ \A i \in 1..Len(s) : s[i].age \in Int
      /\ Day \in Nat
  BY <1>1, DequeType, BudgetAssumption
<1>3. ASSUME NEW i \in Recent(Prune(s), within)
      PROVE  i \in Int /\ i + d \in Recent(s, within) /\ Prune(s)[i] = s[i + d]
  BY <1>1, <1>2 DEF Recent
<1>4. ASSUME NEW i \in Recent(s, within)
      PROVE  i - d \in Recent(Prune(s), within) /\ i \in Int /\ Prune(s)[i - d] = s[i]
  <2>1. i \in 1..Len(s) /\ s[i].age <= Day
    BY <1>2 DEF Recent
  <2>2. i \notin 1..d
    BY <1>1, <1>2, <2>1
  <2>3. i - d \in 1..Len(Prune(s)) /\ (i - d) + d = i
    BY <1>1, <1>2, <2>1, <2>2
  <2>4. QED
    BY <1>1, <1>2, <2>1, <2>3 DEF Recent
<1>5. \A u \in New : /\ u = <<u[1], u[2]>>
                     /\ u[1] \in Int /\ u[1] + d \in Recent(s, within)
                     /\ <<u[1] + d, u[2]>> \in Old
  BY <1>3 DEF Units
<1>6. Move \in [New -> Old]
  BY <1>5
<1>7. \A u, v \in New : Move[u] = Move[v] => u = v
  <2>1. ASSUME NEW u \in New, NEW v \in New, Move[u] = Move[v] PROVE u = v
    <3>1. u[1] + d = v[1] + d /\ u[2] = v[2]
      BY <2>1
    <3>2. \A a, b \in Int : a + d = b + d => a = b
      OBVIOUS
    <3>3. QED
      BY <1>5, <3>1, <3>2, Zenon
  <2>2. QED
    BY <2>1
<1>8. \A v \in Old : \E u \in New : Move[u] = v
  <2>1. ASSUME NEW v \in Old PROVE \E u \in New : Move[u] = v
    <3>1. v = <<v[1], v[2]>> /\ v[1] \in Recent(s, within) /\ v[2] \in Nat /\ v[2] >= 1 /\ v[2] <= Weight(w, s[v[1]])
      BY DEF Units
    <3>2. <<v[1] - d, v[2]>> \in New /\ (v[1] - d) + d = v[1]
      BY <1>4, <3>1 DEF Units
    <3>3. Move[<<v[1] - d, v[2]>>] = v
      BY <3>1, <3>2
    <3>4. QED
      BY <3>2, <3>3
  <2>2. QED
    BY <2>1
<1>9. IsFiniteSet(New) /\ Cardinality(New) = Total(w, Prune(s), within) /\ Cardinality(Old) = Total(w, s, within)
  BY <1>1, DequeCounts
<1>10. ExistsBijection(New, Old)
  <2>. HIDE DEF New, Old, Move
  <2>1. Move \in Bijection(New, Old)
    BY <1>6, <1>7, <1>8, Fun_IsBij
  <2>2. QED
    BY <2>1, Fun_ExistsBij
<1>11. Cardinality(Old) = Cardinality(New)
  <2>. HIDE DEF New, Old
  <2>1. QED
    BY <1>9, <1>10, FS_Bijection
<1>12. QED
  BY <1>9, <1>11

\* What is charged now counts in every window.
LEMMA ChargeAdds ==
  ASSUME NEW s \in Deque, NEW tx \in Transaction, tx.age = 0, NEW w \in Window, NEW within \in Nat
  PROVE  /\ Append(s, tx) \in Deque
         /\ Total(w, Append(s, tx), within) = Weight(w, tx) + Total(w, s, within)
<1>. DEFINE t == Append(s, tx)
            last == Len(s) + 1
            S == Recent(s, within)
<1>1. /\ Len(s) \in Nat /\ DOMAIN s = 1..Len(s)
      /\ t \in Deque /\ DOMAIN t = 1..last
      /\ t[last] = tx /\ \A i \in 1..Len(s) : t[i] = s[i]
  BY DequeType, AppendProperties DEF Deque
<1>. HIDE DEF t
<1>2. Recent(t, within) = S \cup {last}
  <2>1. ASSUME NEW i \in 1..last PROVE t[i].age <= within <=> i \in S \/ i = last
    <3>1. CASE i = last
      BY <1>1, <3>1
    <3>2. CASE i # last
      <4>1. i \in 1..Len(s)
        BY <1>1, <3>2
      <4>2. QED
        BY <1>1, <3>2, <4>1 DEF Recent
    <3>3. QED
      BY <3>1, <3>2
  <2>2. S \subseteq 1..last /\ last \in 1..last
    BY <1>1 DEF Recent
  <2>3. QED
    BY <1>1, <2>1, <2>2 DEF Recent
<1>3. Units(w, t, S) = Units(w, s, S)
  <2>1. \A i \in S : t[i] = s[i]
    BY <1>1 DEF Recent
  <2>2. ASSUME NEW u PROVE u \in Units(w, t, S) <=> u \in Units(w, s, S)
    BY <2>1 DEF Units
  <2>3. QED
    BY <2>2
<1>4. last \notin S /\ Weight(w, t[last]) \in Nat
  BY <1>1, WeightIsNatural DEF Recent
<1>5. Cardinality(Units(w, t, S \cup {last})) = Weight(w, t[last]) + Cardinality(Units(w, t, S))
  <2>1. IsFiniteSet(Units(w, t, S))
    BY <1>3, DequeCounts
  <2>. HIDE DEF last, S
  <2>2. QED
    BY <1>4, <2>1, UnitsOfOneMore
<1>6. /\ Total(w, t, within) = Cardinality(Units(w, t, Recent(t, within)))
      /\ Total(w, s, within) = Cardinality(Units(w, s, S))
  BY <1>1, DequeCounts
<1>7. Total(w, t, within) = Weight(w, tx) + Total(w, s, within)
  BY <1>1, <1>2, <1>3, <1>5, <1>6
<1>8. QED
  BY <1>1, <1>7 DEF t

LEMMA Lesser ==
  ASSUME NEW a \in Nat, NEW b \in Nat
  PROVE  Min({a, b}) = IF a <= b THEN a ELSE b
  BY Least

\* The deque after a tick.
Aged(s) == [i \in DOMAIN s |-> [s[i] EXCEPT !.age = Min({@ + 1, Day + 1})]]

LEMMA AgingType ==
  ASSUME NEW s \in Deque
  PROVE  /\ Aged(s) \in Deque
         /\ Len(Aged(s)) = Len(s)
         /\ \A i \in 1..Len(s) : /\ Aged(s)[i].cost = s[i].cost
                                 /\ Aged(s)[i].age = IF s[i].age <= Day THEN s[i].age + 1 ELSE Day + 1
<1>1. Len(s) \in Nat /\ DOMAIN s = 1..Len(s) /\ \A i \in 1..Len(s) : s[i] \in Transaction
  BY DequeType
<1>2. ASSUME NEW tx \in Transaction
      PROVE  LET old == [tx EXCEPT !.age = Min({@ + 1, Day + 1})]
             IN  /\ old \in Transaction
                 /\ old.cost = tx.cost
                 /\ old.age = IF tx.age <= Day THEN tx.age + 1 ELSE Day + 1
  <2>1. tx = [age |-> tx.age, cost |-> tx.cost] /\ tx.age \in 0..(Day + 1) /\ tx.cost \in Nat /\ Day \in Nat
    BY BudgetAssumption DEF Transaction
  <2>2. [tx EXCEPT !.age = Min({@ + 1, Day + 1})] = [age |-> Min({tx.age + 1, Day + 1}), cost |-> tx.cost]
    BY <2>1
  <2>3. Min({tx.age + 1, Day + 1}) = IF tx.age <= Day THEN tx.age + 1 ELSE Day + 1
    BY <2>1, Lesser
  <2>4. (IF tx.age <= Day THEN tx.age + 1 ELSE Day + 1) \in 0..(Day + 1)
    BY <2>1
  <2>5. QED
    BY <2>1, <2>2, <2>3, <2>4 DEF Transaction
<1>3. /\ DOMAIN Aged(s) = 1..Len(s)
      /\ \A i \in 1..Len(s) : Aged(s)[i] = [s[i] EXCEPT !.age = Min({@ + 1, Day + 1})]
  BY <1>1 DEF Aged
<1>4. \A i \in 1..Len(s) : /\ Aged(s)[i] \in Transaction
                           /\ Aged(s)[i].cost = s[i].cost
                           /\ Aged(s)[i].age = IF s[i].age <= Day THEN s[i].age + 1 ELSE Day + 1
  BY <1>1, <1>2, <1>3
<1>5. Aged(s) \in [1..Len(s) -> Transaction]
  BY <1>3, <1>4 DEF Aged
<1>6. QED
  BY <1>1, <1>4, <1>5 DEF Deque

\* As time passes totals only lose.
LEMMA AgingLoses ==
  ASSUME NEW s \in Deque, NEW w \in Window, NEW within \in Nat, within <= Day
  PROVE  Total(w, Aged(s), within) <= Total(w, s, within)
<1>. DEFINE New == Units(w, Aged(s), Recent(Aged(s), within))
            Old == Units(w, s, Recent(s, within))
<1>1. ASSUME NEW i \in Recent(Aged(s), within)
      PROVE  i \in Recent(s, within) /\ Weight(w, Aged(s)[i]) = Weight(w, s[i])
  <2>1. i \in 1..Len(s) /\ i \in DOMAIN s /\ Aged(s)[i].age <= within
    BY AgingType, DequeType DEF Recent, Deque
  <2>2. s[i].age \in Int /\ s[i].age <= within
    BY <2>1, AgingType, DequeType, BudgetAssumption
  <2>3. Weight(w, Aged(s)[i]) = Weight(w, s[i])
    BY <2>1, AgingType DEF Weight
  <2>4. QED
    BY <2>1, <2>2, <2>3 DEF Recent
<1>2. New \in SUBSET Old
  BY <1>1 DEF Units
<1>3. /\ IsFiniteSet(Old)
      /\ Cardinality(New) = Total(w, Aged(s), within)
      /\ Cardinality(Old) = Total(w, s, within)
  BY AgingType, DequeCounts
<1>4. Cardinality(New) <= Cardinality(Old)
  <2>. HIDE DEF New, Old
  <2>1. QED
    BY <1>2, <1>3, FS_Subset
<1>5. QED
  BY <1>3, <1>4

\* The oldest come first.
Ordered(s) == \A i, j \in 1..Len(s) : i <= j => s[j].age <= s[i].age

\* Whatever is done to a deque, it stays in the order of age.
LEMMA StaysOrdered ==
  ASSUME NEW s \in Deque, Ordered(s)
  PROVE  /\ Ordered(Prune(s))
         /\ Ordered(Aged(s))
         /\ \A tx \in Transaction : tx.age = 0 => Ordered(Append(s, tx))
<1>1. Len(s) \in Nat /\ \A i \in 1..Len(s) : s[i].age \in Int /\ s[i].age <= Day + 1 /\ s[i].age >= 0
  BY DequeType DEF Transaction
<1>2. Ordered(Prune(s))
  <2>1. PICK d \in 0..Len(s) : /\ Len(Prune(s)) = Len(s) - d
                               /\ \A i \in 1..Len(Prune(s)) : Prune(s)[i] = s[i + d]
    BY Pruned
  <2>2. \A i \in 1..Len(Prune(s)) : i + d \in 1..Len(s)
    BY <1>1, <2>1
  <2>3. ASSUME NEW i \in 1..Len(Prune(s)), NEW j \in 1..Len(Prune(s)), i <= j
        PROVE  Prune(s)[j].age <= Prune(s)[i].age
    <3>1. i + d <= j + d
      BY <2>3
    <3>2. QED
      BY <2>1, <2>2, <3>1 DEF Ordered
  <2>4. QED
    BY <2>3 DEF Ordered
<1>3. Ordered(Aged(s))
  BY <1>1, AgingType, BudgetAssumption DEF Ordered
<1>4. ASSUME NEW tx \in Transaction, tx.age = 0 PROVE Ordered(Append(s, tx))
  <2>1. /\ Len(Append(s, tx)) = Len(s) + 1
        /\ \A i \in 1..Len(s) : Append(s, tx)[i] = s[i]
        /\ Append(s, tx)[Len(s) + 1] = tx
    BY AppendProperties DEF Deque
  <2>2. QED
    BY <1>1, <1>4, <2>1 DEF Ordered
<1>5. QED
  BY <1>2, <1>3, <1>4

\* Of a deque in order, pruning leaves the last day and nothing else.
LEMMA PrunedIsTheDay ==
  ASSUME NEW s \in Deque, Ordered(s)
  PROVE  Total("day", Prune(s), Day + 1) = Total("day", s, Day)
<1>. DEFINE p == Prune(s)
<1>1. p \in Deque /\ Ordered(p) /\ (p # << >> => p[1].age <= Day)
  BY Pruned, StaysOrdered
<1>. HIDE DEF p
<1>2. /\ Len(p) \in Nat /\ DOMAIN p = 1..Len(p)
      /\ \A i \in 1..Len(p) : p[i].age \in Int
      /\ Day \in Nat
  BY <1>1, DequeType, BudgetAssumption
<1>3. \A i \in 1..Len(p) : p[i].age <= Day
  <2>1. ASSUME NEW i \in 1..Len(p) PROVE p[i].age <= Day
    <3>1. p # << >> /\ 1 \in 1..Len(p) /\ 1 <= i
      BY <1>2
    <3>2. p[i].age <= p[1].age /\ p[1].age <= Day
      BY <1>1, <3>1 DEF Ordered
    <3>3. QED
      BY <1>2, <3>1, <3>2
  <2>2. QED
    BY <2>1
<1>4. Recent(p, Day + 1) = Recent(p, Day)
  BY <1>2, <1>3 DEF Recent
<1>5. "day" \in Window /\ Day \in Nat /\ Day <= Day /\ Day \in Int /\ Day + 1 \in Int
  BY BudgetAssumption DEF Window
<1>6. Total("day", p, Day + 1) = Total("day", p, Day)
  BY <1>1, <1>4, <1>5, DequeCounts
<1>7. Total("day", p, Day) = Total("day", s, Day)
  BY <1>5, PruningKeepsTotals DEF p
<1>8. QED
  BY <1>6, <1>7 DEF p

-----------------------------------------------------------------------------
(* The gate: what may still be charged to requests in flight is part of    *)
(* the bound.                                                              *)

(* Multiplication by a natural number, as far as it is needed here. *)
LEMMA Times ==
  ASSUME NEW w \in Nat, NEW k \in Nat
  PROVE  /\ w * k \in Nat
         /\ w * (k + 1) = w * k + w
         /\ \A n \in Nat : k <= n => w * k <= w * n
<1>1. w * k \in Nat /\ w * (k + 1) = w * k + w
  OBVIOUS
<1>2. ASSUME NEW n \in Nat, k <= n PROVE w * k <= w * n
  <2>1. PICK d \in Nat : n = k + d
    <3>1. n - k \in Nat /\ n = k + (n - k)
      BY <1>2
    <3>2. QED
      BY <3>1
  <2>2. w * n = w * k + w * d /\ w * d \in Nat /\ w * k \in Nat
    BY <2>1
  <2>3. QED
    BY <2>2
<1>3. QED
  BY <1>1, <1>2

(* What requests of at most weight W owe while they are in flight. *)
LEMMA Owing ==
  ASSUME NEW W \in Nat, NEW S \in SUBSET Request
  PROVE  /\ W * Cardinality(S) \in Nat
         /\ W * Cardinality(Request) \in Nat
         /\ W * Cardinality(S) <= W * Cardinality(Request)
         /\ \A r \in S : W * Cardinality(S) = W * Cardinality(S \ {r}) + W
<1>1. IsFiniteSet(Request)
  BY BudgetAssumption
<1>2. /\ IsFiniteSet(S)
      /\ Cardinality(S) \in Nat
      /\ Cardinality(Request) \in Nat
      /\ Cardinality(S) <= Cardinality(Request)
  BY <1>1, FS_Subset, FS_CardinalityType
<1>3. ASSUME NEW r \in S PROVE W * Cardinality(S) = W * Cardinality(S \ {r}) + W
  <2>1. Cardinality(S \ {r}) = Cardinality(S) - 1 /\ Cardinality(S \ {r}) \in Nat
    BY <1>2, FS_RemoveElement, FS_CardinalityType
  <2>2. Cardinality(S) = Cardinality(S \ {r}) + 1
    BY <1>2, <2>1
  <2>3. QED
    BY <2>1, <2>2, Times
<1>4. QED
  BY <1>2, <1>3, Times

Covered(l, u, S, o, W) ==
    \/ u + W * Cardinality(S) <= l + W * Cardinality(Request)
    \/ u + W * Cardinality(S) <= o

(* The bound holds when a limit is set; usage that does not grow, charges  *)
(* of what was in flight, and admissions within the limit keep it.         *)
LEMMA CoverKept ==
  ASSUME NEW W \in Nat, NEW S \in SUBSET Request, NEW T \in SUBSET Request,
         NEW l \in Nat, NEW o \in Nat, NEW u \in Nat, NEW v \in Nat,
         Covered(l, u, S, o, W),
         \/ S = T /\ v <= u
         \/ \E r \in S : T = S \ {r} /\ v <= u + W
         \/ u <= l /\ v = u
  PROVE  Covered(l, v, T, o, W)
<1>. DEFINE s == W * Cardinality(S)
            t == W * Cardinality(T)
            n == W * Cardinality(Request)
<1>1. s \in Nat /\ t \in Nat /\ n \in Nat /\ t <= n /\ \A r \in S : s = W * Cardinality(S \ {r}) + W
  BY Owing
<1>2. (u + s <= l + n \/ u + s <= o) => (v + t <= l + n \/ v + t <= o)
  <2>1. CASE S = T /\ v <= u
    <3>1. s = t
      BY <2>1
    <3>. HIDE DEF s, t, n
    <3>2. QED
      BY <1>1, <2>1, <3>1
  <2>2. CASE \E r \in S : T = S \ {r} /\ v <= u + W
    <3>1. s = t + W /\ v <= u + W
      BY <1>1, <2>2
    <3>. HIDE DEF s, t, n
    <3>2. QED
      BY <1>1, <3>1
  <2>3. CASE u <= l /\ v = u
    <3>. HIDE DEF s, t, n
    <3>1. QED
      BY <1>1, <2>3
  <2>4. QED
    BY <2>1, <2>2, <2>3
<1>3. QED
  BY <1>2 DEF Covered

(* What is covered overshoots by no more than a charge per request. *)
LEMMA CoverBounds ==
  ASSUME NEW W \in Nat, NEW S \in SUBSET Request, NEW l \in Nat, NEW o \in Nat, NEW u \in Nat,
         Covered(l, u, S, o, W)
  PROVE  u <= l + W * Cardinality(Request) \/ u <= o
<1>1. PICK s \in Nat, n \in Nat : s = W * Cardinality(S) /\ n = W * Cardinality(Request)
  BY Owing
<1>2. u + s <= l + n \/ u + s <= o
  BY <1>1, Zenon DEF Covered
<1>3. u <= l + n \/ u <= o
  BY <1>2
<1>4. QED
  BY <1>1, <1>3

-----------------------------------------------------------------------------
(* Any gate. *)

CONSTANTS MaxWeight, Limit, NoLimit
VARIABLES limit, usage, inflight, promised

AnyGate == INSTANCE SpendGate WITH owed <- promised

\* An instance has its own names for the operators on finite sets.
LEMMA AnyGateNames ==
  ASSUME NEW S
  PROVE  AnyGate!Cardinality(S) = Cardinality(S) /\ (AnyGate!IsFiniteSet(S) <=> IsFiniteSet(S))
  BY DEF Cardinality, AnyGate!Cardinality, IsFiniteSet, AnyGate!IsFiniteSet

GateInv ==
    /\ AnyGate!TypeOK
    /\ limit # NoLimit => Covered(limit, usage, inflight, promised, MaxWeight)

LEMMA GateStep ==
  ASSUME AnyGate!GateAssumption, GateInv, [AnyGate!Next]_(AnyGate!vars)
  PROVE  GateInv'
<1>. USE DEF AnyGate!GateAssumption
<1>1. /\ limit \in Limit \cup {NoLimit} /\ usage \in Nat /\ promised \in Nat
      /\ inflight \in SUBSET Request /\ MaxWeight \in Nat
      /\ limit # NoLimit => limit \in Nat
      /\ AnyGate!Outstanding \in Nat
  BY Owing, AnyGateNames DEF GateInv, AnyGate!TypeOK, AnyGate!Outstanding
<1>2. ASSUME NEW l \in Limit, AnyGate!SetLimit(l) PROVE GateInv'
  <2>1. limit' = l /\ promised' = usage + AnyGate!Outstanding /\ usage' = usage /\ inflight' = inflight
    BY <1>2 DEF AnyGate!SetLimit
  <2>2. usage + AnyGate!Outstanding \in Nat
    BY <1>1
  <2>3. AnyGate!TypeOK'
    BY <1>1, <2>1, <2>2 DEF AnyGate!TypeOK
  <2>4. usage' + MaxWeight * Cardinality(inflight') <= promised'
    BY <2>1, <2>2, AnyGateNames DEF AnyGate!Outstanding
  <2>5. QED
    BY <2>3, <2>4 DEF GateInv, Covered
<1>3. ASSUME limit' = limit, promised' = promised, inflight' \in SUBSET Request, usage' \in Nat,
             limit # NoLimit => \/ inflight = inflight' /\ usage' <= usage
                                \/ \E r \in inflight : inflight' = inflight \ {r} /\ usage' <= usage + MaxWeight
                                \/ usage <= limit /\ usage' = usage
      PROVE  GateInv'
  <2>1. AnyGate!TypeOK'
    BY <1>1, <1>3 DEF AnyGate!TypeOK
  <2>2. limit # NoLimit => Covered(limit, usage', inflight', promised, MaxWeight)
    BY <1>1, <1>3, CoverKept DEF GateInv
  <2>3. QED
    BY <1>3, <2>1, <2>2 DEF GateInv
<1>4. ASSUME NEW r \in Request, AnyGate!Admit(r) PROVE GateInv'
  BY <1>1, <1>3, <1>4 DEF AnyGate!Admit
<1>5. ASSUME NEW r \in Request, NEW x \in 0..MaxWeight, AnyGate!Charge(r, x) PROVE GateInv'
  BY <1>1, <1>3, <1>5 DEF AnyGate!Charge
<1>6. ASSUME NEW r \in Request, AnyGate!Waive(r) PROVE GateInv'
  BY <1>1, <1>3, <1>6 DEF AnyGate!Waive
<1>7. ASSUME NEW u \in 0..usage, AnyGate!Slide(u) PROVE GateInv'
  BY <1>1, <1>3, <1>7 DEF AnyGate!Slide
<1>8. CASE UNCHANGED AnyGate!vars
  BY <1>1, <1>3, <1>8 DEF AnyGate!vars
<1>9. QED
  BY <1>2, <1>4, <1>5, <1>6, <1>7, <1>8 DEF AnyGate!Next

LEMMA GateInvariant == ASSUME AnyGate!GateAssumption PROVE AnyGate!Spec => []GateInv
<1>1. AnyGate!Init => GateInv
  BY DEF AnyGate!Init, GateInv, AnyGate!TypeOK
<1>2. GateInv /\ [AnyGate!Next]_(AnyGate!vars) => GateInv'
  BY GateStep
<1>3. QED
  BY <1>1, <1>2, PTL DEF AnyGate!Spec

(* The limit, the usage and the requests in flight of a gate keep their types. *)
THEOREM GateTypeCorrect == ASSUME AnyGate!GateAssumption PROVE AnyGate!Spec => []AnyGate!TypeOK
<1>1. GateInv => AnyGate!TypeOK
  BY DEF GateInv
<1>2. QED
  BY <1>1, GateInvariant, PTL

(* Usage exceeds a gate's limit by at most one charge per concurrent       *)
(* request, beyond what was used or outstanding when the limit was set.    *)
THEOREM GateOvershoots == ASSUME AnyGate!GateAssumption PROVE AnyGate!Spec => []AnyGate!OvershootBounded
<1>1. GateInv => AnyGate!OvershootBounded
  <2>1. GateInv /\ limit # NoLimit => /\ limit \in Nat /\ usage \in Nat /\ promised \in Nat /\ MaxWeight \in Nat
                                      /\ inflight \in SUBSET Request
    BY DEF GateInv, AnyGate!TypeOK, AnyGate!GateAssumption
  <2>2. QED
    BY <2>1, CoverBounds, AnyGateNames DEF GateInv, AnyGate!OvershootBounded, AnyGate!Overshoot
<1>2. QED
  BY <1>1, GateInvariant, PTL

-----------------------------------------------------------------------------
(* The limiter. *)

\* The limits are numbers; that of the minute is one less than the calls in it.
LEMMA Limits ==
  ASSUME NEW b \in ServiceBudget
  PROVE  /\ LimitOf("minute", b) = b.rpm - 1 /\ LimitOf("hour", b) = b.hourly /\ LimitOf("day", b) = b.daily
         /\ \A w \in Window : LimitOf(w, b) \in Nat
<1>1. LimitOf("minute", b) = b.rpm - 1 /\ LimitOf("hour", b) = b.hourly /\ LimitOf("day", b) = b.daily
  BY Zenon DEF LimitOf
<1>2. b.rpm - 1 \in Nat /\ b.hourly \in Nat /\ b.daily \in Nat
  BY DEF ServiceBudget
<1>3. \A w \in Window : w = "minute" \/ w = "hour" \/ w = "day"
  BY DEF Window
<1>4. QED
  BY <1>1, <1>2, <1>3, Zenon

LEMMA Lengths == Length("minute") = Minute /\ Length("hour") = Hour /\ Length("day") = Day
  BY Zenon DEF Length

LEMMA Greater ==
  ASSUME NEW c \in Int
  PROVE  Max({c, 0}) = IF c >= 0 THEN c ELSE 0
<1>1. {c, 0} \in SUBSET Int /\ IsFiniteSet({c, 0}) /\ {c, 0} # {}
  <2>1. IsFiniteSet({c} \cup {0})
    BY FS_Singleton, FS_AddElement
  <2>2. {c} \cup {0} = {c, 0}
    OBVIOUS
  <2>3. QED
    BY <2>1, <2>2
<1>2. Max({c, 0}) \in {c, 0} /\ c <= Max({c, 0}) /\ 0 <= Max({c, 0})
  BY <1>1, Greatest
<1>3. QED
  BY <1>2

\* The charge for an answer weighs no more than the most an answer can cost.
LEMMA Charges ==
  /\ \A w \in Window : MaxCharge(w) \in Nat
  /\ \A c \in Cost : /\ [age |-> 0, cost |-> Max({c, 0})] \in Transaction
                     /\ \A w \in Window :
                           Weight(w, [age |-> 0, cost |-> Max({c, 0})]) \in 0..MaxCharge(w)
<1>1. Cost \cup {0} \in SUBSET Int /\ IsFiniteSet(Cost \cup {0}) /\ 0 \in Cost \cup {0}
  BY BudgetAssumption, FS_AddElement
<1>2. PICK m : m = Max(Cost \cup {0}) /\ m \in Nat /\ \A c \in Cost : c <= m
  <2>1. Max(Cost \cup {0}) \in Cost \cup {0} /\ \A c \in Cost \cup {0} : c <= Max(Cost \cup {0})
    BY <1>1, Greatest
  <2>2. QED
    BY <1>1, <2>1
<1>3. \A w \in Window : MaxCharge(w) = IF w = "minute" THEN 1 ELSE m
  BY <1>2 DEF MaxCharge
<1>4. ASSUME NEW c \in Cost PROVE Max({c, 0}) \in Nat /\ Max({c, 0}) <= m
  BY <1>2, Greater, BudgetAssumption
<1>5. ASSUME NEW c \in Cost
      PROVE  /\ [age |-> 0, cost |-> Max({c, 0})] \in Transaction
             /\ \A w \in Window :
                   Weight(w, [age |-> 0, cost |-> Max({c, 0})]) \in 0..MaxCharge(w)
  <2>. DEFINE x == Max({c, 0})
  <2>1. x \in Nat /\ x <= m
    BY <1>4
  <2>. HIDE DEF x
  <2>2. [age |-> 0, cost |-> x] \in Transaction
    BY <2>1, BudgetAssumption DEF Transaction
  <2>3. \A w \in Window : Weight(w, [age |-> 0, cost |-> x]) = IF w = "minute" THEN 1 ELSE x
    BY DEF Weight
  <2>4. \A w \in Window : Weight(w, [age |-> 0, cost |-> x]) \in 0..MaxCharge(w)
    BY <1>2, <1>3, <2>1, <2>3
  <2>5. QED
    BY <2>2, <2>4 DEF x
<1>6. QED
  BY <1>2, <1>3, <1>5

LEMMA Amounts ==
  ASSUME TypeOK, NEW w \in Window
  PROVE  /\ txs \in Deque
         /\ Usage(w) \in Nat
         /\ owed[w] \in Nat
         /\ Inflight \in SUBSET Request
         /\ Outstanding(w) \in Nat
         /\ Usage(w) + Outstanding(w) \in Nat
         /\ budget # NoBudget => LimitOf(w, budget) \in Nat
<1>1. txs \in Deque /\ owed[w] \in Nat /\ Inflight \in SUBSET Request
  BY DEF TypeOK, Deque, Inflight
<1>2. Usage(w) \in Nat
  BY <1>1, LengthIsNatural, DequeCounts DEF Usage
<1>3. Outstanding(w) \in Nat
  BY <1>1, Charges, Owing DEF Outstanding
<1>4. budget # NoBudget => LimitOf(w, budget) \in Nat
  BY Limits, BudgetAssumption DEF TypeOK
<1>5. QED
  BY <1>1, <1>2, <1>3, <1>4

\* Pruning changes no window's usage.
LEMMA PruningKeepsUsage ==
  ASSUME NEW s \in Deque, NEW w \in Window
  PROVE  Prune(s) \in Deque /\ Total(w, Prune(s), Length(w)) = Total(w, s, Length(w))
  BY Pruned, PruningKeepsTotals, LengthIsNatural

\* What check_budget adds up is the usage of the windows.
LEMMA CheckedIsUsage ==
  ASSUME TypeOK, Ordered(txs)
  PROVE  count_1m = Usage("minute") /\ spend_1h = Usage("hour") /\ spend_24h = Usage("day")
<1>1. txs \in Deque /\ "minute" \in Window /\ "hour" \in Window
  BY DEF TypeOK, Deque, Window
<1>2. count_1m = Usage("minute") /\ spend_1h = Usage("hour")
  BY <1>1, Lengths, PruningKeepsUsage DEF count_1m, spend_1h, Usage
<1>3. spend_24h = Usage("day")
  BY <1>1, Lengths, PrunedIsTheDay DEF spend_24h, Usage
<1>4. QED
  BY <1>2, <1>3

-----------------------------------------------------------------------------
(* The deque keeps its order, so that the prefix that pruning drops is     *)
(* exactly what is too old.                                                *)

IInv == TypeOK /\ Ordered(txs)

LEMMA StepIInv ==
  ASSUME IInv, [Next]_vars
  PROVE  IInv'
<1>0. txs \in Deque /\ Prune(txs) \in Deque /\ Ordered(Prune(txs)) /\ Ordered(txs)
  BY Pruned, StaysOrdered DEF IInv, TypeOK, Deque
<1>1. ASSUME txs' \in Deque, Ordered(txs'), budget' = budget, owed' = owed,
             status' \in [Request -> {"idle", "forwarding", "rate_limited", "budget_exhausted"}]
      PROVE  IInv'
  BY <1>1 DEF IInv, TypeOK, Deque
<1>2. ASSUME NEW b \in Budget, SetBudget(b) PROVE IInv'
  <2>1. owed' \in [Window -> Nat]
    <3>1. \A w \in Window : Usage(w) + Outstanding(w) \in Nat
      BY Amounts DEF IInv
    <3>2. owed' = [w \in Window |-> Usage(w) + Outstanding(w)]
      BY <1>2 DEF SetBudget
    <3>3. QED
      BY <3>1, <3>2
  <2>2. budget' \in Budget \cup {NoBudget} /\ UNCHANGED <<txs, status>>
    BY <1>2 DEF SetBudget
  <2>3. QED
    BY <1>0, <2>1, <2>2 DEF IInv, TypeOK, Deque
<1>3. ASSUME NEW r \in Request, Admit(r) \/ RejectRate(r) \/ RejectSpend(r) PROVE IInv'
  <2>1. txs' \in {txs, Prune(txs)}
    BY <1>3 DEF Admit, RejectRate, RejectSpend, PruneOnCheck
  <2>2. UNCHANGED <<budget, owed>>
    BY <1>3 DEF Admit, RejectRate, RejectSpend
  <2>3. status' \in [Request -> {"idle", "forwarding", "rate_limited", "budget_exhausted"}]
    BY <1>3 DEF Admit, RejectRate, RejectSpend, IInv, TypeOK
  <2>4. QED
    BY <1>0, <1>1, <2>1, <2>2, <2>3
<1>4. ASSUME NEW r \in Request, Record(r) PROVE IInv'
  <2>1. PICK c \in Cost : txs' = Append(Prune(txs), [age |-> 0, cost |-> Max({c, 0})])
    BY <1>4 DEF Record
  <2>. DEFINE tx == [age |-> 0, cost |-> Max({c, 0})]
  <2>2. tx \in Transaction /\ tx.age = 0 /\ 0 \in Nat /\ "day" \in Window
    BY Charges DEF Window
  <2>. HIDE DEF tx
  <2>3. Append(Prune(txs), tx) \in Deque /\ Ordered(Append(Prune(txs), tx))
    BY <1>0, <2>2, ChargeAdds, StaysOrdered
  <2>4. txs' \in Deque /\ Ordered(txs')
    BY <2>1, <2>3 DEF tx
  <2>5. /\ UNCHANGED <<budget, owed>>
        /\ status' \in [Request -> {"idle", "forwarding", "rate_limited", "budget_exhausted"}]
    BY <1>4 DEF Record, IInv, TypeOK
  <2>6. QED
    BY <1>1, <2>4, <2>5
<1>5. ASSUME NEW r \in Request, End(r) PROVE IInv'
  BY <1>0, <1>1, <1>5 DEF End, IInv, TypeOK
<1>6. CASE GetMetrics
  BY <1>0, <1>1, <1>6 DEF GetMetrics, IInv, TypeOK
<1>7. CASE Tick
  <2>1. txs' = Aged(txs)
    BY <1>7 DEF Tick, Aged
  <2>2. Aged(txs) \in Deque /\ Ordered(Aged(txs))
    BY <1>0, AgingType, StaysOrdered
  <2>3. QED
    BY <1>1, <1>7, <2>1, <2>2 DEF Tick, IInv, TypeOK
<1>8. CASE UNCHANGED vars
  BY <1>8 DEF vars, IInv, TypeOK, Ordered
<1>9. QED
  BY <1>2, <1>3, <1>4, <1>5, <1>6, <1>7, <1>8 DEF Next

LEMMA InitIInv == Init => IInv
<1>1. << >> \in Seq(Transaction) /\ Ordered(<< >>)
  BY DEF Ordered
<1>2. QED
  BY <1>1 DEF Init, IInv, TypeOK

LEMMA IInvariant == Spec => []IInv
  BY InitIInv, StepIInv, PTL DEF Spec

(* The budget, the deque, the requests and what was owed keep their types. *)
THEOREM TypeCorrect == Spec => []TypeOK
<1>1. IInv => TypeOK
  BY DEF IInv
<1>2. QED
  BY <1>1, IInvariant, PTL

(* The sum over the whole pruned deque, which check_budget takes for the   *)
(* day's spend, is what was spent in the last day.                         *)
THEOREM DailySpendsExactly == Spec => []DailySpendIsExact
<1>1. IInv => DailySpendIsExact
  BY CheckedIsUsage DEF IInv, DailySpendIsExact
<1>2. QED
  BY <1>1, IInvariant, PTL

-----------------------------------------------------------------------------
(* Each window is a gate. *)

Gate(w) == INSTANCE SpendGate WITH
    limit <- CurrentLimit(w), usage <- Usage(w), inflight <- Inflight, owed <- owed[w],
    MaxWeight <- MaxCharge(w), Limit <- LimitsOf(w), NoLimit <- NoBudget

\* An instance has its own names for the operators on finite sets.
LEMMA GateNames ==
  ASSUME NEW S
  PROVE  /\ MinuteGate!Cardinality(S) = Cardinality(S)
         /\ HourGate!Cardinality(S) = Cardinality(S)
         /\ DayGate!Cardinality(S) = Cardinality(S)
         /\ \A w \in Window : Gate(w)!Cardinality(S) = Cardinality(S)
  BY DEF Cardinality, MinuteGate!Cardinality, HourGate!Cardinality, DayGate!Cardinality, Gate!Cardinality

\* What is admitted is within every limit.
LEMMA AdmissionIsWithinLimits ==
  ASSUME IInv, Admissible, budget # NoBudget, NEW w \in Window
  PROVE  Usage(w) <= LimitOf(w, budget)
<1>1. /\ Usage("minute") \in Nat /\ Usage("hour") \in Nat /\ Usage("day") \in Nat
      /\ count_1m = Usage("minute") /\ spend_1h = Usage("hour") /\ spend_24h = Usage("day")
  BY Amounts, CheckedIsUsage DEF IInv, Window
<1>2. budget \in ServiceBudget
  BY BudgetAssumption DEF IInv, TypeOK
<1>3. budget.rpm \in Nat /\ budget.hourly \in Nat /\ budget.daily \in Nat
  BY <1>2 DEF ServiceBudget
<1>4. /\ ~ (Usage("minute") >= budget.rpm)
      /\ ~ (Usage("hour") > budget.hourly)
      /\ ~ (Usage("day") > budget.daily)
  BY <1>1 DEF Admissible, RateExceeded, HourlyExceeded, DailyExceeded
<1>5. /\ Usage("minute") <= budget.rpm - 1
      /\ Usage("hour") <= budget.hourly
      /\ Usage("day") <= budget.daily
  BY <1>1, <1>3, <1>4
<1>6. w = "minute" \/ w = "hour" \/ w = "day"
  BY DEF Window
<1>7. QED
  BY <1>2, <1>5, <1>6, Limits, Zenon

\* A step of the limiter is a step of each window's gate, or none of it.
LEMMA StepGate ==
  ASSUME IInv, [Next]_vars, NEW w \in Window
  PROVE  [Gate(w)!Next]_(Gate(w)!vars)
<1>0. /\ txs \in Deque /\ Prune(txs) \in Deque /\ Usage(w) \in Nat /\ Inflight \in SUBSET Request
      /\ Total(w, Prune(txs), Length(w)) = Usage(w)
      /\ status \in [Request -> {"idle", "forwarding", "rate_limited", "budget_exhausted"}]
  BY Amounts, PruningKeepsUsage DEF IInv, TypeOK, Usage
<1>1. ASSUME txs' \in {txs, Prune(txs)} PROVE Usage(w)' = Usage(w)
  BY <1>0, <1>1 DEF Usage
<1>2. ASSUME UNCHANGED <<budget, owed>>, Usage(w)' = Usage(w), Inflight' = Inflight
      PROVE  UNCHANGED Gate(w)!vars
  BY <1>2 DEF Gate!vars, CurrentLimit, LimitOf
<1>3. ASSUME NEW b \in Budget, SetBudget(b) PROVE Gate(w)!Next
  <2>1. budget' = b /\ UNCHANGED <<txs, status>> /\ b # NoBudget
    BY <1>3, BudgetAssumption DEF SetBudget
  <2>2. CurrentLimit(w)' = LimitOf(w, b) /\ LimitOf(w, b) \in LimitsOf(w)
    BY <2>1 DEF CurrentLimit, LimitsOf
  <2>3. owed'[w] = Usage(w) + Outstanding(w)
    BY <1>3 DEF SetBudget
  <2>4. Usage(w)' = Usage(w) /\ Inflight' = Inflight
    BY <2>1 DEF Usage, Inflight
  <2>5. Gate(w)!SetLimit(LimitOf(w, b))
    BY <2>2, <2>3, <2>4, GateNames DEF Gate!SetLimit, Gate!Outstanding, Outstanding
  <2>6. QED
    BY <2>2, <2>5 DEF Gate!Next
<1>4. ASSUME NEW r \in Request, Admit(r) PROVE Gate(w)!Next
  <2>1. /\ UNCHANGED <<budget, owed>> /\ txs' \in {txs, Prune(txs)}
        /\ r \notin Inflight /\ Inflight' = Inflight \cup {r}
    BY <1>0, <1>4 DEF Admit, PruneOnCheck, Inflight
  <2>2. CurrentLimit(w) # NoBudget => Usage(w) <= CurrentLimit(w)
    BY <1>4, AdmissionIsWithinLimits DEF Admit, CurrentLimit
  <2>3. Gate(w)!Admit(r)
    BY <1>1, <2>1, <2>2 DEF Gate!Admit, CurrentLimit
  <2>4. QED
    BY <2>3 DEF Gate!Next
<1>5. ASSUME NEW r \in Request, RejectRate(r) \/ RejectSpend(r) PROVE UNCHANGED Gate(w)!vars
  <2>1. /\ UNCHANGED <<budget, owed>> /\ txs' \in {txs, Prune(txs)}
        /\ Inflight' = Inflight
    BY <1>0, <1>5 DEF RejectRate, RejectSpend, PruneOnCheck, Inflight
  <2>2. QED
    BY <1>1, <1>2, <2>1
<1>6. ASSUME NEW r \in Request, Record(r) PROVE Gate(w)!Next
  <2>1. PICK c \in Cost : txs' = Append(Prune(txs), [age |-> 0, cost |-> Max({c, 0})])
    BY <1>6 DEF Record
  <2>. DEFINE tx == [age |-> 0, cost |-> Max({c, 0})]
  <2>2. tx \in Transaction /\ tx.age = 0 /\ Weight(w, tx) \in 0..MaxCharge(w) /\ Length(w) \in Nat
    BY Charges, LengthIsNatural
  <2>3. txs' = Append(Prune(txs), tx)
    BY <2>1
  <2>. HIDE DEF tx
  <2>4. PICK x \in 0..MaxCharge(w) : x = Weight(w, tx)
    BY <2>2
  <2>5. Usage(w)' = x + Usage(w)
    BY <1>0, <2>2, <2>3, <2>4, ChargeAdds DEF Usage
  <2>6. /\ UNCHANGED <<budget, owed>>
        /\ r \in Inflight /\ Inflight' = Inflight \ {r}
    BY <1>0, <1>6 DEF Record, Inflight
  <2>7. x \in Nat /\ x + Usage(w) = Usage(w) + x
    BY <1>0, Charges
  <2>8. Gate(w)!Charge(r, x)
    BY <2>5, <2>6, <2>7 DEF Gate!Charge, CurrentLimit
  <2>9. QED
    BY <2>8 DEF Gate!Next
<1>7. ASSUME NEW r \in Request, End(r) PROVE Gate(w)!Next
  <2>1. /\ UNCHANGED <<budget, owed, txs>>
        /\ r \in Inflight /\ Inflight' = Inflight \ {r}
    BY <1>0, <1>7 DEF End, Inflight
  <2>2. Gate(w)!Waive(r)
    BY <1>1, <2>1 DEF Gate!Waive, CurrentLimit
  <2>3. QED
    BY <2>2 DEF Gate!Next
<1>8. CASE GetMetrics
  <2>1. UNCHANGED <<budget, owed>> /\ txs' = Prune(txs) /\ Inflight' = Inflight
    BY <1>8 DEF GetMetrics, Inflight
  <2>2. QED
    BY <1>1, <1>2, <2>1
<1>9. CASE Tick
  <2>1. UNCHANGED <<budget, owed>> /\ txs' = Aged(txs) /\ Inflight' = Inflight
    BY <1>9 DEF Tick, Aged, Inflight
  <2>2. Usage(w)' \in 0..Usage(w)
    <3>1. Length(w) \in Nat /\ Length(w) <= Day /\ Length(w) \in Int
      BY LengthIsNatural
    <3>2. Total(w, Aged(txs), Length(w)) <= Total(w, txs, Length(w))
      BY <1>0, <3>1, AgingLoses
    <3>3. Total(w, Aged(txs), Length(w)) \in Nat
      BY <1>0, <3>1, AgingType, DequeCounts
    <3>4. QED
      BY <1>0, <2>1, <3>2, <3>3 DEF Usage
  <2>3. Gate(w)!Slide(Usage(w)')
    BY <1>0, <2>1, <2>2 DEF Gate!Slide, CurrentLimit
  <2>4. QED
    BY <2>2, <2>3 DEF Gate!Next
<1>10. CASE UNCHANGED vars
  BY <1>1, <1>2, <1>10 DEF vars, Inflight
<1>11. QED
  BY <1>3, <1>4, <1>5, <1>6, <1>7, <1>8, <1>9, <1>10 DEF Next

-----------------------------------------------------------------------------
(* Window by window, that is the gate the model names. *)

LEMMA MinuteIsGate ==
  [Gate("minute")!Next]_(Gate("minute")!vars) => [MinuteGate!Next]_(MinuteGate!vars)
<1>1. UNCHANGED Gate("minute")!vars => UNCHANGED MinuteGate!vars
  BY DEF Gate!vars, MinuteGate!vars
<1>2. Gate("minute")!Next => MinuteGate!Next
  BY GateNames, Zenon DEF Window,
     Gate!Next, Gate!SetLimit, Gate!Admit, Gate!Charge, Gate!Waive, Gate!Slide, Gate!Outstanding,
     MinuteGate!Next, MinuteGate!SetLimit, MinuteGate!Admit, MinuteGate!Charge,
     MinuteGate!Waive, MinuteGate!Slide, MinuteGate!Outstanding
<1>3. QED
  BY <1>1, <1>2

LEMMA HourIsGate ==
  [Gate("hour")!Next]_(Gate("hour")!vars) => [HourGate!Next]_(HourGate!vars)
<1>1. UNCHANGED Gate("hour")!vars => UNCHANGED HourGate!vars
  BY DEF Gate!vars, HourGate!vars
<1>2. Gate("hour")!Next => HourGate!Next
  BY GateNames, Zenon DEF Window,
     Gate!Next, Gate!SetLimit, Gate!Admit, Gate!Charge, Gate!Waive, Gate!Slide, Gate!Outstanding,
     HourGate!Next, HourGate!SetLimit, HourGate!Admit, HourGate!Charge,
     HourGate!Waive, HourGate!Slide, HourGate!Outstanding
<1>3. QED
  BY <1>1, <1>2

LEMMA DayIsGate ==
  [Gate("day")!Next]_(Gate("day")!vars) => [DayGate!Next]_(DayGate!vars)
<1>1. UNCHANGED Gate("day")!vars => UNCHANGED DayGate!vars
  BY DEF Gate!vars, DayGate!vars
<1>2. Gate("day")!Next => DayGate!Next
  BY GateNames, Zenon DEF Window,
     Gate!Next, Gate!SetLimit, Gate!Admit, Gate!Charge, Gate!Waive, Gate!Slide, Gate!Outstanding,
     DayGate!Next, DayGate!SetLimit, DayGate!Admit, DayGate!Charge,
     DayGate!Waive, DayGate!Slide, DayGate!Outstanding
<1>3. QED
  BY <1>1, <1>2

(* Each window of the limiter, the calls of a minute, the dollars of an     *)
(* hour and those of a day, is a gate: check_budget admits within the      *)
(* window's limit, record_spend charges at most the window's weight, and   *)
(* time and pruning only let the window slide.                             *)
THEOREM WindowsRefineGates == Spec => WindowsAreGates
<1>1. Init => MinuteGate!Init /\ HourGate!Init /\ DayGate!Init
  <2>1. ASSUME Init PROVE \A w \in Window : Usage(w) = 0 /\ owed[w] = 0 /\ Inflight = {} /\ CurrentLimit(w) = NoBudget
    <3>1. ASSUME NEW w \in Window PROVE Usage(w) = 0
      <4>1. txs = << >> /\ txs \in Deque
        BY <2>1 DEF Init, Deque
      <4>2. Recent(txs, Length(w)) = {}
        BY <4>1 DEF Recent
      <4>3. Length(w) \in Int
        BY LengthIsNatural
      <4>4. Total(w, txs, Length(w)) = Cardinality(Units(w, txs, {}))
        BY <4>1, <4>2, <4>3, DequeCounts
      <4>5. QED
        BY <4>4, NoUnits DEF Usage
    <3>2. QED
      BY <2>1, <3>1 DEF Init, Inflight, CurrentLimit
  <2>2. QED
    BY <2>1 DEF Window, MinuteGate!Init, HourGate!Init, DayGate!Init
<1>2. IInv /\ [Next]_vars => [MinuteGate!Next]_(MinuteGate!vars)
  BY StepGate, MinuteIsGate DEF Window
<1>3. IInv /\ [Next]_vars => [HourGate!Next]_(HourGate!vars)
  BY StepGate, HourIsGate DEF Window
<1>4. IInv /\ [Next]_vars => [DayGate!Next]_(DayGate!vars)
  BY StepGate, DayIsGate DEF Window
<1>5. QED
  BY <1>1, <1>2, <1>3, <1>4, IInvariant, PTL
  DEF Spec, WindowsAreGates, MinuteGate!Spec, HourGate!Spec, DayGate!Spec

(* The gates are what the theorems about any gate are about: their limits  *)
(* and weights are natural numbers, however the service is configured.     *)
LEMMA GatesAssumption ==
  /\ MinuteGate!GateAssumption
  /\ HourGate!GateAssumption
  /\ DayGate!GateAssumption
<1>1. MinuteGate!IsFiniteSet(Request) /\ HourGate!IsFiniteSet(Request) /\ DayGate!IsFiniteSet(Request)
  BY BudgetAssumption DEF IsFiniteSet, MinuteGate!IsFiniteSet, HourGate!IsFiniteSet, DayGate!IsFiniteSet
<1>2. ASSUME NEW w \in Window
      PROVE  MaxCharge(w) \in Nat /\ LimitsOf(w) \subseteq Nat /\ NoBudget \notin Nat
  BY Charges, Limits, BudgetAssumption DEF LimitsOf
<1>3. QED
  BY <1>1, <1>2 DEF Window, MinuteGate!GateAssumption, HourGate!GateAssumption, DayGate!GateAssumption

-----------------------------------------------------------------------------
(* What the service has pledged: in every window, usage and what requests  *)
(* in flight may still be charged are within the limit and one charge per  *)
(* request, or within what was pledged when the limits were set.  The      *)
(* bound on usage alone is not inductive: a charge moves dollars from the  *)
(* requests in flight to the usage.                                        *)

Pledged == \A w \in Window :
    budget # NoBudget => Covered(LimitOf(w, budget), Usage(w), Inflight, owed[w], MaxCharge(w))

LEMMA StepPledged ==
  ASSUME IInv, Pledged, [Next]_vars
  PROVE  Pledged'
<1>1. IInv'
  BY StepIInv
<1>2. SUFFICES ASSUME NEW w \in Window, budget' # NoBudget
               PROVE  Covered(LimitOf(w, budget'), Usage(w)', Inflight', owed'[w], MaxCharge(w))
  BY DEF Pledged, LimitOf, MaxCharge
<1>. DEFINE W == MaxCharge(w)
            S == Inflight
            T == Inflight'
            u == Usage(w)
            v == Usage(w)'
<1>3. /\ u \in Nat /\ S \in SUBSET Request /\ owed[w] \in Nat /\ W \in Nat
      /\ v \in Nat /\ T \in SUBSET Request /\ W * Cardinality(S) \in Nat
      /\ budget # NoBudget => LimitOf(w, budget) \in Nat
  <2>1. /\ u \in Nat /\ S \in SUBSET Request /\ owed[w] \in Nat /\ W \in Nat
        /\ budget # NoBudget => LimitOf(w, budget) \in Nat
    BY Amounts, Charges DEF IInv
  <2>2. txs' \in Deque /\ T \in SUBSET Request
    BY <1>1 DEF IInv, TypeOK, Deque, Inflight
  <2>3. v = Total(w, txs', Length(w))
    BY DEF Usage
  <2>4. v \in Nat
    BY <2>2, <2>3, LengthIsNatural, DequeCounts
  <2>5. W * Cardinality(S) \in Nat
    BY <2>1, Owing
  <2>6. QED
    BY <2>1, <2>2, <2>4, <2>5
\* What is owed anew is covered by it.
<1>4. ASSUME v = u, T = S, owed'[w] = u + W * Cardinality(S)
      PROVE  Covered(LimitOf(w, budget'), v, T, owed'[w], W)
  <2>1. v + W * Cardinality(T) <= owed'[w]
    <3>1. \A n \in Nat : n <= n
      OBVIOUS
    <3>2. u + W * Cardinality(S) \in Nat
      BY <1>3
    <3>3. QED
      BY <1>4, <3>1, <3>2, Zenon
  <2>2. QED
    BY <2>1 DEF Covered
<1>5. CASE \E b \in Budget : SetBudget(b)
  <2>1. owed' = [x \in Window |-> Usage(x) + Outstanding(x)] /\ UNCHANGED <<txs, status>>
    BY <1>5 DEF SetBudget
  <2>2. v = u /\ T = S /\ owed'[w] = u + W * Cardinality(S)
    BY <2>1, Zenon DEF Usage, Inflight, Outstanding
  <2>3. QED
    BY <1>4, <2>2
<1>6. CASE UNCHANGED <<budget, owed>>
  <2>1. Covered(LimitOf(w, budget), u, S, owed[w], W) /\ LimitOf(w, budget) \in Nat
    BY <1>2, <1>3, <1>6 DEF Pledged
  <2>2. CurrentLimit(w) = LimitOf(w, budget)
    BY <1>2, <1>6 DEF CurrentLimit
  <2>3. \/ v = u /\ T = S /\ owed'[w] = u + W * Cardinality(S)
        \/ S = T /\ v <= u
        \/ \E r \in S : T = S \ {r} /\ v <= u + W
        \/ u <= LimitOf(w, budget) /\ v = u
    <3>1. [Gate(w)!Next]_(Gate(w)!vars)
      BY StepGate
    <3>2. ASSUME NEW l \in LimitsOf(w), Gate(w)!SetLimit(l)
          PROVE  v = u /\ T = S /\ owed'[w] = u + W * Cardinality(S)
      BY <3>2, GateNames DEF Gate!SetLimit, Gate!Outstanding
    <3>3. ASSUME NEW r \in Request, Gate(w)!Admit(r) PROVE u <= LimitOf(w, budget) /\ v = u
      BY <1>2, <1>6, <2>1, <2>2, <3>3, BudgetAssumption DEF Gate!Admit
    <3>4. ASSUME NEW r \in Request, NEW x \in 0..W, Gate(w)!Charge(r, x)
          PROVE  r \in S /\ T = S \ {r} /\ v <= u + W
      <4>1. r \in S /\ T = S \ {r} /\ v = u + x
        BY <3>4 DEF Gate!Charge
      <4>2. u + x <= u + W
        BY <1>3
      <4>3. QED
        BY <4>1, <4>2
    <3>5. ASSUME NEW r \in Request, Gate(w)!Waive(r)
          PROVE  r \in S /\ T = S \ {r} /\ v <= u + W
      <4>1. r \in S /\ T = S \ {r} /\ v = u
        BY <3>5 DEF Gate!Waive
      <4>2. u <= u + W
        BY <1>3
      <4>3. QED
        BY <4>1, <4>2
    <3>6. ASSUME NEW a \in 0..u, Gate(w)!Slide(a) PROVE S = T /\ v <= u
      BY <1>3, <3>6 DEF Gate!Slide
    <3>7. CASE UNCHANGED Gate(w)!vars
      <4>1. v = u /\ T = S
        BY <3>7 DEF Gate!vars
      <4>2. u <= u
        BY <1>3
      <4>3. QED
        BY <4>1, <4>2
    <3>8. QED
      BY <3>1, <3>2, <3>3, <3>4, <3>5, <3>6, <3>7 DEF Gate!Next
  <2>4. QED
    BY <1>3, <1>4, <1>6, <2>1, <2>3, CoverKept
<1>7. QED
  <2>1. CASE \E r \in Request : Admit(r) \/ RejectRate(r) \/ RejectSpend(r) \/ Record(r) \/ End(r)
    BY <1>6, <2>1, Zenon DEF Admit, RejectRate, RejectSpend, Record, End
  <2>2. CASE GetMetrics \/ Tick \/ UNCHANGED vars
    BY <1>6, <2>2, Zenon DEF GetMetrics, Tick, vars
  <2>3. QED
    BY <1>5, <2>1, <2>2 DEF Next

\* A pledge bounds the usage of each window.
LEMMA PledgesBound ==
  ASSUME IInv, Pledged
  PROVE  OvershootBounded
<1>1. ASSUME NEW w \in Window, CurrentLimit(w) # NoBudget
      PROVE  \/ Usage(w) <= CurrentLimit(w) + MaxCharge(w) * Cardinality(Request)
             \/ Usage(w) <= owed[w]
  <2>1. budget # NoBudget /\ CurrentLimit(w) = LimitOf(w, budget)
    BY <1>1 DEF CurrentLimit
  <2>2. /\ LimitOf(w, budget) \in Nat /\ Usage(w) \in Nat /\ owed[w] \in Nat /\ MaxCharge(w) \in Nat
        /\ Inflight \in SUBSET Request
    BY <2>1, Amounts, Charges DEF IInv
  <2>3. Covered(LimitOf(w, budget), Usage(w), Inflight, owed[w], MaxCharge(w))
    BY <2>1 DEF Pledged
  <2>4. QED
    BY <2>1, <2>2, <2>3, CoverBounds
<1>2. "minute" \in Window /\ "hour" \in Window /\ "day" \in Window
  BY DEF Window
<1>3. QED
  BY <1>1, <1>2, GateNames DEF OvershootBounded,
     MinuteGate!OvershootBounded, HourGate!OvershootBounded, DayGate!OvershootBounded,
     MinuteGate!Overshoot, HourGate!Overshoot, DayGate!Overshoot

(* However many requests are between check_budget and record_spend, usage  *)
(* exceeds no limit of the service by more than one charge for each of     *)
(* them, beyond what was used or outstanding when set_budget was called.   *)
THEOREM OvershootsByOneChargeEach == Spec => []OvershootBounded
<1>1. Init => Pledged
  BY DEF Init, Pledged
<1>2. IInv /\ Pledged /\ [Next]_vars => Pledged'
  BY StepPledged
<1>3. IInv /\ Pledged => OvershootBounded
  BY PledgesBound
<1>4. QED
  BY <1>1, <1>2, <1>3, IInvariant, PTL DEF Spec

(* A service whose requests do not overlap stays within its calls per      *)
(* minute, to the call: this is what the comparison with >= is for.  Only  *)
(* what was used or outstanding when the budget was set can be more.       *)
THEOREM SerialCallersKeepTheRate ==
  ASSUME NEW r, Request = {r}
  PROVE  Spec => [](budget # NoBudget => \/ Usage("minute") <= budget.rpm
                                         \/ Usage("minute") <= owed["minute"])
<1>. DEFINE Kept == budget # NoBudget => \/ Usage("minute") <= budget.rpm
                                         \/ Usage("minute") <= owed["minute"]
<1>1. IInv /\ OvershootBounded => Kept
  <2>. SUFFICES ASSUME IInv, OvershootBounded, budget # NoBudget
                PROVE  Usage("minute") <= budget.rpm \/ Usage("minute") <= owed["minute"]
    OBVIOUS
  <2>1. budget \in ServiceBudget
    BY BudgetAssumption DEF IInv, TypeOK
  <2>2. CurrentLimit("minute") = budget.rpm - 1 /\ budget.rpm \in Nat /\ budget.rpm - 1 \in Nat
    BY <2>1, Limits DEF CurrentLimit, ServiceBudget
  <2>3. CurrentLimit("minute") # NoBudget
    BY <2>2, BudgetAssumption
  <2>4. MaxCharge("minute") * Cardinality(Request) = 1
    <3>1. Cardinality(Request) = 1
      BY FS_Singleton, Zenon
    <3>2. QED
      BY <3>1 DEF MaxCharge
  <2>5. \/ Usage("minute") <= (budget.rpm - 1) + 1
        \/ Usage("minute") <= owed["minute"]
    BY <2>2, <2>3, <2>4, GateNames DEF OvershootBounded, MinuteGate!OvershootBounded, MinuteGate!Overshoot
  <2>6. (budget.rpm - 1) + 1 = budget.rpm
    BY <2>2
  <2>7. QED
    BY <2>5, <2>6
<1>2. QED
  BY <1>1, IInvariant, OvershootsByOneChargeEach, PTL

==============================================================================
