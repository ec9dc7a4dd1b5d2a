------------------------- MODULE ResponseCacheProofs --------------------------
(* What ResponseCache guarantees for any keys, capacity and times to live. *)
EXTENDS ResponseCache, FiniteSetTheorems, TLAPS

(* Whatever else is cached is older than an entry or was used since it.    *)
Recency ==
  \A k \in Cached :
    /\ k \notin usedSince[k]
    /\ \A j \in Cached \ {k} : j \in older[k] \cup usedSince[k]

(* The age of an entry is the time since it was stored.                    *)
AgeIsTrue == \A k \in Cached : entry[k].age = sinceSet[k]

IInv == TypeOK /\ Recency /\ AgeIsTrue /\ CapacityHolds /\ KeepsRecent

(* Sets of keys are finite. *)
LEMMA KeysAreCounted ==
  ASSUME NEW S \in SUBSET Key
  PROVE  /\ IsFiniteSet(S)
         /\ Cardinality(S) \in Nat
         /\ \A T \in SUBSET S : Cardinality(T) <= Cardinality(S)
  BY CacheAssumption, FS_Subset, FS_CardinalityType

(* Using a key only adds to what was used since the others. *)
LEMMA UseAdds ==
  ASSUME TypeOK, NEW k \in Key, Use(k)
  PROVE  /\ usedSince' \in [Key -> SUBSET Key]
         /\ usedSince'[k] = {}
         /\ \A j \in Key \ {k} : usedSince'[j] = usedSince[j] \cup {k}
  BY DEF TypeOK, Use

(* Fewer keys used now means fewer keys used before. *)
LEMMA StillFew ==
  ASSUME TypeOK, NEW j \in Key, usedSince' \in [Key -> SUBSET Key], usedSince[j] \subseteq usedSince'[j],
         Cardinality(usedSince'[j]) < MaxEntries
  PROVE  Cardinality(usedSince[j]) < MaxEntries
<1>1. usedSince'[j] \in SUBSET Key
  OBVIOUS
<1>2. PICK S \in SUBSET Key : S = usedSince'[j]
  BY <1>1
<1>3. PICK T \in SUBSET S : T = usedSince[j]
  BY <1>2
<1>4. Cardinality(T) \in Nat /\ Cardinality(S) \in Nat /\ Cardinality(T) <= Cardinality(S)
  BY KeysAreCounted
<1>5. QED
  BY <1>2, <1>3, <1>4, CacheAssumption

LEMMA InitIInv == Init => IInv
<1> SUFFICES ASSUME Init PROVE IInv
  OBVIOUS
<1>1. Cached = {}
  BY DEF Init, Cached
<1>2. Cardinality(Cached) = 0
  BY <1>1, FS_EmptySet
<1>3. TypeOK
  BY <1>1 DEF Init, TypeOK, Line
<1>4. Recency /\ AgeIsTrue
  BY <1>1 DEF Recency, AgeIsTrue
<1>5. CapacityHolds
  BY <1>2, CacheAssumption DEF CapacityHolds
<1>6. KeepsRecent
  BY DEF Init, KeepsRecent
<1>7. QED
  BY <1>3, <1>4, <1>5, <1>6 DEF IInv

LEMMA HitKeeps == ASSUME IInv, NEW k \in Key, Hit(k) PROVE IInv'
<1>0. TypeOK /\ Line /\ Recency /\ AgeIsTrue /\ CapacityHolds /\ KeepsRecent
  BY DEF IInv, TypeOK
<1>1. Cached' = Cached /\ entry' = entry /\ sinceSet' = sinceSet /\ k \in Cached
  BY DEF Hit, Cached
<1>2. /\ older' \in [Key -> SUBSET Key]
      /\ older'[k] = Cached \ {k}
      /\ \A j \in Key \ {k} : older'[j] = older[j] \ {k}
  BY <1>0 DEF Hit, MovedToEnd, TypeOK, Cached
<1>3. /\ usedSince' \in [Key -> SUBSET Key]
      /\ usedSince'[k] = {}
      /\ \A j \in Key \ {k} : usedSince'[j] = usedSince[j] \cup {k}
  BY <1>0, UseAdds DEF Hit
<1>4. Line'
  BY <1>0, <1>1, <1>2 DEF Line
<1>5. TypeOK'
  BY <1>0, <1>1, <1>2, <1>3, <1>4 DEF TypeOK
<1>6. Recency'
  BY <1>0, <1>1, <1>2, <1>3 DEF Recency, Cached
<1>7. AgeIsTrue' /\ CapacityHolds'
  BY <1>0, <1>1 DEF AgeIsTrue, CapacityHolds
<1>8. KeepsRecent'
  <2>1. SUFFICES ASSUME NEW j \in Key, j \notin usedSince'[j], Cardinality(usedSince'[j]) < MaxEntries
                 PROVE  j \in Cached
    BY <1>1 DEF KeepsRecent
  <2>2. CASE j = k
    BY <1>1, <2>2
  <2>3. CASE j # k
    BY <1>0, <1>3, <2>1, <2>3, StillFew DEF KeepsRecent
  <2>4. QED
    BY <2>2, <2>3
<1>9. QED
  BY <1>5, <1>6, <1>7, <1>8 DEF IInv

LEMMA ExpireKeeps == ASSUME IInv, NEW k \in Key, Expire(k) PROVE IInv'
<1>0. TypeOK /\ Line /\ Recency /\ AgeIsTrue /\ CapacityHolds /\ KeepsRecent
  BY DEF IInv, TypeOK
<1>1. /\ Cached' = Cached \ {k}
      /\ k \in Cached
      /\ entry' \in [Key -> Entry \cup {None}]
      /\ \A j \in Cached' : entry'[j] = entry[j]
      /\ sinceSet' = sinceSet
  BY <1>0 DEF Expire, Cached, TypeOK
<1>2. /\ older' \in [Key -> SUBSET Key]
      /\ older'[k] = {}
      /\ \A j \in Key \ {k} : older'[j] = older[j] \ {k}
  BY <1>0 DEF Expire, Without, TypeOK
<1>3. /\ usedSince' \in [Key -> SUBSET Key]
      /\ usedSince'[k] = Key
      /\ \A j \in Key \ {k} : usedSince'[j] = usedSince[j]
  BY <1>0 DEF Expire, TypeOK
<1>4. Line'
  <2>1. \A j \in Key : older'[j] \subseteq Cached' /\ (j \notin Cached' => older'[j] = {})
    BY <1>0, <1>1, <1>2 DEF Line
  <2>2. \A j \in Cached' : j \in Cached /\ j # k /\ older'[j] = older[j] \ {k}
    BY <1>1, <1>2 DEF Cached
  <2>3. \A i, j \in Cached' : (i \in older'[j]) <=> (i # j /\ j \notin older'[i])
    BY <1>0, <2>2 DEF Line
  <2>4. \A i, j \in Cached' : i \in older'[j] => older'[i] \subseteq older'[j]
    BY <1>0, <2>2 DEF Line
  <2>5. QED
    BY <2>1, <2>3, <2>4 DEF Line
<1>5. TypeOK'
  BY <1>0, <1>1, <1>2, <1>3, <1>4 DEF TypeOK
<1>6. Recency' /\ AgeIsTrue'
  BY <1>0, <1>1, <1>2, <1>3 DEF Recency, AgeIsTrue, Cached
<1>7. CapacityHolds'
  <2>1. PICK S \in SUBSET Key : S = Cached
    BY DEF Cached
  <2>2. S \ {k} \in SUBSET S
    OBVIOUS
  <2>3. Cardinality(S \ {k}) <= Cardinality(S) /\ Cardinality(S) \in Nat /\ Cardinality(S \ {k}) \in Nat
    BY <2>2, KeysAreCounted
  <2>4. QED
    BY <1>0, <1>1, <2>1, <2>3, CacheAssumption DEF CapacityHolds
<1>8. KeepsRecent'
  BY <1>0, <1>1, <1>3 DEF KeepsRecent
<1>9. QED
  BY <1>5, <1>6, <1>7, <1>8 DEF IInv

(* Storing k, with keys in the dictionary before anything is evicted.      *)
LEMMA SetKeeps == ASSUME IInv, NEW k \in Key, NEW ttl \in Ttl, Set(k, ttl) PROVE IInv'
<1> DEFINE keys  == Cached \cup {k}
           order == MovedToEnd(k, keys)
           full  == [entry EXCEPT ![k] = [age |-> 0, ttl |-> ttl]]
<1>0. TypeOK /\ Line /\ Recency /\ AgeIsTrue /\ CapacityHolds /\ KeepsRecent
  BY DEF IInv, TypeOK
<1>1. keys \in SUBSET Key /\ Cached \in SUBSET Key
  BY DEF Cached
<1>2. [age |-> 0, ttl |-> ttl] \in Entry /\ [age |-> 0, ttl |-> ttl] # None
  BY CacheAssumption DEF Entry
<1>3. /\ full \in [Key -> Entry \cup {None}]
      /\ full[k] = [age |-> 0, ttl |-> ttl]
      /\ \A j \in Key \ {k} : full[j] = entry[j]
      /\ \A j \in Key : full[j] # None <=> j \in keys
  BY <1>0, <1>2 DEF TypeOK, Cached
<1>4. /\ order \in [Key -> SUBSET Key]
      /\ order[k] = keys \ {k}
      /\ \A j \in Key \ {k} : order[j] = older[j] \ {k}
  BY <1>0, <1>1 DEF TypeOK, MovedToEnd
<1>5. /\ usedSince' \in [Key -> SUBSET Key]
      /\ usedSince'[k] = {}
      /\ \A j \in Key \ {k} : usedSince'[j] = usedSince[j] \cup {k}
  BY <1>0, UseAdds DEF Set
<1>6. sinceSet' \in [Key -> Nat] /\ sinceSet'[k] = 0 /\ \A j \in Key \ {k} : sinceSet'[j] = sinceSet[j]
  BY <1>0 DEF Set, TypeOK
<1>7. /\ \A j \in keys : order[j] \subseteq keys
      /\ \A j \in Key \ keys : order[j] = {}
      /\ \A i, j \in keys : (i \in order[j]) <=> (i # j /\ j \notin order[i])
      /\ \A i, j \in keys : i \in order[j] => order[i] \subseteq order[j]
  <2> HIDE DEF order
  <2>1. \A j \in keys \ {k} : j \in Cached /\ j \in Key
    BY <1>1
  <2>2. \A j \in keys : order[j] \subseteq keys
    BY <1>0, <1>1, <1>4 DEF Line
  <2>3. \A j \in Key \ keys : order[j] = {}
    BY <1>0, <1>1, <1>4 DEF Line
  <2>4. ASSUME NEW i \in keys, NEW j \in keys
        PROVE  (i \in order[j]) <=> (i # j /\ j \notin order[i])
    <3>1. CASE i = k \/ j = k
      BY <1>1, <1>4, <2>2, <3>1
    <3>2. CASE i # k /\ j # k
      BY <1>0, <1>4, <2>1, <3>2 DEF Line
    <3>3. QED
      BY <3>1, <3>2
  <2>5. ASSUME NEW i \in keys, NEW j \in keys, i \in order[j]
        PROVE  order[i] \subseteq order[j]
    <3>1. i # k /\ i # j
      BY <1>1, <1>4, <2>4, <2>5
    <3>2. CASE j = k
      <4>1. i \in Key /\ order[i] \subseteq Cached
        BY <1>0, <1>4, <2>1, <3>1 DEF Line
      <4>2. QED
        BY <1>4, <2>1, <3>1, <3>2, <4>1
    <3>3. CASE j # k
      BY <1>0, <1>4, <2>1, <2>5, <3>1, <3>3 DEF Line
    <3>4. QED
      BY <3>2, <3>3
  <2>6. QED
    BY <2>2, <2>3, <2>4, <2>5
<1>8. \A i, j \in keys : i # j => i \in order[j] \cup usedSince'[j]
  BY <1>0, <1>1, <1>4, <1>5 DEF Recency
<1>9. \A j \in keys : j \notin usedSince'[j] /\ full[j].age = sinceSet'[j]
  BY <1>0, <1>1, <1>2, <1>3, <1>5, <1>6 DEF Recency, AgeIsTrue
<1>10. \A j \in Key : j \notin usedSince'[j] /\ Cardinality(usedSince'[j]) < MaxEntries => j \in keys
  <2>1. SUFFICES ASSUME NEW j \in Key, j \notin usedSince'[j], Cardinality(usedSince'[j]) < MaxEntries, j # k
                 PROVE  j \in Cached
    OBVIOUS
  <2>2. usedSince[j] \subseteq usedSince'[j]
    BY <1>5, <2>1
  <2>3. QED
    BY <1>0, <1>5, <2>1, <2>2, StillFew DEF KeepsRecent
<1>11. CASE ~Overfull(keys)
  <2>1. entry' = full /\ older' = order
    BY <1>11 DEF Set
  <2>2. Cached' = keys
    BY <1>1, <1>3, <2>1 DEF Cached
  <2> HIDE DEF keys, order, full
  <2>3. Line'
    BY <1>1, <1>4, <1>7, <2>1, <2>2 DEF Line
  <2>4. TypeOK'
    BY <1>3, <1>4, <1>5, <1>6, <2>1, <2>3 DEF TypeOK
  <2>5. Recency'
    BY <1>8, <1>9, <2>1, <2>2 DEF Recency
  <2>6. AgeIsTrue'
    BY <1>9, <2>1, <2>2 DEF AgeIsTrue
  <2>7. CapacityHolds'
    BY <1>1, <1>11, <2>2, KeysAreCounted, CacheAssumption DEF CapacityHolds, Overfull
  <2>8. KeepsRecent'
    BY <1>10, <2>2 DEF KeepsRecent
  <2>9. QED
    BY <2>4, <2>5, <2>6, <2>7, <2>8 DEF IInv
<1>12. CASE Overfull(keys)
  <2>1. PICK first \in keys :
          /\ order[first] = {}
          /\ entry' = [full EXCEPT ![first] = None]
          /\ older' = [j \in Key |-> order[j] \ {first}]
    BY <1>12 DEF Set
  <2>2. Cached' = keys \ {first}
    BY <1>1, <1>3, <2>1 DEF Cached
  <2>3. Cardinality(keys) = Cardinality(keys \ {first}) + 1
    <3>1. PICK S \in SUBSET Key : S = keys
      BY <1>1
    <3>2. IsFiniteSet(S) /\ first \in S
      BY <2>1, <3>1, CacheAssumption, FS_Subset
    <3>3. Cardinality(S \ {first}) = Cardinality(S) - 1
      BY <3>2, FS_RemoveElement
    <3>4. Cardinality(S) \in Nat
      BY KeysAreCounted
    <3>5. Cardinality(S) = Cardinality(S \ {first}) + 1
      BY <3>3, <3>4
    <3>6. QED
      BY <3>1, <3>5
  <2> HIDE DEF keys, order, full
  <2>4. Line'
    BY <1>1, <1>4, <1>7, <2>1, <2>2 DEF Line
  <2>5. TypeOK'
    BY <1>1, <1>3, <1>4, <1>5, <1>6, <2>1, <2>4 DEF TypeOK
  <2>6. Recency'
    BY <1>1, <1>8, <1>9, <2>1, <2>2 DEF Recency
  <2>7. AgeIsTrue'
    BY <1>1, <1>3, <1>9, <2>1, <2>2 DEF AgeIsTrue
  <2>8. CapacityHolds'
    <3>1. Cardinality(keys) <= MaxEntries + 1
      <4>1. Cardinality(Cached \cup {k}) <= Cardinality(Cached) + 1
        BY <1>1, KeysAreCounted, FS_AddElement
      <4>2. QED
        BY <1>0, <1>1, <4>1, KeysAreCounted, CacheAssumption DEF keys, CapacityHolds
    <3>2. keys \ {first} \in SUBSET Key
      BY <1>1
    <3>3. QED
      BY <1>1, <2>2, <2>3, <3>1, <3>2, KeysAreCounted, CacheAssumption DEF CapacityHolds
  <2>9. ~(Cardinality(usedSince'[first]) < MaxEntries)
    <3>1. keys \ {first} \subseteq usedSince'[first]
      BY <1>8, <2>1
    <3>2. PICK U \in SUBSET Key : U = usedSince'[first]
      BY <1>1, <1>5
    <3>3. Cardinality(keys \ {first}) <= Cardinality(U) /\ Cardinality(U) \in Nat
      BY <3>1, <3>2, KeysAreCounted
    <3>4. Cardinality(keys \ {first}) \in Nat /\ Cardinality(keys) \in Nat
      BY <1>1, KeysAreCounted
    <3>5. Cardinality(keys \ {first}) >= MaxEntries
      BY <1>12, <2>3, <3>4, CacheAssumption DEF Overfull
    <3>6. QED
      BY <3>2, <3>3, <3>4, <3>5, CacheAssumption
  <2>10. KeepsRecent'
    BY <1>1, <1>10, <2>2, <2>9 DEF KeepsRecent
  <2>11. QED
    BY <2>5, <2>6, <2>7, <2>8, <2>10 DEF IInv
<1>13. QED
  BY <1>11, <1>12

LEMMA ClearKeeps == ASSUME IInv, Clear PROVE IInv'
<1>1. Cached' = {}
  BY DEF Clear, Cached
<1>2. Cardinality(Cached') = 0
  BY <1>1, FS_EmptySet
<1>3. TypeOK'
  BY <1>1 DEF IInv, Clear, TypeOK, Line
<1>4. Recency' /\ AgeIsTrue'
  BY <1>1 DEF Recency, AgeIsTrue
<1>5. CapacityHolds'
  BY <1>2, CacheAssumption DEF CapacityHolds
<1>6. KeepsRecent'
  BY DEF Clear, KeepsRecent
<1>7. QED
  BY <1>3, <1>4, <1>5, <1>6 DEF IInv

LEMMA TickKeeps == ASSUME IInv, Tick PROVE IInv'
<1>0. TypeOK /\ Line /\ Recency /\ AgeIsTrue /\ CapacityHolds /\ KeepsRecent
  BY DEF IInv, TypeOK
<1>1. \A n \in Nat : Aged(n) \in Nat
  BY DEF Aged
<1>2. \A k \in Key : entry'[k] = IF entry[k] = None THEN None ELSE [entry[k] EXCEPT !.age = Aged(@)]
  BY <1>0 DEF Tick, TypeOK
<1>3. \A k \in Key : entry[k] # None =>
         /\ entry'[k] \in Entry
         /\ entry'[k] # None
         /\ entry'[k].age = Aged(entry[k].age)
  <2>1. SUFFICES ASSUME NEW k \in Key, entry[k] # None
                 PROVE  entry'[k] \in Entry /\ entry'[k] # None /\ entry'[k].age = Aged(entry[k].age)
    OBVIOUS
  <2>2. entry[k] \in Entry /\ entry'[k] = [entry[k] EXCEPT !.age = Aged(entry[k].age)]
    BY <1>0, <1>2, <2>1 DEF TypeOK
  <2>3. QED
    BY <1>1, <2>2, CacheAssumption DEF Entry
<1>4. Cached' = Cached
  BY <1>2, <1>3 DEF Cached
<1>5. entry' \in [Key -> Entry \cup {None}]
  BY <1>2, <1>3 DEF Tick
<1>6. sinceSet' \in [Key -> Nat] /\ \A k \in Key : sinceSet'[k] = Aged(sinceSet[k])
  BY <1>0, <1>1 DEF Tick, TypeOK
<1>7. older' = older /\ usedSince' = usedSince
  BY DEF Tick
<1>8. TypeOK'
  BY <1>0, <1>4, <1>5, <1>6, <1>7 DEF TypeOK, Line
<1>9. AgeIsTrue'
  BY <1>0, <1>3, <1>4, <1>6 DEF AgeIsTrue, Cached
<1>10. Recency' /\ CapacityHolds' /\ KeepsRecent'
  BY <1>0, <1>4, <1>7 DEF Recency, CapacityHolds, KeepsRecent
<1>11. QED
  BY <1>8, <1>9, <1>10 DEF IInv

LEMMA IInvariant == Spec => []IInv
<1>1. IInv /\ UNCHANGED vars => IInv'
  BY DEF vars, IInv, TypeOK, Line, Recency, AgeIsTrue, CapacityHolds, KeepsRecent, Cached
<1>2. IInv /\ [Next]_vars => IInv'
  BY <1>1, HitKeeps, ExpireKeeps, SetKeeps, ClearKeeps, TickKeeps DEF Next
<1>3. QED
  BY InitIInv, <1>2, PTL DEF Spec

(* The variables keep their types and the dictionary stays in one line.    *)
THEOREM TypeCorrect == Spec => []TypeOK
  BY IInvariant, PTL DEF IInv

(* set evicts enough, whatever the keys and the capacity.                  *)
THEOREM NeverOverfull == Spec => []CapacityHolds
  BY IInvariant, PTL DEF IInv

(* What set evicts is the least recently used entry: an answer used while  *)
(* fewer than max_entries other keys were used since is never lost.        *)
THEOREM RecentIsKept == Spec => []KeepsRecent
  BY IInvariant, PTL DEF IInv

(* get never finds an entry that was stored longer ago than its ttl.       *)
THEOREM FreshHits == Spec => []HitsAreFresh
<1>1. IInv => HitsAreFresh
  <2>1. SUFFICES ASSUME IInv, NEW k \in Cached, ~Expired(k) PROVE sinceSet[k] <= entry[k].ttl
    BY DEF HitsAreFresh
  <2>2. entry[k] \in Entry /\ entry[k].age = sinceSet[k]
    BY <2>1 DEF IInv, TypeOK, AgeIsTrue, Cached
  <2>3. QED
    BY <2>1, <2>2 DEF Expired, Entry
<1>2. QED
  BY <1>1, IInvariant, PTL
==============================================================================
