---------------------------- MODULE ResponseCache -----------------------------
(***************************************************************************)
(* The response cache: proxy/cache.py.  No method of it awaits, so each is *)
(* one step.  The pipeline calls get when a request arrives and set when   *)
(* the upstream has answered; any number of requests with any keys can be  *)
(* in between, so the two come in any order.                               *)
(*                                                                         *)
(* What is cached does not matter here, a key stands for its answer.  The  *)
(* counters of hits and misses are left out, and so are a get that finds   *)
(* nothing and a set of an answer that is not 2xx, which change nothing    *)
(* else.                                                                   *)
(***************************************************************************)
EXTENDS Naturals, FiniteSets

CONSTANTS
    Key,
    Ttl,            \* the times to live that set is called with
    MaxEntries,
    None,           \* no entry
    MaxAge          \* bound of the model: ages stop there, beyond every ttl

ASSUME CacheAssumption ==
    /\ IsFiniteSet(Key)
    /\ MaxEntries \in Nat
    /\ MaxAge \in Nat
    /\ \A ttl \in Ttl : ttl \in Nat /\ ttl < MaxAge
    /\ None \notin [age : Nat, ttl : Nat]

VARIABLES
    entry,          \* per key its entry, or None
    older,          \* the order of the OrderedDict: per key the keys before it
    sinceSet,       \* ghost: the time since the key was last stored
    usedSince       \* ghost: the keys used since the key was last used, itself
                    \* among them if it has expired, was cleared or never used

vars == <<entry, older, sinceSet, usedSince>>

Entry == [age : Nat, ttl : Nat]
Cached == {k \in Key : entry[k] # None}
Expired(k) == entry[k].age > entry[k].ttl

Init ==
    /\ entry = [k \in Key |-> None]
    /\ older = [k \in Key |-> {}]
    /\ sinceSet = [k \in Key |-> 0]
    /\ usedSince = [k \in Key |-> Key]

\* The order of keys with k at its end, and the order without k.
MovedToEnd(k, keys) == [j \in Key |-> IF j = k THEN keys \ {k} ELSE older[j] \ {k}]
Without(k) == [j \in Key |-> IF j = k THEN {} ELSE older[j] \ {k}]

\* Key k is used now.
Use(k) == usedSince' = [j \in Key |-> IF j = k THEN {} ELSE usedSince[j] \cup {k}]

-----------------------------------------------------------------------------
\* Mutant: a hit does not move the entry to the end.
HitWithoutMove(k) ==
    /\ k \in Cached
    /\ ~Expired(k)
    /\ Use(k)
    /\ UNCHANGED <<entry, older, sinceSet>>

\* Mutant: a hit starts the time to live again.
HitRefreshing(k) ==
    /\ k \in Cached
    /\ ~Expired(k)
    /\ entry' = [entry EXCEPT ![k].age = 0]
    /\ older' = MovedToEnd(k, Cached)
    /\ Use(k)
    /\ UNCHANGED sinceSet

\* get finds an entry.
Hit(k) ==
    /\ k \in Cached
    /\ ~Expired(k)
    /\ older' = MovedToEnd(k, Cached)
    /\ Use(k)
    /\ UNCHANGED <<entry, sinceSet>>

\* Mutant: the key keeps its place in the order.
ExpireInPlace(k) ==
    /\ k \in Cached
    /\ Expired(k)
    /\ entry' = [entry EXCEPT ![k] = None]
    /\ usedSince' = [usedSince EXCEPT ![k] = Key]
    /\ UNCHANGED <<older, sinceSet>>

\* get finds an entry past its time, drops it and reports a miss.
Expire(k) ==
    /\ k \in Cached
    /\ Expired(k)
    /\ entry' = [entry EXCEPT ![k] = None]
    /\ older' = Without(k)
    /\ usedSince' = [usedSince EXCEPT ![k] = Key]
    /\ UNCHANGED sinceSet

\* Mutant: one entry too many.
OverfullLate(keys) == Cardinality(keys) > MaxEntries + 1

\* Whether set has to evict, with keys in the dictionary.
Overfull(keys) == Cardinality(keys) > MaxEntries

\* set stores an answer under k, for an hour unless it is told otherwise, and drops the
\* first key of the dictionary if there is one too many.
Set(k, ttl) ==
    LET keys  == Cached \cup {k}
        order == MovedToEnd(k, keys)
        full  == [entry EXCEPT ![k] = [age |-> 0, ttl |-> ttl]]
    IN  /\ IF Overfull(keys)
             THEN \E first \in keys :
                    /\ order[first] = {}
                    /\ entry' = [full EXCEPT ![first] = None]
                    /\ older' = [j \in Key |-> order[j] \ {first}]
             ELSE entry' = full /\ older' = order
        /\ sinceSet' = [sinceSet EXCEPT ![k] = 0]
        /\ Use(k)

\* clear empties the dictionary.
Clear ==
    /\ entry' = [k \in Key |-> None]
    /\ older' = [k \in Key |-> {}]
    /\ usedSince' = [k \in Key |-> Key]
    /\ UNCHANGED sinceSet

Aged(n) == IF n < MaxAge THEN n + 1 ELSE n

\* time.monotonic() goes on.
Tick ==
    /\ entry' = [k \in Key |-> IF entry[k] = None THEN None ELSE [entry[k] EXCEPT !.age = Aged(@)]]
    /\ sinceSet' = [k \in Key |-> Aged(sinceSet[k])]
    /\ UNCHANGED <<older, usedSince>>

Next ==
    \/ \E k \in Key : Hit(k) \/ Expire(k) \/ \E ttl \in Ttl : Set(k, ttl)
    \/ Clear
    \/ Tick

Spec == Init /\ [][Next]_vars

-----------------------------------------------------------------------------
\* older orders the cached keys, and no others, in a line.
Line ==
    /\ \A k \in Key : older[k] \subseteq Cached /\ (k \notin Cached => older[k] = {})
    /\ \A j, k \in Cached : (j \in older[k]) <=> (j # k /\ k \notin older[j])
    /\ \A j, k \in Cached : j \in older[k] => older[j] \subseteq older[k]

TypeOK ==
    /\ entry \in [Key -> Entry \cup {None}]
    /\ older \in [Key -> SUBSET Key]
    /\ sinceSet \in [Key -> Nat]
    /\ usedSince \in [Key -> SUBSET Key]
    /\ Line

(* The cache never holds more than max_entries, although one set evicts    *)
(* one entry only and expired entries stay until somebody asks for them.   *)
CapacityHolds == Cardinality(Cached) <= MaxEntries

(* An answer that was used while fewer than max_entries other keys were    *)
(* used since is still cached, whatever was stored, hit, overwritten or    *)
(* has expired in between: only the least recently used answer is evicted. *)
KeepsRecent ==
    \A k \in Key :
        k \notin usedSince[k] /\ Cardinality(usedSince[k]) < MaxEntries => k \in Cached

(* However often an answer is served, it is not served once its time to    *)
(* live has passed since it was stored.                                    *)
HitsAreFresh == \A k \in Cached : ~Expired(k) => sinceSet[k] <= entry[k].ttl
==============================================================================
