-------------------------- MODULE AuditLedgerProofs --------------------------
(* What AuditLedger guarantees for any set of callers and of payloads.     *)
EXTENDS AuditLedger, SequenceTheorems, WellFoundedInduction, TLAPS

-----------------------------------------------------------------------------
(* Types.  A call in flight holds the locals its next step reads.          *)

LocalsOK ==
    \A c \in Coroutine :
        /\ pc[c] = "selected" => row[c] \in Hash
        /\ pc[c] \in {"sealed", "committed"} => sealed[c] \in Record

TypeInv == TypeOK /\ LocalsOK

(* The hash init_db selects is a hash. *)
LEMMA NewestIsHash == TypeOK => NewestHash \in Hash
<1>1. GENESIS_HASH \in Hash
  BY EmptySeq DEF GENESIS_HASH, Hash
<1>2. ASSUME TypeOK, ledger # << >> PROVE ledger[Len(ledger)] \in Record
  <2>1. ledger \in Seq(Record)
    BY <1>2 DEF TypeOK
  <2>2. Len(ledger) \in 1..Len(ledger)
    BY <1>2, <2>1, EmptySeq, LenProperties
  <2>3. QED
    BY <2>1, <2>2, ElementOfSeq
<1>3. QED
  BY <1>1, <1>2 DEF NewestHash, Record

(* A computed hash is a hash. *)
LEMMA HashOfRecord ==
  ASSUME NEW h \in Hash, NEW p \in Payload
  PROVE  calculate_record_hash(h, p) \in Hash
  BY AppendProperties DEF Hash, calculate_record_hash

(* Leaving the calls in C keeps the types. *)
LEMMA ReturnKeepsTypes ==
  ASSUME TypeInv, NEW C \in SUBSET Coroutine, Return(C)
  PROVE  /\ pc' \in [Coroutine -> {"idle", "selected", "adopted", "sealed", "committed"}]
         /\ op' \in [Coroutine -> {"log", "tail", None}]
         /\ row' \in [Coroutine -> Hash \cup {None}]
         /\ sealed' \in [Coroutine -> Record \cup {None}]
         /\ alone' \in [Coroutine -> BOOLEAN]
         /\ LocalsOK'
  BY DEF TypeInv, TypeOK, LocalsOK, Return

(* Every variable keeps its type, and a call in flight has its locals.     *)
LEMMA TypeInvariant == Spec => []TypeInv
<1>1. Init => TypeInv
  BY EmptySeq DEF Init, TypeInv, TypeOK, LocalsOK
<1>2. TypeInv /\ [Next]_vars => TypeInv'
  <2> SUFFICES ASSUME TypeInv, [Next]_vars PROVE TypeInv'
    OBVIOUS
  <2> USE DEF TypeInv
  <2>1. ASSUME NEW c \in Coroutine, Select(c) PROVE TypeInv'
    BY <2>1, NewestIsHash DEF TypeOK, LocalsOK, Select
  <2>2. ASSUME NEW c \in Coroutine, Adopt(c) PROVE TypeInv'
    BY <2>2 DEF TypeOK, LocalsOK, Adopt
  <2>3. ASSUME NEW c \in Coroutine, AdoptForTail(c) PROVE TypeInv'
    BY <2>3, ReturnKeepsTypes DEF TypeOK, LocalsOK, AdoptForTail
  <2>4. ASSUME NEW c \in Coroutine, Seal(c) PROVE TypeInv'
    <3>1. (IF lastHash = None THEN GENESIS_HASH ELSE lastHash) \in Hash
      BY EmptySeq DEF TypeOK, GENESIS_HASH, Hash
    <3>2. /\ sealed' \in [Coroutine -> Record \cup {None}]
          /\ sealed'[c] \in Record
          /\ \A d \in Coroutine \ {c} : sealed'[d] = sealed[d]
      BY <2>4, <3>1, HashOfRecord DEF TypeOK, Seal, Record
    <3>3. QED
      BY <2>4, <3>2 DEF TypeOK, LocalsOK, Seal
  <2>5. ASSUME NEW c \in Coroutine, Commit(c) PROVE TypeInv'
    <3>1. sealed[c] \in Record
      BY <2>5 DEF LocalsOK, Commit
    <3>2. ledger' \in Seq(Record)
      BY <2>5, <3>1, AppendProperties DEF TypeOK, Commit
    <3>3. Len(ledger) \in Nat
      BY LenProperties DEF TypeOK
    <3>4. serial' \in SUBSET Nat
      <4>1. Len(ledger) + 1 \in Nat
        BY <3>3
      <4>2. serial' = serial \/ serial' = serial \cup {Len(ledger) + 1}
        BY <2>5 DEF Commit
      <4>3. serial \in SUBSET Nat
        BY DEF TypeOK
      <4>4. QED
        BY <4>1, <4>2, <4>3
    <3>5. LocalsOK'
      BY <2>5, <3>1 DEF TypeOK, LocalsOK, Commit
    <3>6. pc' \in [Coroutine -> {"idle", "selected", "adopted", "sealed", "committed"}]
      BY <2>5 DEF TypeOK, Commit
    <3>7. UNCHANGED <<lastHash, op, row, sealed, alone>>
      BY <2>5 DEF Commit
    <3>8. QED
      BY <3>2, <3>4, <3>5, <3>6, <3>7 DEF TypeOK
  <2>6. ASSUME NEW c \in Coroutine, Fail(c) PROVE TypeInv'
    BY <2>6, ReturnKeepsTypes DEF TypeOK, LocalsOK, Fail
  <2>7. ASSUME NEW c \in Coroutine, Publish(c) PROVE TypeInv'
    BY <2>7, ReturnKeepsTypes DEF TypeOK, LocalsOK, Publish, Record
  <2>8. CASE Restart
    BY <2>8, ReturnKeepsTypes DEF TypeOK, LocalsOK, Restart
  <2>9. CASE UNCHANGED vars
    BY <2>9 DEF TypeOK, LocalsOK, vars
  <2>10. QED
    BY <2>1, <2>2, <2>3, <2>4, <2>5, <2>6, <2>7, <2>8, <2>9 DEF Next
<1>3. QED
  BY <1>1, <1>2, PTL DEF Spec

(* Every variable of the logger, its table and its callers keeps its type. *)
THEOREM TypeCorrect == Spec => []TypeOK
  BY TypeInvariant, PTL DEF TypeInv

-----------------------------------------------------------------------------
(* A call that nothing overlapped still sees the newest hash.              *)

AloneInv ==
    \A c \in Coroutine : alone[c] =>
        /\ Busy(c)
        /\ \A d \in Coroutine \ {c} : ~Busy(d)
        /\ pc[c] = "selected" => row[c] = NewestHash
        /\ pc[c] = "adopted" => lastHash = NewestHash
        /\ pc[c] = "sealed" => sealed[c].prev = NewestHash

SerialInv ==
    /\ serial \subseteq 1..Len(ledger)
    /\ SerialRecordsLinked

(* A step that stores no record disturbs no stored link. *)
LEMMA SameLedger ==
  ASSUME SerialInv, UNCHANGED <<ledger, serial>>
  PROVE  SerialInv' /\ NewestHash' = NewestHash
  BY DEF SerialInv, SerialRecordsLinked, Linked, expected_prev_hash, NewestHash

(* Storing a record makes its hash the newest and keeps the older links. *)
LEMMA LedgerGrows ==
  ASSUME TypeOK, NEW r \in Record, ledger' = Append(ledger, r),
         NEW n, n = Len(ledger)
  PROVE  /\ n \in Nat
         /\ DOMAIN ledger = 1..n
         /\ Len(ledger') = n + 1
         /\ DOMAIN ledger' = 1..(n + 1)
         /\ \A i \in 1..n : ledger'[i] = ledger[i]
         /\ ledger'[n + 1] = r
         /\ NewestHash' = r.hash
         /\ \A i \in 1..n : Linked(i) => Linked(i)'
         /\ r.prev = NewestHash => Linked(n + 1)'
<1>1. ledger \in Seq(Record)
  BY DEF TypeOK
<1>2. n \in Nat /\ DOMAIN ledger = 1..n
  BY <1>1, LenProperties
<1>3. /\ ledger' \in Seq(Record)
      /\ ledger' # << >>
      /\ Len(ledger') = n + 1
      /\ \A i \in 1..n : ledger'[i] = ledger[i]
      /\ ledger'[n + 1] = r
  BY <1>1, AppendProperties
<1>4. DOMAIN ledger' = 1..(n + 1)
  BY <1>3, LenProperties
<1>5. NewestHash' = r.hash
  BY <1>3 DEF NewestHash
<1>6. ASSUME NEW i \in 1..n, Linked(i) PROVE Linked(i)'
  BY <1>2, <1>3, <1>6 DEF Linked, expected_prev_hash
<1>7. ASSUME r.prev = NewestHash PROVE Linked(n + 1)'
  <2>1. CASE n = 0
    <3>1. ledger = << >>
      BY <1>1, <2>1, EmptySeq
    <3>2. r.prev = GENESIS_HASH
      BY <1>7, <3>1 DEF NewestHash
    <3>3. expected_prev_hash(n + 1)' = GENESIS_HASH
      BY <2>1 DEF expected_prev_hash
    <3>4. QED
      BY <1>3, <3>2, <3>3 DEF Linked
  <2>2. CASE n # 0
    <3>1. ledger # << >>
      BY <2>2, EmptySeq
    <3>2. n \in 1..n /\ n + 1 # 1 /\ (n + 1) - 1 = n
      BY <1>2, <2>2
    <3>3. r.prev = ledger[n].hash
      BY <1>7, <3>1 DEF NewestHash
    <3>4. expected_prev_hash(n + 1)' = ledger[n].hash
      BY <1>3, <3>2 DEF expected_prev_hash
    <3>5. QED
      BY <1>3, <3>3, <3>4 DEF Linked
  <2>3. QED
    BY <2>1, <2>2
<1>8. QED
  BY <1>2, <1>3, <1>4, <1>5, <1>6, <1>7

(* The strengthening of SerialRecordsLinked is inductive. *)
LEMMA SerialStep ==
  ASSUME TypeInv, TypeInv', AloneInv, SerialInv, [Next]_vars
  PROVE  AloneInv' /\ SerialInv'
<1> USE DEF TypeInv
<1>1. ASSUME NEW c \in Coroutine, Select(c) PROVE AloneInv' /\ SerialInv'
  BY <1>1, SameLedger DEF AloneInv, Select, TypeOK, Busy
<1>2. ASSUME NEW c \in Coroutine, Adopt(c) PROVE AloneInv' /\ SerialInv'
  BY <1>2, SameLedger DEF AloneInv, Adopt, TypeOK, Busy
<1>3. ASSUME NEW c \in Coroutine, AdoptForTail(c) PROVE AloneInv' /\ SerialInv'
  BY <1>3, SameLedger DEF AloneInv, AdoptForTail, Return, TypeOK, Busy
<1>4. ASSUME NEW c \in Coroutine, Seal(c) PROVE AloneInv' /\ SerialInv'
  <2>1. alone[c] => lastHash = NewestHash /\ lastHash # None
    BY <1>4, NewestIsHash, NoneAssumption DEF AloneInv, Seal
  <2>2. alone[c] => sealed'[c].prev = NewestHash
    BY <1>4, <2>1 DEF Seal, TypeOK
  <2>3. SerialInv' /\ NewestHash' = NewestHash
    BY <1>4, SameLedger DEF Seal
  <2>4. QED
    BY <1>4, <2>2, <2>3 DEF AloneInv, Seal, TypeOK, Busy
<1>5. ASSUME NEW c \in Coroutine, Commit(c) PROVE AloneInv' /\ SerialInv'
  <2>1. sealed[c] \in Record /\ ledger' = Append(ledger, sealed[c])
    BY <1>5 DEF Commit, LocalsOK
  <2>2. PICK n : n = Len(ledger)
    OBVIOUS
  <2>3. /\ n \in Nat
        /\ DOMAIN ledger = 1..n
        /\ Len(ledger') = n + 1
        /\ DOMAIN ledger' = 1..(n + 1)
        /\ \A i \in 1..n : Linked(i) => Linked(i)'
        /\ sealed[c].prev = NewestHash => Linked(n + 1)'
    BY <2>1, <2>2, LedgerGrows
  <2>4. alone[c] => sealed[c].prev = NewestHash
    BY <1>5 DEF AloneInv, Commit
  <2>5. serial' = IF alone[c] THEN serial \cup {n + 1} ELSE serial
    BY <1>5, <2>2 DEF Commit
  <2>6. serial' \subseteq 1..Len(ledger')
    <3>1. serial \subseteq 1..n
      BY <2>2 DEF SerialInv
    <3>2. serial' \subseteq 1..(n + 1)
      BY <2>3, <2>5, <3>1
    <3>3. QED
      BY <2>3, <3>2
  <2>7. ASSUME NEW i \in DOMAIN ledger', i \in serial' PROVE Linked(i)'
    <3>1. CASE i = n + 1
      <4>1. alone[c]
        BY <2>2, <2>3, <2>5, <2>7, <3>1 DEF SerialInv
      <4>2. QED
        BY <2>3, <2>4, <3>1, <4>1
    <3>2. CASE i # n + 1
      <4>1. i \in 1..n /\ i \in serial
        BY <2>3, <2>5, <2>7, <3>2
      <4>2. QED
        BY <2>3, <4>1 DEF SerialInv, SerialRecordsLinked
    <3>3. QED
      BY <3>1, <3>2
  <2>8. AloneInv'
    BY <1>5 DEF AloneInv, Commit, TypeOK, Busy
  <2>9. QED
    BY <2>6, <2>7, <2>8 DEF SerialInv, SerialRecordsLinked
<1>6. ASSUME NEW c \in Coroutine, Fail(c) PROVE AloneInv' /\ SerialInv'
  BY <1>6, SameLedger DEF AloneInv, Fail, Return, TypeOK, Busy
<1>7. ASSUME NEW c \in Coroutine, Publish(c) PROVE AloneInv' /\ SerialInv'
  BY <1>7, SameLedger DEF AloneInv, Publish, Return, TypeOK, Busy
<1>8. CASE Restart
  BY <1>8, SameLedger DEF AloneInv, Restart, Return, TypeOK
<1>9. CASE UNCHANGED vars
  BY <1>9, SameLedger DEF AloneInv, vars, Busy
<1>10. QED
  BY <1>1, <1>2, <1>3, <1>4, <1>5, <1>6, <1>7, <1>8, <1>9 DEF Next

(* A log_request that nothing overlapped links its record to the one       *)
(* before, after any forks, failures and restarts.                         *)
THEOREM SerialLinks == Spec => []SerialRecordsLinked
<1>1. Init => AloneInv /\ SerialInv
  BY EmptySeq DEF Init, AloneInv, SerialInv, SerialRecordsLinked
<1>2. AloneInv /\ SerialInv /\ TypeInv /\ TypeInv' /\ [Next]_vars => (AloneInv /\ SerialInv)'
  BY SerialStep
<1>3. SerialInv => SerialRecordsLinked
  BY DEF SerialInv
<1>4. QED
  BY <1>1, <1>2, <1>3, TypeInvariant, PTL DEF Spec

-----------------------------------------------------------------------------
(* A hash in use is the genesis hash or the hash of a stored record.       *)

Known(h) == h = GENESIS_HASH \/ \E j \in DOMAIN ledger : ledger[j].hash = h

Computed(r) == r.hash = calculate_record_hash(r.prev, r.payload)

KnownInv ==
    /\ lastHash # None => Known(lastHash)
    /\ \A c \in Coroutine :
          /\ pc[c] = "selected" => Known(row[c])
          /\ pc[c] \in {"sealed", "committed"} => Computed(sealed[c])
          /\ pc[c] = "sealed" => Known(sealed[c].prev)
          /\ pc[c] = "committed" => Known(sealed[c].hash)
    /\ EveryRecordIsRooted

(* The hash that init_db selects is known. *)
LEMMA NewestIsKnown == TypeOK => Known(NewestHash)
<1>1. ASSUME TypeOK, ledger # << >> PROVE Len(ledger) \in DOMAIN ledger
  BY <1>1, EmptySeq, LenProperties DEF TypeOK
<1>2. QED
  BY <1>1 DEF Known, NewestHash

(* As long as the table is left alone, known hashes stay known. *)
LEMMA SameKnown ==
  ASSUME UNCHANGED ledger
  PROVE  /\ \A h : Known(h)' <=> Known(h)
         /\ EveryRecordIsRooted => EveryRecordIsRooted'
  BY DEF Known, EveryRecordIsRooted, Untouched

(* Storing a sealed record with a known link keeps every record rooted. *)
LEMMA RootedGrows ==
  ASSUME TypeOK, EveryRecordIsRooted,
         NEW r \in Record, Computed(r), Known(r.prev), ledger' = Append(ledger, r)
  PROVE  /\ \A h : Known(h) => Known(h)'
         /\ Known(r.hash)'
         /\ EveryRecordIsRooted'
<1>1. PICK n : n = Len(ledger)
  OBVIOUS
<1>2. /\ n \in Nat
      /\ DOMAIN ledger = 1..n
      /\ DOMAIN ledger' = 1..(n + 1)
      /\ \A i \in 1..n : ledger'[i] = ledger[i]
      /\ ledger'[n + 1] = r
  BY <1>1, LedgerGrows
<1>3. ASSUME NEW h, Known(h) PROVE Known(h)'
  BY <1>2, <1>3 DEF Known
<1>4. Known(r.hash)'
  BY <1>2 DEF Known
<1>5. ASSUME NEW i \in DOMAIN ledger'
      PROVE  /\ Untouched(i)'
             /\ \/ ledger'[i].prev = GENESIS_HASH
                \/ \E j \in 1..(i - 1) : ledger'[j].hash = ledger'[i].prev
  <2>1. CASE i = n + 1
    <3>1. Untouched(i)'
      BY <1>2, <2>1 DEF Untouched, Computed
    <3>2. r.prev = GENESIS_HASH \/ \E j \in 1..n : ledger'[j].hash = r.prev
      BY <1>2 DEF Known
    <3>3. QED
      BY <1>2, <2>1, <3>1, <3>2
  <2>2. CASE i \in 1..n
    BY <1>2, <2>2 DEF EveryRecordIsRooted, Untouched
  <2>3. QED
    BY <1>2, <2>1, <2>2
<1>6. QED
  BY <1>3, <1>4, <1>5 DEF EveryRecordIsRooted

(* The strengthening of EveryRecordIsRooted is inductive. *)
LEMMA RootedStep ==
  ASSUME TypeInv, KnownInv, [Next]_vars
  PROVE  KnownInv'
<1> USE DEF TypeInv
<1>1. ASSUME NEW c \in Coroutine, Select(c) PROVE KnownInv'
  BY <1>1, NewestIsKnown, SameKnown DEF KnownInv, Select, TypeOK, Busy
<1>2. ASSUME NEW c \in Coroutine, Adopt(c) PROVE KnownInv'
  BY <1>2, SameKnown DEF KnownInv, Adopt, TypeOK
<1>3. ASSUME NEW c \in Coroutine, AdoptForTail(c) PROVE KnownInv'
  BY <1>3, SameKnown DEF KnownInv, AdoptForTail, Return, TypeOK
<1>4. ASSUME NEW c \in Coroutine, Seal(c) PROVE KnownInv'
  <2>1. Known(IF lastHash = None THEN GENESIS_HASH ELSE lastHash)
    BY DEF KnownInv, Known
  <2>2. Computed(sealed'[c]) /\ Known(sealed'[c].prev)
    BY <1>4, <2>1 DEF Seal, TypeOK, Computed
  <2>3. \A d \in Coroutine \ {c} : sealed'[d] = sealed[d]
    BY <1>4 DEF Seal, TypeOK
  <2>4. QED
    BY <1>4, <2>2, <2>3, SameKnown DEF KnownInv, Seal, TypeOK, Computed
<1>5. ASSUME NEW c \in Coroutine, Commit(c) PROVE KnownInv'
  <2>1. PICK r : r = sealed[c]
    OBVIOUS
  <2>2. /\ r \in Record
        /\ Computed(r)
        /\ Known(r.prev)
        /\ ledger' = Append(ledger, r)
    BY <1>5, <2>1 DEF Commit, LocalsOK, KnownInv
  <2>3. /\ \A h : Known(h) => Known(h)'
        /\ Known(r.hash)'
        /\ EveryRecordIsRooted'
    BY <2>2, RootedGrows DEF KnownInv
  <2>4. sealed'[c].hash = r.hash
    BY <1>5, <2>1 DEF Commit
  <2>5. lastHash' # None => Known(lastHash)'
    BY <1>5, <2>3 DEF KnownInv, Commit
  <2>6. ASSUME NEW d \in Coroutine
        PROVE  /\ pc'[d] = "selected" => Known(row[d])'
               /\ pc'[d] \in {"sealed", "committed"} => Computed(sealed[d])'
               /\ pc'[d] = "sealed" => Known(sealed[d].prev)'
               /\ pc'[d] = "committed" => Known(sealed[d].hash)'
    BY <1>5, <2>1, <2>2, <2>3, <2>4 DEF KnownInv, Commit, TypeOK, Computed
  <2>7. QED
    BY <2>3, <2>5, <2>6 DEF KnownInv
<1>6. ASSUME NEW c \in Coroutine, Fail(c) PROVE KnownInv'
  BY <1>6, SameKnown DEF KnownInv, Fail, Return, TypeOK, Computed
<1>7. ASSUME NEW c \in Coroutine, Publish(c) PROVE KnownInv'
  BY <1>7, SameKnown DEF KnownInv, Publish, Return, TypeOK, Computed
<1>8. CASE Restart
  BY <1>8, SameKnown DEF KnownInv, Restart, Return, TypeOK
<1>9. CASE UNCHANGED vars
  BY <1>9, SameKnown DEF KnownInv, vars, Computed
<1>10. QED
  BY <1>1, <1>2, <1>3, <1>4, <1>5, <1>6, <1>7, <1>8, <1>9 DEF Next

LEMMA KnownInvariant == Spec => []KnownInv
<1>1. Init => KnownInv
  BY EmptySeq DEF Init, KnownInv, EveryRecordIsRooted
<1>2. QED
  BY <1>1, RootedStep, TypeInvariant, PTL DEF Spec

(* Whatever interleaves and whenever the proxy restarts, every record can  *)
(* be walked back to the genesis hash and recomputes: concurrency can fork *)
(* the chain, never leave a dangling or a false link in it.                *)
THEOREM Rooted == Spec => []EveryRecordIsRooted
  BY KnownInvariant, PTL DEF KnownInv

(* A commit whose call nothing overlapped appends its contents to the      *)
(* history, and only a commit changes the newest hash.                     *)
LEMMA ExtendStep ==
  ASSUME TypeInv, AloneInv, SerialInv, KnownInv, [Next]_vars,
         Len(ledger') = Len(ledger) \/ Len(ledger') \in serial'
  PROVE  [Chain!Extend]_NewestHash
<1>1. ASSUME NEW c \in Coroutine, Commit(c) PROVE [Chain!Extend]_NewestHash
  <2>1. PICK n : n = Len(ledger)
    OBVIOUS
  <2>2. sealed[c] \in Record /\ ledger' = Append(ledger, sealed[c])
    BY <1>1 DEF Commit, TypeInv, LocalsOK
  <2>3. n \in Nat /\ Len(ledger') = n + 1 /\ NewestHash' = sealed[c].hash
    BY <2>1, <2>2, LedgerGrows DEF TypeInv
  <2>4. n + 1 \in serial' /\ n + 1 \notin serial
    BY <2>1, <2>3 DEF SerialInv
  <2>5. alone[c]
    BY <1>1, <2>1, <2>4 DEF Commit
  <2>6. sealed[c].prev = NewestHash /\ Computed(sealed[c])
    BY <1>1, <2>5 DEF AloneInv, KnownInv, Commit
  <2>7. sealed[c].payload \in Payload /\ NewestHash' = Append(NewestHash, sealed[c].payload)
    BY <2>2, <2>3, <2>6 DEF Computed, calculate_record_hash, Record
  <2>8. QED
    BY <2>7 DEF Chain!Extend
<1>2. CASE UNCHANGED ledger
  BY <1>2 DEF NewestHash
<1>3. QED
  BY <1>1, <1>2 DEF Next, vars, Select, Adopt, AdoptForTail, Seal, Fail, Publish, Restart

(* The promise of HashChain holds for every call that no other overlapped, *)
(* after any forks, failures and restarts.                                 *)
THEOREM SerialCallsExtend == Spec => SerialCallsExtendHistory
<1>1. Init => AloneInv /\ SerialInv
  BY EmptySeq DEF Init, AloneInv, SerialInv, SerialRecordsLinked
<1>2. AloneInv /\ SerialInv /\ TypeInv /\ TypeInv' /\ [Next]_vars => (AloneInv /\ SerialInv)'
  BY SerialStep
<1>3. AloneInv /\ SerialInv /\ TypeInv /\ KnownInv /\ [Next]_vars
      => [Len(ledger') = Len(ledger) \/ Len(ledger') \in serial' => [Chain!Extend]_NewestHash]_vars
  BY ExtendStep
<1>4. QED
  BY <1>1, <1>2, <1>3, TypeInvariant, KnownInvariant, PTL DEF Spec, SerialCallsExtendHistory

-----------------------------------------------------------------------------
(* One call at a time: the ledger is the chain the documents promise.      *)

SingleInv ==
    /\ \A c \in Coroutine : Busy(c) => alone[c]
    /\ serial = 1..Len(ledger)

(* With a single caller every call is alone and every record serial. *)
LEMMA SingleStep ==
  ASSUME NEW c \in Coroutine, Coroutine = {c},
         TypeInv, TypeInv', SingleInv, [Next]_vars
  PROVE  SingleInv'
<1> USE DEF TypeInv
<1>1. CASE Select(c)
  BY <1>1 DEF SingleInv, Select, TypeOK, Busy
<1>2. CASE Adopt(c)
  BY <1>2 DEF SingleInv, Adopt, TypeOK, Busy
<1>3. CASE AdoptForTail(c)
  BY <1>3 DEF SingleInv, AdoptForTail, Return, TypeOK, Busy
<1>4. CASE Seal(c)
  BY <1>4 DEF SingleInv, Seal, TypeOK, Busy
<1>5. CASE Commit(c)
  <2>1. PICK n : n = Len(ledger)
    OBVIOUS
  <2>2. n \in Nat /\ Len(ledger') = n + 1
    BY <1>5, <2>1, LedgerGrows DEF Commit, LocalsOK
  <2>3. serial = 1..n
    BY <2>1 DEF SingleInv
  <2>4. serial' = serial \cup {n + 1}
    BY <1>5, <2>1 DEF SingleInv, Commit, Busy
  <2>5. serial' = 1..Len(ledger')
    BY <2>2, <2>3, <2>4
  <2>6. QED
    BY <1>5, <2>5 DEF SingleInv, Commit, TypeOK, Busy
<1>6. CASE Fail(c)
  BY <1>6 DEF SingleInv, Fail, Return, TypeOK, Busy
<1>7. CASE Publish(c)
  BY <1>7 DEF SingleInv, Publish, Return, TypeOK, Busy
<1>8. CASE Restart
  BY <1>8 DEF SingleInv, Restart, Return, TypeOK, Busy
<1>9. CASE UNCHANGED vars
  BY <1>9 DEF SingleInv, vars, Busy
<1>10. QED
  BY <1>1, <1>2, <1>3, <1>4, <1>5, <1>6, <1>7, <1>8, <1>9 DEF Next

LEMMA SingleInvariant ==
  ASSUME NEW c \in Coroutine, Coroutine = {c}
  PROVE  Spec => [](SingleInv /\ AloneInv /\ SerialInv /\ KnownInv /\ TypeInv)
<1>1. Init => SingleInv /\ AloneInv /\ SerialInv
  BY EmptySeq DEF Init, SingleInv, AloneInv, SerialInv, SerialRecordsLinked, Busy
<1>2. /\ SingleInv /\ AloneInv /\ SerialInv /\ TypeInv /\ TypeInv' /\ [Next]_vars
      => (SingleInv /\ AloneInv /\ SerialInv)'
  BY SerialStep, SingleStep
<1>3. QED
  BY <1>1, <1>2, TypeInvariant, KnownInvariant, PTL DEF Spec

(* When at most one call is in the logger at a time, verify_chain accepts  *)
(* the ledger after any number of records, failures and restarts.          *)
THEOREM SingleCallerChain ==
  ASSUME NEW c \in Coroutine, Coroutine = {c}
  PROVE  Spec => []ChainIntact
<1>1. TypeInv /\ SingleInv /\ SerialInv /\ KnownInv => ChainIntact
  BY LenProperties DEF TypeInv, TypeOK, SingleInv, SerialInv, SerialRecordsLinked,
     KnownInv, EveryRecordIsRooted, ChainIntact, verify_chain
<1>2. QED
  BY <1>1, SingleInvariant, PTL

(* When at most one call is in the logger at a time, the newest hash is    *)
(* one history that each commit extends and nothing else changes.          *)
THEOREM SingleCallerRefinement ==
  ASSUME NEW c \in Coroutine, Coroutine = {c}
  PROVE  Spec => ImplementsHashChain
<1>1. Init => Chain!Init
  BY DEF Init, Chain!Init, NewestHash, GENESIS_HASH
<1>2. ASSUME TypeInv, SingleInv, AloneInv, KnownInv, [Next]_vars
      PROVE  [Chain!Extend]_NewestHash
  <2>1. CASE Commit(c)
    <3>1. sealed[c] \in Record /\ ledger' = Append(ledger, sealed[c])
      BY <1>2, <2>1 DEF Commit, TypeInv, LocalsOK
    <3>2. NewestHash' = sealed[c].hash
      BY <1>2, <3>1, LedgerGrows DEF TypeInv
    <3>3. sealed[c].prev = NewestHash
      BY <1>2, <2>1 DEF SingleInv, AloneInv, Commit, Busy
    <3>4. Computed(sealed[c])
      BY <1>2, <2>1 DEF KnownInv, Commit
    <3>5. sealed[c].payload \in Payload /\ NewestHash' = Append(NewestHash, sealed[c].payload)
      BY <3>1, <3>2, <3>3, <3>4 DEF Computed, calculate_record_hash, Record
    <3>6. QED
      BY <3>5 DEF Chain!Extend
  <2>2. CASE UNCHANGED ledger
    BY <2>2 DEF NewestHash
  <2>3. QED
    BY <1>2, <2>1, <2>2 DEF Next, vars, Select, Adopt, AdoptForTail, Seal, Fail, Publish, Restart
<1>3. QED
  BY <1>1, <1>2, SingleInvariant, PTL DEF Spec, ImplementsHashChain, Chain!Spec

-----------------------------------------------------------------------------
(* What the verdict of the verifier is worth.                              *)

\* verify_chain accepts the rows l.
Accepts(l) ==
    \A i \in DOMAIN l :
        /\ l[i].prev = IF i = 1 THEN GENESIS_HASH ELSE l[i - 1].hash
        /\ l[i].hash = calculate_record_hash(l[i].prev, l[i].payload)

(* A set of numbers has a least one: induction, in terms of sets. *)
LEMMA LeastNumber ==
  ASSUME NEW S \in SUBSET Nat, S # {}
  PROVE  \E m \in S : \A n \in S : m <= n
<1>. DEFINE R == {ss \in Nat \X Nat : ss[1] < ss[2]}
<1>1. IsWellFoundedOn(R, Nat)
  BY NatLessThanWellFounded DEF OpToRel
<1>2. PICK m \in S : \A n \in S : ~ (<<n, m>> \in R)
  BY <1>1, WFMin
<1>3. ASSUME NEW n \in S PROVE m <= n
  <2>1. n \in Nat /\ m \in Nat /\ ~ (<<n, m>> \in R)
    BY <1>2
  <2>2. QED
    BY <2>1
<1>4. QED
  BY <1>3

(* A row is a record. *)
LEMMA RowType ==
  ASSUME NEW l \in Seq(Record)
  PROVE  /\ Len(l) \in Nat /\ DOMAIN l = 1..Len(l)
         /\ \A i \in 1..Len(l) : /\ l[i] \in Record
                                 /\ l[i].prev \in Seq(Payload)
                                 /\ l[i].payload \in Payload
                                 /\ l[i].hash \in Seq(Payload)
<1>1. Len(l) \in Nat /\ DOMAIN l = 1..Len(l) /\ \A i \in 1..Len(l) : l[i] \in Record
  BY ElementOfSeq
<1>2. \A r \in Record : r.prev \in Seq(Payload) /\ r.payload \in Payload /\ r.hash \in Seq(Payload)
  BY DEF Record, Hash
<1>3. QED
  BY <1>1, <1>2

(* The hash of each accepted record spells out the contents up to it. *)
LEMMA AcceptedHashes ==
  ASSUME NEW l \in Seq(Record), Accepts(l)
  PROVE  \A i \in 1..Len(l) : /\ Len(l[i].hash) = i
                              /\ \A j \in 1..i : l[i].hash[j] = l[j].payload
<1>. DEFINE Spelt(i) == /\ Len(l[i].hash) = i
                        /\ \A j \in 1..i : l[i].hash[j] = l[j].payload
            Wrong == {i \in 1..Len(l) : ~ Spelt(i)}
<1>1. /\ Len(l) \in Nat /\ DOMAIN l = 1..Len(l)
      /\ \A i \in 1..Len(l) : l[i].prev \in Seq(Payload) /\ l[i].payload \in Payload
  BY RowType
<1>2. SUFFICES ASSUME Wrong # {} PROVE FALSE
  OBVIOUS
<1>3. PICK m \in Wrong : \A i \in Wrong : m <= i
  <2>1. Wrong \in SUBSET Nat
    BY <1>1
  <2>. HIDE DEF Wrong
  <2>2. QED
    BY <1>2, <2>1, LeastNumber
<1>4. m \in 1..Len(l) /\ l[m].hash = Append(l[m].prev, l[m].payload)
  BY <1>1 DEF Accepts, calculate_record_hash
<1>5. Len(l[m].prev) = m - 1 /\ \A j \in 1..(m - 1) : l[m].prev[j] = l[j].payload
  <2>1. CASE m = 1
    BY <1>1, <1>4, <2>1, EmptySeq DEF Accepts, GENESIS_HASH
  <2>2. CASE m # 1
    <3>1. m - 1 \in 1..Len(l) /\ ~ (m <= m - 1)
      BY <1>1, <1>4, <2>2
    <3>2. Spelt(m - 1)
      BY <1>3, <3>1
    <3>3. l[m].prev = l[m - 1].hash
      BY <1>1, <1>4, <2>2 DEF Accepts
    <3>4. QED
      BY <3>2, <3>3
  <2>3. QED
    BY <2>1, <2>2
<1>6. /\ Len(l[m].hash) = m
      /\ l[m].hash[m] = l[m].payload
      /\ \A j \in 1..(m - 1) : l[m].hash[j] = l[m].prev[j]
  BY <1>1, <1>4, <1>5, AppendProperties
<1>7. Spelt(m)
  <2>1. \A j \in 1..m : j = m \/ j \in 1..(m - 1)
    BY <1>1, <1>4
  <2>2. QED
    BY <1>5, <1>6, <2>1
<1>8. QED
  BY <1>7

(* Accepted rows that agree in their contents agree altogether. *)
LEMMA AcceptedRows ==
  ASSUME NEW l \in Seq(Record), NEW m \in Seq(Record), Accepts(l), Accepts(m),
         NEW n \in Nat, n <= Len(l), n <= Len(m),
         \A i \in 1..n : l[i].payload = m[i].payload
  PROVE  \A i \in 1..n : l[i] = m[i]
<1>. SUFFICES ASSUME NEW i \in 1..n PROVE l[i] = m[i]
  OBVIOUS
<1>1. /\ Len(l) \in Nat /\ DOMAIN l = 1..Len(l) /\ Len(m) \in Nat /\ DOMAIN m = 1..Len(m)
      /\ i \in 1..Len(l) /\ i \in 1..Len(m) /\ l[i] \in Record /\ m[i] \in Record
  BY RowType
<1>2. \A k \in 1..n : l[k].hash = m[k].hash
  <2>1. ASSUME NEW k \in 1..n PROVE l[k].hash = m[k].hash
    <3>1. /\ k \in 1..Len(l) /\ k \in 1..Len(m)
          /\ l[k].hash \in Seq(Payload) /\ m[k].hash \in Seq(Payload)
      BY <1>1, RowType
    <3>2. Len(l[k].hash) = k /\ Len(m[k].hash) = k /\ \A j \in 1..k : l[k].hash[j] = m[k].hash[j]
      <4>1. \A j \in 1..k : l[k].hash[j] = l[j].payload /\ m[k].hash[j] = m[j].payload /\ j \in 1..n
        BY <3>1, AcceptedHashes
      <4>2. QED
        BY <3>1, <4>1, AcceptedHashes
    <3>3. QED
      BY <3>1, <3>2, SeqEqual
  <2>2. QED
    BY <2>1
<1>3. l[i].prev = m[i].prev
  <2>1. CASE i = 1
    BY <1>1, <2>1 DEF Accepts
  <2>2. CASE i # 1
    <3>1. i - 1 \in 1..n
      BY <2>2
    <3>2. QED
      BY <1>1, <1>2, <2>2, <3>1 DEF Accepts
  <2>3. QED
    BY <2>1, <2>2
<1>4. QED
  BY <1>1, <1>2, <1>3 DEF Record

(* The verifier's verdict, of two states. *)
LEMMA AcceptsIsValid ==
  /\ verify_chain.valid => Accepts(ledger)
  /\ (verify_chain.valid)' => Accepts(ledger')
  BY DEF verify_chain, Accepts, Linked, Untouched, expected_prev_hash

(* The newest hash of an accepted table is the history of all its records. *)
LEMMA NewestIsHistory ==
  ASSUME NEW l \in Seq(Record), Accepts(l),
         NEW h, h = IF l = << >> THEN GENESIS_HASH ELSE l[Len(l)].hash
  PROVE  Len(h) = Len(l) /\ \A i \in 1..Len(l) : h[i] = l[i].payload
<1>1. CASE l = << >>
  BY <1>1, EmptySeq DEF GENESIS_HASH
<1>2. CASE l # << >>
  <2>1. Len(l) \in Nat /\ Len(l) # 0
    BY <1>2, EmptySeq, RowType
  <2>2. Len(l) \in 1..Len(l)
    BY <2>1
  <2>3. QED
    BY <1>2, <2>2, AcceptedHashes
<1>3. QED
  BY <1>1, <1>2

(* What the verifier accepts is pinned down by its newest hash: of two     *)
(* tables it accepts, at whatever times, of which one's newest hash        *)
(* continues the other's, the one continues the other record by record.    *)
(* Nothing that is hashed of an accepted ledger can be changed, left out   *)
(* or put in later under the same newest hash.  (Two tables are the values *)
(* of ledger in two states, whatever lies between them.)                   *)
THEOREM NewestHashCommits ==
  ASSUME ledger \in Seq(Record), ledger' \in Seq(Record),
         verify_chain.valid, (verify_chain.valid)',
         Len(NewestHash) <= Len(NewestHash'),
         \A i \in 1..Len(NewestHash) : NewestHash'[i] = NewestHash[i]
  PROVE  /\ Len(ledger) <= Len(ledger')
         /\ \A i \in 1..Len(ledger) : ledger'[i] = ledger[i]
         /\ NewestHash' = NewestHash => ledger' = ledger
<1>1. Accepts(ledger) /\ Accepts(ledger')
  BY AcceptsIsValid
<1>2. /\ Len(NewestHash) = Len(ledger)
      /\ \A i \in 1..Len(ledger) : NewestHash[i] = ledger[i].payload
  BY <1>1, NewestIsHistory DEF NewestHash
<1>3. /\ Len(NewestHash') = Len(ledger')
      /\ \A i \in 1..Len(ledger') : NewestHash'[i] = ledger'[i].payload
  BY <1>1, NewestIsHistory DEF NewestHash
<1>4. Len(ledger) \in Nat /\ Len(ledger') \in Nat /\ Len(ledger) <= Len(ledger')
  BY <1>2, <1>3, RowType
<1>5. \A i \in 1..Len(ledger) : ledger[i].payload = ledger'[i].payload
  BY <1>2, <1>3, <1>4
<1>6. \A i \in 1..Len(ledger) : ledger[i] = ledger'[i]
  BY <1>1, <1>4, <1>5, AcceptedRows
<1>7. ASSUME NewestHash' = NewestHash PROVE ledger' = ledger
  <2>1. Len(ledger') = Len(ledger)
    BY <1>2, <1>3, <1>7
  <2>2. QED
    BY <1>6, <2>1, SeqEqual
<1>8. QED
  BY <1>4, <1>6, <1>7

(* A verdict against the ledger is about its first wrong record: all the   *)
(* records it counts as verified are linked and recompute, the next does   *)
(* not, and it is called broken exactly if its link is wrong.              *)
LEMMA VerdictNamesFirst ==
  ASSUME ledger \in Seq(Record), ~ verify_chain.valid
  PROVE  /\ verify_chain.verified + 1 \in 1..Len(ledger)
         /\ \A i \in 1..verify_chain.verified : Linked(i) /\ Untouched(i)
         /\ ~ (Linked(verify_chain.verified + 1) /\ Untouched(verify_chain.verified + 1))
         /\ verify_chain.error = IF Linked(verify_chain.verified + 1) THEN "tamper" ELSE "broken"
<1>. DEFINE Wrong == {i \in DOMAIN ledger : ~ (Linked(i) /\ Untouched(i))}
            Is(i) == /\ i \in DOMAIN ledger
                     /\ ~ (Linked(i) /\ Untouched(i))
                     /\ \A j \in 1..(i - 1) : Linked(j) /\ Untouched(j)
            first == CHOOSE i \in DOMAIN ledger :
                        /\ ~(Linked(i) /\ Untouched(i))
                        /\ \A j \in 1..(i - 1) : Linked(j) /\ Untouched(j)
<1>1. Len(ledger) \in Nat /\ DOMAIN ledger = 1..Len(ledger)
  BY RowType
<1>2. verify_chain = [valid    |-> FALSE,
                      error    |-> IF Linked(first) THEN "tamper" ELSE "broken",
                      verified |-> first - 1]
      /\ Wrong # {}
  BY DEF verify_chain
<1>3. PICK m \in Wrong : \A i \in Wrong : m <= i
  <2>1. Wrong \in SUBSET Nat
    BY <1>1
  <2>. HIDE DEF Wrong
  <2>2. QED
    BY <1>2, <2>1, LeastNumber
<1>4. Is(m)
  <2>1. ASSUME NEW j \in 1..(m - 1) PROVE Linked(j) /\ Untouched(j)
    <3>1. j \in DOMAIN ledger /\ ~ (m <= j)
      BY <1>1
    <3>2. QED
      BY <1>3, <3>1
  <2>2. QED
    BY <2>1
<1>5. Is(first)
  BY <1>4
<1>. HIDE DEF first
<1>6. verify_chain.verified = first - 1 /\ verify_chain.error = IF Linked(first) THEN "tamper" ELSE "broken"
  BY <1>2
<1>7. first \in 1..Len(ledger) /\ (first - 1) + 1 = first
  BY <1>1, <1>5
<1>8. QED
  BY <1>5, <1>6, <1>7

(* However calls interleave, fail and restart: a ledger that nobody edited *)
(* is never reported as tampered with, at worst as broken.                 *)
THEOREM NeverCalledTampered == Spec => [](verify_chain.error # "tamper")
<1>1. TypeOK /\ EveryRecordIsRooted => verify_chain.error # "tamper"
  <2>. SUFFICES ASSUME TypeOK, EveryRecordIsRooted PROVE verify_chain.error # "tamper"
    OBVIOUS
  <2>1. CASE verify_chain.valid
    BY <2>1 DEF verify_chain
  <2>2. CASE ~ verify_chain.valid
    <3>1. /\ verify_chain.verified + 1 \in DOMAIN ledger
          /\ ~ (Linked(verify_chain.verified + 1) /\ Untouched(verify_chain.verified + 1))
          /\ verify_chain.error = IF Linked(verify_chain.verified + 1) THEN "tamper" ELSE "broken"
      BY <2>2, VerdictNamesFirst, RowType DEF TypeOK
    <3>2. Untouched(verify_chain.verified + 1)
      BY <3>1 DEF EveryRecordIsRooted
    <3>3. QED
      BY <3>1, <3>2
  <2>3. QED
    BY <2>1, <2>2
<1>2. QED
  BY <1>1, TypeCorrect, Rooted, PTL
=============================================================================
