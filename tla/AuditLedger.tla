----------------------------- MODULE AuditLedger -----------------------------
(***************************************************************************)
(* The hash-chained audit ledger: audit/logger.py (AuditLogger) and the    *)
(* verdict of audit/verifier.py (AuditChainVerifier.verify_chain).         *)
(*                                                                         *)
(* One AuditLogger instance is shared by every request handler of the      *)
(* proxy.  A handler that calls log_request first runs init_db, which      *)
(* reads the newest record_hash from SQLite and stores it in               *)
(* self._last_hash; then, after the awaits that close the connection, it   *)
(* reads self._last_hash back, hashes the record, and awaits the INSERT    *)
(* and its commit; at the end it stores the new hash in self._last_hash.   *)
(* get_recent_entries (GET /admin/audit/recent) runs init_db on the same   *)
(* instance.  Every await lets another coroutine run, so each handler is a *)
(* process here and the code between two awaits is one atomic step.        *)
(*                                                                         *)
(* SHA-256 is taken to be free of collisions: the hash of a record is the  *)
(* hash it extends with the payload appended, so equal hashes mean equal   *)
(* histories.  A payload is everything else that is hashed (timestamp,     *)
(* service, profile, method, path, status, cost); two records may carry    *)
(* the same one, as two calls within one microsecond do.                   *)
(***************************************************************************)
EXTENDS Naturals, Sequences, FiniteSets

CONSTANTS
    Coroutine,      \* the concurrent calls into the logger
    Payload,        \* the hashed contents of a record, its link apart
    None,           \* Python's None
    MaxRecords      \* bound of the model: no log_request starts on a longer ledger

Hash == Seq(Payload)
GENESIS_HASH == << >>

ASSUME NoneAssumption == None \notin Hash
ASSUME MaxRecordsAssumption == MaxRecords \in Nat

VARIABLES
    ledger,     \* the rows of table audit_ledger in the order of their ids
    lastHash,   \* AuditLogger._last_hash
    pc,         \* where each coroutine waits
    op,         \* which call each coroutine runs
    row,        \* the hash init_db has fetched and not yet stored
    sealed,     \* the record that log_request is about to insert
    alone,      \* ghost: no other call has overlapped this one so far
    serial      \* ghost: the positions of records written by such calls

vars == <<ledger, lastHash, pc, op, row, sealed, alone, serial>>

Record == [prev : Hash, payload : Payload, hash : Hash]

\* Mutant: the contents are missing from what is hashed.
HashOfLink(prev, payload) == Append(prev, None)

calculate_record_hash(prev, payload) == Append(prev, payload)

\* SELECT record_hash ... ORDER BY id DESC LIMIT 1, GENESIS_HASH when there is no row.
NewestHash == IF ledger = << >> THEN GENESIS_HASH ELSE ledger[Len(ledger)].hash

Busy(c) == pc[c] # "idle"

\* The calls in C return, raise or die: their local variables are gone.
Return(C) ==
    /\ pc' = [c \in Coroutine |-> IF c \in C THEN "idle" ELSE pc[c]]
    /\ op' = [c \in Coroutine |-> IF c \in C THEN None ELSE op[c]]
    /\ row' = [c \in Coroutine |-> IF c \in C THEN None ELSE row[c]]
    /\ sealed' = [c \in Coroutine |-> IF c \in C THEN None ELSE sealed[c]]
    /\ alone' = [c \in Coroutine |-> c \notin C /\ alone[c]]

-----------------------------------------------------------------------------
Init ==
    /\ ledger = << >>
    /\ lastHash = None
    /\ pc = [c \in Coroutine |-> "idle"]
    /\ op = [c \in Coroutine |-> None]
    /\ row = [c \in Coroutine |-> None]
    /\ sealed = [c \in Coroutine |-> None]
    /\ alone = [c \in Coroutine |-> FALSE]
    /\ serial = {}

\* A call enters init_db: the SELECT has run, its result is on its way back.
Select(c) ==
    /\ ~Busy(c)
    /\ \E o \in {"log", "tail"} :
          /\ o = "log" => Len(ledger) < MaxRecords
          /\ op' = [op EXCEPT ![c] = o]
    /\ pc' = [pc EXCEPT ![c] = "selected"]
    /\ row' = [row EXCEPT ![c] = NewestHash]
    /\ alone' = [d \in Coroutine |-> d = c /\ \A e \in Coroutine : ~Busy(e)]
    /\ UNCHANGED <<ledger, lastHash, sealed, serial>>

\* Mutant: init_db recovers the hash only for a logger that has none.
AdoptOnce(c) ==
    /\ pc[c] = "selected"
    /\ op[c] = "log"
    /\ lastHash' = IF lastHash = None THEN row[c] ELSE lastHash
    /\ pc' = [pc EXCEPT ![c] = "adopted"]
    /\ UNCHANGED <<ledger, op, row, sealed, alone, serial>>

\* init_db stores what it read in _last_hash and returns to log_request through
\* the awaits that close its connection.
Adopt(c) ==
    /\ pc[c] = "selected"
    /\ op[c] = "log"
    /\ lastHash' = row[c]
    /\ pc' = [pc EXCEPT ![c] = "adopted"]
    /\ UNCHANGED <<ledger, op, row, sealed, alone, serial>>

\* The same store on behalf of get_recent_entries, which then only reads.
AdoptForTail(c) ==
    /\ pc[c] = "selected"
    /\ op[c] = "tail"
    /\ lastHash' = row[c]
    /\ Return({c})
    /\ UNCHANGED <<ledger, serial>>

\* Mutant: _last_hash moves on before the record is stored.
SealAndPublish(c) ==
    /\ pc[c] = "adopted"
    /\ \E p \in Payload :
         LET prev == IF lastHash = None THEN GENESIS_HASH ELSE lastHash
             hash == calculate_record_hash(prev, p)
         IN  /\ sealed' = [sealed EXCEPT ![c] = [prev |-> prev, payload |-> p, hash |-> hash]]
             /\ lastHash' = hash
    /\ pc' = [pc EXCEPT ![c] = "sealed"]
    /\ UNCHANGED <<ledger, op, row, alone, serial>>

\* log_request reads _last_hash and computes the record, with no await between.
Seal(c) ==
    /\ pc[c] = "adopted"
    /\ \E p \in Payload :
         LET prev == IF lastHash = None THEN GENESIS_HASH ELSE lastHash
         IN  sealed' = [sealed EXCEPT ![c] = [prev    |-> prev,
                                              payload |-> p,
                                              hash    |-> calculate_record_hash(prev, p)]]
    /\ pc' = [pc EXCEPT ![c] = "sealed"]
    /\ UNCHANGED <<ledger, lastHash, op, row, alone, serial>>

\* INSERT and commit; SQLite makes them one transaction.
Commit(c) ==
    /\ pc[c] = "sealed"
    /\ ledger' = Append(ledger, sealed[c])
    /\ serial' = IF alone[c] THEN serial \cup {Len(ledger) + 1} ELSE serial
    /\ pc' = [pc EXCEPT ![c] = "committed"]
    /\ UNCHANGED <<lastHash, op, row, sealed, alone>>

\* INSERT or commit raises (database is locked, disk full): nothing is stored.
Fail(c) ==
    /\ pc[c] = "sealed"
    /\ Return({c})
    /\ UNCHANGED <<ledger, lastHash, serial>>

\* The connection is closed: self._last_hash = record_hash.
Publish(c) ==
    /\ pc[c] = "committed"
    /\ lastHash' = sealed[c].hash
    /\ Return({c})
    /\ UNCHANGED <<ledger, serial>>

\* The proxy stops at any point and starts again on the same database.
Restart ==
    /\ lastHash' = None
    /\ Return(Coroutine)
    /\ UNCHANGED <<ledger, serial>>

Next ==
    \/ \E c \in Coroutine :
          \/ Select(c) \/ Adopt(c) \/ AdoptForTail(c) \/ Seal(c)
          \/ Commit(c) \/ Fail(c) \/ Publish(c)
    \/ Restart

Spec == Init /\ [][Next]_vars

-----------------------------------------------------------------------------
(* AuditChainVerifier.verify_chain reads all rows in one SELECT, so it     *)
(* judges one state of the table.                                          *)

expected_prev_hash(i) == IF i = 1 THEN GENESIS_HASH ELSE ledger[i - 1].hash
Linked(i)   == ledger[i].prev = expected_prev_hash(i)
Untouched(i) == calculate_record_hash(ledger[i].prev, ledger[i].payload) = ledger[i].hash

verify_chain ==
    IF \A i \in DOMAIN ledger : Linked(i) /\ Untouched(i)
      THEN [valid |-> TRUE, error |-> "none", verified |-> Len(ledger)]
      ELSE LET first == CHOOSE i \in DOMAIN ledger :
                           /\ ~(Linked(i) /\ Untouched(i))
                           /\ \A j \in 1..(i - 1) : Linked(j) /\ Untouched(j)
           IN  [valid    |-> FALSE,
                error    |-> IF Linked(first) THEN "tamper" ELSE "broken",
                verified |-> first - 1]

-----------------------------------------------------------------------------
(* The promise: the newest hash is one history that only ever grows.       *)
Chain == INSTANCE HashChain WITH history <- NewestHash

(* Types of the variables. *)
TypeOK ==
    /\ ledger \in Seq(Record)
    /\ lastHash \in Hash \cup {None}
    /\ pc \in [Coroutine -> {"idle", "selected", "adopted", "sealed", "committed"}]
    /\ op \in [Coroutine -> {"log", "tail", None}]
    /\ row \in [Coroutine -> Hash \cup {None}]
    /\ sealed \in [Coroutine -> Record \cup {None}]
    /\ alone \in [Coroutine -> BOOLEAN]
    /\ serial \in SUBSET Nat

(* A record written by a log_request that no other call into the logger    *)
(* overlapped extends the record stored just before it, whatever failures, *)
(* forks and restarts the ledger went through earlier.                     *)
SerialRecordsLinked == \A i \in DOMAIN ledger : i \in serial => Linked(i)

(* However calls interleave, every record stored by log_request extends    *)
(* the genesis hash or a record stored earlier, and its own hash           *)
(* recomputes: a fork, never a dangling link, is the worst concurrency and *)
(* restarts can do, and the verifier never reports tampering on its own.   *)
EveryRecordIsRooted ==
    \A i \in DOMAIN ledger :
        /\ Untouched(i)
        /\ \/ ledger[i].prev = GENESIS_HASH
           \/ \E j \in 1..(i - 1) : ledger[j].hash = ledger[i].prev

(* docs/architecture.md, "Audit logging": each record holds the hash of    *)
(* the entry before it, so verify_chain accepts a ledger nobody edited.    *)
ChainIntact == verify_chain.valid

(* The promise, as far as it goes: a record that no other call overlapped   *)
(* extends the whole history before it by its contents, and nothing but a  *)
(* commit ever changes that history, restarts and failures included.       *)
SerialCallsExtendHistory ==
    [][Len(ledger') = Len(ledger) \/ Len(ledger') \in serial' => [Chain!Extend]_NewestHash]_vars

(* With one caller at a time the ledger is one growing history.            *)
ImplementsHashChain == Chain!Spec
=============================================================================
