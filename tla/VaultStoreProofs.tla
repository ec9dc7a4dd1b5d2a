--------------------------- MODULE VaultStoreProofs ---------------------------
(* What VaultStore guarantees for any set of clients, profiles and secrets. *)
EXTENDS VaultStore, TLAPS

-----------------------------------------------------------------------------
(* Types.  A rotation holds what it read until it writes.                   *)

LocalsOK == \A c \in Client : pc[c] = "rotating" => arg[c] # None /\ seen[c] # None

TypeInv == TypeOK /\ LocalsOK

(* The items of the table are items. *)
LEMMA StoredAreItems == TypeOK => Stored \subseteq Item
<1> SUFFICES ASSUME TypeOK, NEW n \in Name, rows[n] # None PROVE ItemOf(n) \in Item
  BY DEF Stored
<1>1. rows[n] \in Row
  BY DEF TypeOK
<1>2. QED
  BY <1>1 DEF ItemOf, Item, Row

(* What the upsert leaves is a row. *)
LEMMA UpsertedIsRow ==
  ASSUME TypeOK, NEW item \in Item, NEW read \in [secret : Secret, version : Nat \ {0}] \cup {None}
  PROVE  Upserted(item, read) \in Row
<1>1. CASE rows[item.name] = None
  <2>1. (IF read = None THEN 1 ELSE read.version) \in Nat \ {0}
    OBVIOUS
  <2>2. QED
    BY <1>1, <2>1 DEF Upserted, Row, Item
<1>2. CASE rows[item.name] # None
  <2>1. rows[item.name] \in Row
    BY <1>2 DEF TypeOK, Item
  <2>2. QED
    BY <1>2, <2>1 DEF Upserted, Row, Item
<1>3. QED
  BY <1>1, <1>2

(* Committing a row, or none, keeps the types. *)
LEMMA CommitKeepsTypes ==
  ASSUME TypeOK, NEW c \in Client, NEW n \in Name, NEW row \in Row \cup {None}, Commit(c, n, row)
  PROVE  /\ rows' \in [Name -> Row \cup {None}]
         /\ touched' \in [Client -> SUBSET Name]
         /\ history' \subseteq Item
<1>1. rows' \in [Name -> Row \cup {None}]
  BY DEF TypeOK, Commit
<1>2. touched' \in [Client -> SUBSET Name]
  BY DEF TypeOK, Commit
<1>3. row # None => [name |-> n, url |-> row.url, secret |-> row.secret] \in Item
  BY DEF Row, Item
<1>4. QED
  BY <1>1, <1>2, <1>3 DEF TypeOK, Commit

(* Starting and leaving an operation keep the types. *)
LEMMA BeginKeepsTypes ==
  ASSUME TypeInv, NEW c \in Client, NEW I \in SUBSET Item,
         NEW operation \in {"storing", "rotating", "using", "saving"}, Begin(c, operation, I)
  PROVE  /\ pc' \in [Client -> {"idle", "ok", "failed", "storing", "rotating", "using", "saving"}]
         /\ todo' \in [Client -> SUBSET Item]
         /\ done' \in [Client -> SUBSET Item]
         /\ touched' \in [Client -> SUBSET Name]
  BY DEF TypeInv, TypeOK, Begin

LEMMA ForgetKeepsTypes ==
  ASSUME TypeInv, NEW c \in Client, NEW how \in {"ok", "failed"}, Forget(c, how)
  PROVE  /\ pc' \in [Client -> {"idle", "ok", "failed", "storing", "rotating", "using", "saving"}]
         /\ arg' \in [Client -> Item \cup {None}]
         /\ seen' \in [Client -> [secret : Secret, version : Nat \ {0}] \cup {None}]
         /\ todo' \in [Client -> SUBSET Item]
         /\ done' \in [Client -> SUBSET Item]
         /\ LocalsOK'
  BY DEF TypeInv, TypeOK, LocalsOK, Forget

(* The row a rotation writes is a row. *)
LEMMA RotatedIsRow ==
  ASSUME TypeInv, NEW c \in Client, pc[c] = "rotating", rows[arg[c].name] # None
  PROVE  /\ arg[c] \in Item
         /\ seen[c] \in [secret : Secret, version : Nat \ {0}]
         /\ rows[arg[c].name] \in Row
         /\ [rows[arg[c].name] EXCEPT !.secret  = arg[c].secret,
                                      !.prev    = seen[c].secret,
                                      !.version = seen[c].version + 1] \in Row
<1>1. arg[c] \in Item /\ seen[c] \in [secret : Secret, version : Nat \ {0}]
  BY DEF TypeInv, TypeOK, LocalsOK
<1>2. rows[arg[c].name] \in Row
  BY <1>1 DEF TypeInv, TypeOK, Item
<1>3. seen[c].version + 1 \in Nat \ {0}
  BY <1>1
<1>4. QED
  BY <1>1, <1>2, <1>3 DEF Row, Item

(* Every variable keeps its type. *)
LEMMA TypeInvariant == Spec => []TypeInv
<1>1. Init => TypeInv
  BY DEF Init, TypeInv, TypeOK, LocalsOK
<1>2. TypeInv /\ [Next]_vars => TypeInv'
  <2> SUFFICES ASSUME TypeInv, [Next]_vars PROVE TypeInv'
    OBVIOUS
  <2>0. TypeOK /\ LocalsOK
    BY DEF TypeInv
  <2>1. ASSUME NEW c \in Client, SetBegin(c) PROVE TypeInv'
    <3>1. PICK item \in Item : Begin(c, "storing", {item})
      BY <2>1 DEF SetBegin
    <3>2. {item} \in SUBSET Item
      OBVIOUS
    <3>3. QED
      BY <2>0, <2>1, <3>1, <3>2, BeginKeepsTypes DEF SetBegin, TypeInv, TypeOK, LocalsOK, Begin
  <2>2. ASSUME NEW c \in Client, ImportBegin(c) PROVE TypeInv'
    <3>1. backup \in SUBSET Item
      BY <2>0, <2>2 DEF ImportBegin, TypeOK
    <3>2. QED
      BY <2>0, <2>2, <3>1, BeginKeepsTypes DEF ImportBegin, TypeInv, TypeOK, LocalsOK, Begin
  <2>3. ASSUME NEW c \in Client, SetRead(c) PROVE TypeInv'
    <3>1. PICK item \in todo[c] :
            /\ arg' = [arg EXCEPT ![c] = item]
            /\ seen' = [seen EXCEPT ![c] = IF rows[item.name] = None THEN None
                                ELSE [secret |-> rows[item.name].secret, version |-> rows[item.name].version]]
      BY <2>3 DEF SetRead
    <3>2. item \in Item
      BY <2>0 DEF TypeOK
    <3>3. rows[item.name] # None =>
            [secret |-> rows[item.name].secret, version |-> rows[item.name].version]
              \in [secret : Secret, version : Nat \ {0}]
      <4>1. rows[item.name] \in Row \cup {None}
        BY <2>0, <3>2 DEF TypeOK, Item
      <4>2. QED
        BY <4>1 DEF Row
    <3>4. seen' \in [Client -> [secret : Secret, version : Nat \ {0}] \cup {None}]
      BY <2>0, <3>1, <3>3 DEF TypeOK
    <3>5. arg' \in [Client -> Item \cup {None}]
      BY <2>0, <3>1, <3>2 DEF TypeOK
    <3>6. QED
      BY <2>0, <2>3, <3>1, <3>4, <3>5 DEF SetRead, TypeInv, TypeOK, LocalsOK
  <2>4. ASSUME NEW c \in Client, SetWrite(c) PROVE TypeInv'
    <3>1. arg[c] \in Item /\ arg[c].name \in Name
      BY <2>0, <2>4 DEF SetWrite, TypeOK, Item
    <3>2. seen[c] \in [secret : Secret, version : Nat \ {0}] \cup {None}
      BY <2>0 DEF TypeOK
    <3>3. Upserted(arg[c], seen[c]) \in Row \cup {None}
      BY <2>0, <3>1, <3>2, UpsertedIsRow
    <3>4. Commit(c, arg[c].name, Upserted(arg[c], seen[c]))
      BY <2>4 DEF SetWrite
    <3>5. /\ rows' \in [Name -> Row \cup {None}]
          /\ touched' \in [Client -> SUBSET Name]
          /\ history' \subseteq Item
      BY <2>0, <3>1, <3>3, <3>4, CommitKeepsTypes
    <3>6. QED
      BY <2>0, <2>4, <3>1, <3>5 DEF SetWrite, TypeInv, TypeOK, LocalsOK
  <2>5. ASSUME NEW c \in Client, RotateRead(c) PROVE TypeInv'
    <3>1. PICK n \in Name, s \in Secret :
            /\ rows[n] # None
            /\ arg' = [arg EXCEPT ![c] = [name |-> n, url |-> rows[n].url, secret |-> s]]
            /\ seen' = [seen EXCEPT ![c] = [secret |-> rows[n].secret, version |-> rows[n].version]]
      BY <2>5 DEF RotateRead
    <3>2. rows[n] \in Row
      BY <2>0, <3>1 DEF TypeOK
    <3>3. [name |-> n, url |-> rows[n].url, secret |-> s] \in Item
      BY <3>2 DEF Row, Item
    <3>4. [secret |-> rows[n].secret, version |-> rows[n].version] \in [secret : Secret, version : Nat \ {0}]
      BY <3>2 DEF Row
    <3>5. Begin(c, "rotating", {})
      BY <2>5 DEF RotateRead
    <3>6. LocalsOK'
      BY <2>0, <3>1, <3>3, <3>4, <3>5, VaultAssumption DEF LocalsOK, TypeOK, Begin, Item
    <3>7. QED
      BY <2>0, <2>5, <3>1, <3>3, <3>4, <3>5, <3>6, BeginKeepsTypes DEF RotateRead, TypeInv, TypeOK
  <2>6. ASSUME NEW c \in Client, RotateWrite(c) PROVE TypeInv'
    <3>1. Forget(c, "ok")
      BY <2>6 DEF RotateWrite
    <3>2. /\ rows' \in [Name -> Row \cup {None}]
          /\ touched' \in [Client -> SUBSET Name]
          /\ history' \subseteq Item
      <4>1. CASE rows[arg[c].name] = None
        BY <2>0, <2>6, <4>1 DEF RotateWrite, TypeOK
      <4>2. CASE rows[arg[c].name] # None
        <5>1. pc[c] = "rotating"
          BY <2>6 DEF RotateWrite
        <5>2. Commit(c, arg[c].name, [rows[arg[c].name] EXCEPT !.secret  = arg[c].secret,
                                                              !.prev    = seen[c].secret,
                                                              !.version = seen[c].version + 1])
          BY <2>6, <4>2 DEF RotateWrite
        <5>3. arg[c].name \in Name
          BY <4>2, <5>1, RotatedIsRow DEF Item
        <5>4. QED
          BY <2>0, <4>2, <5>1, <5>2, <5>3, RotatedIsRow, CommitKeepsTypes
      <4>3. QED
        BY <4>1, <4>2
    <3>3. QED
      BY <2>0, <2>6, <3>1, <3>2, ForgetKeepsTypes DEF RotateWrite, TypeInv, TypeOK
  <2>7. ASSUME NEW c \in Client, Delete(c) PROVE TypeInv'
    <3>1. PICK n \in Name : Commit(c, n, None)
      BY <2>7 DEF Delete
    <3>2. QED
      BY <2>0, <2>7, <3>1, CommitKeepsTypes, ForgetKeepsTypes DEF Delete, TypeInv, TypeOK
  <2>8. ASSUME NEW c \in Client, UseBegin(c) PROVE TypeInv'
    <3>1. PICK item \in Stored : Begin(c, "using", {item})
      BY <2>8 DEF UseBegin
    <3>2. {item} \in SUBSET Item
      BY <2>0, StoredAreItems
    <3>3. QED
      BY <2>0, <2>8, <3>1, <3>2, BeginKeepsTypes DEF UseBegin, TypeInv, TypeOK, LocalsOK, Begin
  <2>9. ASSUME NEW c \in Client, ExportBegin(c) PROVE TypeInv'
    <3>1. Stored \in SUBSET Item
      BY <2>0, StoredAreItems
    <3>2. QED
      BY <2>0, <2>9, <3>1, BeginKeepsTypes DEF ExportBegin, TypeInv, TypeOK, LocalsOK, Begin
  <2>10. ASSUME NEW c \in Client, ReadSecret(c) PROVE TypeInv'
    <3>1. PICK item \in todo[c] :
            /\ todo' = [todo EXCEPT ![c] = @ \ {item}]
            /\ done' = [done EXCEPT ![c] =
                           IF HasSecret(item.name)
                             THEN @ \cup {[item EXCEPT !.secret = rows[item.name].secret]}
                             ELSE @]
      BY <2>10 DEF ReadSecret
    <3>2. item \in Item
      BY <2>0 DEF TypeOK
    <3>3. HasSecret(item.name) => [item EXCEPT !.secret = rows[item.name].secret] \in Item
      <4>1. rows[item.name] \in Row \cup {None}
        BY <2>0, <3>2 DEF TypeOK, Item
      <4>2. QED
        BY <3>2, <4>1 DEF HasSecret, Row, Item
    <3>4. todo' \in [Client -> SUBSET Item] /\ done' \in [Client -> SUBSET Item]
      BY <2>0, <3>1, <3>3 DEF TypeOK
    <3>5. QED
      BY <2>0, <2>10, <3>4 DEF ReadSecret, TypeInv, TypeOK, LocalsOK
  <2>11. ASSUME NEW c \in Client, Send(c) PROVE TypeInv'
    BY <2>0, <2>11, ForgetKeepsTypes DEF Send, TypeInv, TypeOK
  <2>12. ASSUME NEW c \in Client, SaveBackup(c) PROVE TypeInv'
    BY <2>0, <2>12, ForgetKeepsTypes DEF SaveBackup, TypeInv, TypeOK
  <2>13. ASSUME NEW c \in Client, Abort(c) PROVE TypeInv'
    BY <2>0, <2>13, ForgetKeepsTypes DEF Abort, TypeInv, TypeOK
  <2>14. CASE UNCHANGED vars
    BY <2>0, <2>14 DEF vars, locals, TypeInv, TypeOK, LocalsOK
  <2>15. QED
    BY <2>1, <2>2, <2>3, <2>4, <2>5, <2>6, <2>7, <2>8, <2>9, <2>10, <2>11, <2>12, <2>13, <2>14 DEF Next
<1>3. QED
  BY <1>1, <1>2, PTL DEF Spec

(* The table, the backup file and what every client holds keep their types, *)
(* whatever the clients do at the same time.                                *)
THEOREM TypeCorrect == Spec => []TypeOK
<1>1. TypeInv => TypeOK
  BY DEF TypeInv
<1>2. QED
  BY <1>1, TypeInvariant, PTL

-----------------------------------------------------------------------------
(* Backup keys.  Every row is a row of the table's history, and so is the  *)
(* secret a rotation has read and is going to keep.                        *)

RowsInHistory == \A n \in Name : rows[n] # None => ItemOf(n) \in history

ReadInHistory ==
  \A c \in Client : pc[c] = "rotating"
    => \E item \in history : item.name = arg[c].name /\ item.secret = seen[c].secret

BackupInv == RowsInHistory /\ ReadInHistory /\ BackupKeyWasInUse /\ BackupKeyHasVersion

(* The history only grows. *)
LEMMA HistoryGrows ==
  ASSUME TypeInv, [Next]_vars
  PROVE  history \subseteq history'
<1>1. ASSUME NEW c \in Client, NEW n \in Name, NEW row, Commit(c, n, row) PROVE history \subseteq history'
  BY <1>1 DEF Commit
<1>2. ASSUME NEW c \in Client, SetWrite(c) PROVE history \subseteq history'
  BY <1>2 DEF SetWrite, Commit
<1>3. ASSUME NEW c \in Client, RotateWrite(c) PROVE history \subseteq history'
  BY <1>3 DEF RotateWrite, Commit
<1>4. ASSUME NEW c \in Client, Delete(c) PROVE history \subseteq history'
  BY <1>4 DEF Delete, Commit
<1>5. QED
  BY <1>2, <1>3, <1>4
     DEF Next, vars, SetBegin, ImportBegin, SetRead, RotateRead, UseBegin, ExportBegin, ReadSecret,
         Send, SaveBackup, Abort

(* Committing a row whose backup key was in use, in a version above 1,     *)
(* or a row with no backup key, keeps the invariant on the table.          *)
LEMMA CommitKeepsBackups ==
  ASSUME TypeInv, BackupInv, NEW c \in Client, NEW n \in Name, NEW row \in Row \cup {None},
         Commit(c, n, row),
         row # None /\ row.prev # None
           => /\ row.version > 1
              /\ \E item \in history : item.name = n /\ item.secret = row.prev
  PROVE  RowsInHistory' /\ BackupKeyWasInUse' /\ BackupKeyHasVersion'
<1>1. rows \in [Name -> Row \cup {None}]
  BY DEF TypeInv, TypeOK
<1>2. \A m \in Name : rows'[m] = IF m = n THEN row ELSE rows[m]
  BY <1>1 DEF Commit
<1>3. /\ history \subseteq history'
      /\ row # None => [name |-> n, url |-> row.url, secret |-> row.secret] \in history'
  BY DEF Commit
<1>4. RowsInHistory'
  BY <1>2, <1>3 DEF BackupInv, RowsInHistory, ItemOf
<1>5. BackupKeyWasInUse'
  BY <1>2, <1>3 DEF BackupInv, BackupKeyWasInUse
<1>6. BackupKeyHasVersion'
  BY <1>2 DEF BackupInv, BackupKeyHasVersion
<1>7. QED
  BY <1>4, <1>5, <1>6

(* The invariant of the backup keys. *)
LEMMA BackupInvariant == Spec => []BackupInv
<1>1. Init => BackupInv
  BY DEF Init, BackupInv, RowsInHistory, ReadInHistory, BackupKeyWasInUse, BackupKeyHasVersion
<1>2. TypeInv /\ TypeInv' /\ BackupInv /\ [Next]_vars => BackupInv'
  <2> SUFFICES ASSUME TypeInv, TypeInv', BackupInv, [Next]_vars PROVE BackupInv'
    OBVIOUS
  <2>0. TypeOK /\ LocalsOK /\ RowsInHistory /\ ReadInHistory /\ BackupKeyWasInUse /\ BackupKeyHasVersion
    BY DEF TypeInv, BackupInv
  <2>1. history \subseteq history'
    BY HistoryGrows
  <2>2. ASSUME UNCHANGED <<rows, history>> PROVE RowsInHistory' /\ BackupKeyWasInUse' /\ BackupKeyHasVersion'
    BY <2>0, <2>2 DEF RowsInHistory, ItemOf, BackupKeyWasInUse, BackupKeyHasVersion
  <2>3. ASSUME \A d \in Client : pc'[d] = "rotating" =>
                  pc[d] = "rotating" /\ arg'[d] = arg[d] /\ seen'[d] = seen[d]
        PROVE  ReadInHistory'
    BY <2>0, <2>1, <2>3 DEF ReadInHistory
  <2>4. ASSUME NEW c \in Client, SetBegin(c) \/ ImportBegin(c) \/ UseBegin(c) \/ ExportBegin(c) PROVE BackupInv'
    <3>1. UNCHANGED <<rows, arg, seen, history>>
      BY <2>4 DEF SetBegin, ImportBegin, UseBegin, ExportBegin
    <3>2. \A d \in Client : pc'[d] = "rotating" => pc[d] = "rotating"
      BY <2>0, <2>4 DEF TypeOK, SetBegin, ImportBegin, UseBegin, ExportBegin, Begin
    <3>3. QED
      BY <2>2, <2>3, <3>1, <3>2 DEF BackupInv
  <2>5. ASSUME NEW c \in Client, SetRead(c) PROVE BackupInv'
    <3>1. UNCHANGED <<rows, pc, history>>
      BY <2>5 DEF SetRead
    <3>2. \A d \in Client : pc'[d] = "rotating" => arg'[d] = arg[d] /\ seen'[d] = seen[d]
      BY <2>0, <2>5 DEF TypeOK, SetRead
    <3>3. QED
      BY <2>2, <2>3, <3>1, <3>2 DEF BackupInv
  <2>6. ASSUME NEW c \in Client, SetWrite(c) PROVE BackupInv'
    <3>1. \A d \in Client : pc'[d] = "rotating" =>
             pc[d] = "rotating" /\ arg'[d] = arg[d] /\ seen'[d] = seen[d]
      BY <2>0, <2>6 DEF TypeOK, SetWrite
    <3>2. arg[c] \in Item /\ arg[c].name \in Name
      BY <2>0, <2>6 DEF SetWrite, TypeOK, Item
    <3>3. seen[c] \in [secret : Secret, version : Nat \ {0}] \cup {None}
      BY <2>0 DEF TypeOK
    <3>4. Upserted(arg[c], seen[c]) \in Row
      BY <2>0, <3>2, <3>3, UpsertedIsRow
    <3>5. Commit(c, arg[c].name, Upserted(arg[c], seen[c]))
      BY <2>6 DEF SetWrite
    <3>6. Upserted(arg[c], seen[c]).prev # None =>
             /\ rows[arg[c].name] # None
             /\ Upserted(arg[c], seen[c]).prev = rows[arg[c].name].prev
             /\ Upserted(arg[c], seen[c]).version = rows[arg[c].name].version
      <4>1. rows[arg[c].name] # None => rows[arg[c].name] \in Row
        BY <2>0, <3>2 DEF TypeOK
      <4>2. QED
        BY <4>1 DEF Upserted, Row
    <3>7. Upserted(arg[c], seen[c]).prev # None =>
             /\ Upserted(arg[c], seen[c]).version > 1
             /\ \E item \in history :
                   item.name = arg[c].name /\ item.secret = Upserted(arg[c], seen[c]).prev
      BY <2>0, <3>2, <3>6 DEF BackupKeyWasInUse, BackupKeyHasVersion
    <3>8. QED
      BY <2>3, <3>1, <3>2, <3>4, <3>5, <3>7, CommitKeepsBackups DEF BackupInv
  <2>7. ASSUME NEW c \in Client, RotateRead(c) PROVE BackupInv'
    <3>1. PICK n \in Name, s \in Secret :
            /\ rows[n] # None
            /\ arg' = [arg EXCEPT ![c] = [name |-> n, url |-> rows[n].url, secret |-> s]]
            /\ seen' = [seen EXCEPT ![c] = [secret |-> rows[n].secret, version |-> rows[n].version]]
      BY <2>7 DEF RotateRead
    <3>2. UNCHANGED <<rows, history>>
      BY <2>7 DEF RotateRead
    <3>3. ItemOf(n) \in history /\ ItemOf(n).name = n /\ ItemOf(n).secret = rows[n].secret
      BY <2>0, <3>1 DEF RowsInHistory, ItemOf
    <3>4. arg'[c].name = n /\ seen'[c].secret = rows[n].secret
      BY <2>0, <3>1 DEF TypeOK
    <3>5. \A d \in Client \ {c} : pc'[d] = pc[d] /\ arg'[d] = arg[d] /\ seen'[d] = seen[d]
      BY <2>0, <2>7, <3>1 DEF TypeOK, RotateRead, Begin
    <3>6. ReadInHistory'
      BY <2>0, <3>2, <3>3, <3>4, <3>5 DEF ReadInHistory
    <3>7. QED
      BY <2>2, <3>2, <3>6 DEF BackupInv
  <2>8. ASSUME NEW c \in Client, RotateWrite(c) PROVE BackupInv'
    <3>1. \A d \in Client : pc'[d] = "rotating" =>
             pc[d] = "rotating" /\ arg'[d] = arg[d] /\ seen'[d] = seen[d]
      BY <2>0, <2>8 DEF TypeOK, RotateWrite, Forget
    <3>2. pc[c] = "rotating"
      BY <2>8 DEF RotateWrite
    <3>3. CASE rows[arg[c].name] = None
      BY <2>2, <2>3, <2>8, <3>1, <3>3 DEF RotateWrite, BackupInv
    <3>4. CASE rows[arg[c].name] # None
      <4> DEFINE row == [rows[arg[c].name] EXCEPT !.secret  = arg[c].secret,
                                                  !.prev    = seen[c].secret,
                                                  !.version = seen[c].version + 1]
      <4>1. /\ arg[c] \in Item
            /\ seen[c] \in [secret : Secret, version : Nat \ {0}]
            /\ rows[arg[c].name] \in Row
            /\ row \in Row
        BY <3>2, <3>4, RotatedIsRow
      <4>2. Commit(c, arg[c].name, row)
        BY <2>8, <3>4 DEF RotateWrite
      <4>3. row.prev = seen[c].secret /\ row.version = seen[c].version + 1
        BY <4>1 DEF Row
      <4>4. row.version > 1
        BY <4>1, <4>3
      <4>5. \E item \in history : item.name = arg[c].name /\ item.secret = row.prev
        BY <2>0, <3>2, <4>3 DEF ReadInHistory
      <4>6. arg[c].name \in Name
        BY <4>1 DEF Item
      <4> HIDE DEF row
      <4>7. QED
        BY <2>3, <3>1, <4>1, <4>2, <4>4, <4>5, <4>6, CommitKeepsBackups DEF BackupInv
    <3>5. QED
      BY <3>3, <3>4
  <2>9. ASSUME NEW c \in Client, Delete(c) PROVE BackupInv'
    <3>1. \A d \in Client : pc'[d] = "rotating" =>
             pc[d] = "rotating" /\ arg'[d] = arg[d] /\ seen'[d] = seen[d]
      BY <2>0, <2>9 DEF TypeOK, Delete, Forget
    <3>2. PICK n \in Name : Commit(c, n, None)
      BY <2>9 DEF Delete
    <3>3. QED
      BY <2>3, <3>1, <3>2, CommitKeepsBackups DEF BackupInv
  <2>10. ASSUME NEW c \in Client, ReadSecret(c) PROVE BackupInv'
    BY <2>2, <2>3, <2>10 DEF ReadSecret, BackupInv
  <2>11. ASSUME NEW c \in Client, Send(c) \/ SaveBackup(c) \/ Abort(c) PROVE BackupInv'
    <3>1. UNCHANGED <<rows, history>>
      BY <2>11 DEF Send, SaveBackup, Abort
    <3>2. \A d \in Client : pc'[d] = "rotating" =>
             pc[d] = "rotating" /\ arg'[d] = arg[d] /\ seen'[d] = seen[d]
      BY <2>0, <2>11 DEF TypeOK, Send, SaveBackup, Abort, Forget
    <3>3. QED
      BY <2>2, <2>3, <3>1, <3>2 DEF BackupInv
  <2>12. CASE UNCHANGED vars
    BY <2>2, <2>3, <2>12 DEF vars, locals, BackupInv
  <2>13. QED
    BY <2>4, <2>5, <2>6, <2>7, <2>8, <2>9, <2>10, <2>11, <2>12 DEF Next
<1>3. QED
  BY <1>1, <1>2, TypeInvariant, PTL DEF Spec

(* rotate_secret keeps a key that was in use for this profile, however many *)
(* clients store, rotate and delete profiles meanwhile.                     *)
THEOREM BackupKeysMakeSense == Spec => []BackupKeyWasInUse
<1>1. BackupInv => BackupKeyWasInUse
  BY DEF BackupInv
<1>2. QED
  BY <1>1, BackupInvariant, PTL

(* The upsert of set_profile never puts a rotated profile back to version 1. *)
THEOREM RotatedStaysRotated == Spec => []BackupKeyHasVersion
<1>1. BackupInv => BackupKeyHasVersion
  BY DEF BackupInv
<1>2. QED
  BY <1>1, BackupInvariant, PTL

-----------------------------------------------------------------------------
(* What a client has read.  Three invariants speak of names that no other  *)
(* client wrote since an operation began.                                  *)

ClientStep(c) ==
  \/ SetBegin(c) \/ ImportBegin(c) \/ SetRead(c) \/ SetWrite(c)
  \/ RotateRead(c) \/ RotateWrite(c) \/ Delete(c)
  \/ UseBegin(c) \/ ExportBegin(c) \/ ReadSecret(c) \/ Send(c) \/ SaveBackup(c)
  \/ Abort(c)

Holds(d) == <<pc[d], arg[d], seen[d], todo[d], done[d]>>

(* A step of one client leaves alone what the others hold, and the rows of *)
(* the names that it does not touch for them.                              *)
LEMMA OthersUndisturbed ==
  ASSUME TypeInv, NEW c \in Client, ClientStep(c), NEW d \in Client \ {c}
  PROVE  /\ Holds(d)' = Holds(d)
         /\ touched[d] \subseteq touched'[d]
         /\ \A m \in Name \ touched'[d] : rows'[m] = rows[m]
<1>0. TypeOK
  BY DEF TypeInv
<1>1. ASSUME NEW operation, NEW I, Begin(c, operation, I), UNCHANGED <<arg, seen>>
      PROVE  Holds(d)' = Holds(d) /\ touched'[d] = touched[d]
  BY <1>0, <1>1 DEF TypeOK, Begin, Holds
<1>2. ASSUME NEW how, Forget(c, how) PROVE Holds(d)' = Holds(d)
  BY <1>0, <1>2 DEF TypeOK, Forget, Holds
<1>3. ASSUME NEW n \in Name, NEW row, Commit(c, n, row)
      PROVE  /\ touched[d] \subseteq touched'[d]
             /\ \A m \in Name \ touched'[d] : rows'[m] = rows[m]
  BY <1>0, <1>3 DEF TypeOK, Commit
<1>4. CASE SetBegin(c) \/ ImportBegin(c) \/ UseBegin(c) \/ ExportBegin(c)
  BY <1>1, <1>4 DEF SetBegin, ImportBegin, UseBegin, ExportBegin
<1>5. CASE SetRead(c) \/ ReadSecret(c)
  BY <1>0, <1>5 DEF TypeOK, SetRead, ReadSecret, Holds
<1>6. CASE RotateRead(c)
  BY <1>0, <1>6 DEF TypeOK, RotateRead, Begin, Holds
<1>7. CASE Send(c) \/ SaveBackup(c) \/ Abort(c)
  BY <1>2, <1>7 DEF Send, SaveBackup, Abort
<1>8. CASE SetWrite(c)
  <2>1. arg[c].name \in Name
    BY <1>0, <1>8 DEF SetWrite, TypeOK, Item
  <2>2. Holds(d)' = Holds(d)
    BY <1>0, <1>8 DEF TypeOK, SetWrite, Holds
  <2>3. QED
    BY <1>3, <1>8, <2>1, <2>2 DEF SetWrite
<1>9. CASE RotateWrite(c)
  <2>1. Forget(c, "ok")
    BY <1>9 DEF RotateWrite
  <2>2. arg[c].name \in Name
    BY <1>9 DEF RotateWrite, TypeInv, TypeOK, LocalsOK, Item
  <2>3. QED
    BY <1>2, <1>3, <1>9, <2>1, <2>2 DEF RotateWrite
<1>10. CASE Delete(c)
  BY <1>2, <1>3, <1>10 DEF Delete
<1>11. QED
  BY <1>4, <1>5, <1>6, <1>7, <1>8, <1>9, <1>10 DEF ClientStep

-----------------------------------------------------------------------------
(* Rotations. *)

RotationIsCurrent(c) ==
  pc[c] = "rotating" /\ arg[c].name \notin touched[c]
  => /\ rows[arg[c].name] # None
     /\ rows[arg[c].name].secret = seen[c].secret
     /\ rows[arg[c].name].version = seen[c].version

(* A rotation whose profile nobody else writes holds what the table holds. *)
LEMMA RotationInvariant == Spec => [](\A c \in Client : RotationIsCurrent(c))
<1>1. Init => \A c \in Client : RotationIsCurrent(c)
  BY DEF Init, RotationIsCurrent
<1>2. TypeInv /\ TypeInv' /\ (\A c \in Client : RotationIsCurrent(c)) /\ [Next]_vars
      => (\A c \in Client : RotationIsCurrent(c))'
  <2> SUFFICES ASSUME TypeInv, TypeInv', \A d \in Client : RotationIsCurrent(d), [Next]_vars
               PROVE  \A d \in Client : RotationIsCurrent(d)'
    OBVIOUS
  <2>0. TypeOK /\ LocalsOK
    BY DEF TypeInv
  <2>1. ASSUME NEW c \in Client, ClientStep(c), NEW d \in Client \ {c} PROVE RotationIsCurrent(d)'
    <3>1. /\ Holds(d)' = Holds(d)
          /\ touched[d] \subseteq touched'[d]
          /\ \A m \in Name \ touched'[d] : rows'[m] = rows[m]
      BY <2>1, OthersUndisturbed
    <3>2. pc[d] = "rotating" => arg[d].name \in Name
      BY <2>0 DEF TypeOK, LocalsOK, Item
    <3>3. pc'[d] = pc[d] /\ arg'[d] = arg[d] /\ seen'[d] = seen[d]
      BY <3>1 DEF Holds
    <3>4. CASE pc[d] = "rotating" /\ arg[d].name \notin touched'[d]
      <4>1. rows'[arg[d].name] = rows[arg[d].name]
        BY <3>1, <3>2, <3>4
      <4>2. QED
        BY <3>1, <3>3, <3>4, <4>1 DEF RotationIsCurrent
    <3>5. CASE ~(pc[d] = "rotating" /\ arg[d].name \notin touched'[d])
      BY <3>3, <3>5 DEF RotationIsCurrent
    <3>6. QED
      BY <3>4, <3>5
  <2>2. ASSUME NEW c \in Client, RotateRead(c) PROVE RotationIsCurrent(c)'
    BY <2>0, <2>2 DEF TypeOK, RotateRead, RotationIsCurrent
  <2>3. ASSUME NEW c \in Client, ClientStep(c), ~RotateRead(c) PROVE pc'[c] # "rotating"
    BY <2>0, <2>3 DEF TypeOK, ClientStep, SetBegin, ImportBegin, SetRead, SetWrite, RotateWrite, Delete,
                      UseBegin, ExportBegin, ReadSecret, Send, SaveBackup, Abort, Begin, Forget
  <2>4. CASE UNCHANGED vars
    BY <2>4 DEF vars, locals, RotationIsCurrent
  <2>5. ASSUME NEW c \in Client, ClientStep(c) PROVE \A d \in Client : RotationIsCurrent(d)'
    BY <2>1, <2>2, <2>3, <2>5 DEF RotationIsCurrent
  <2>6. QED
    BY <2>4, <2>5 DEF Next, ClientStep
<1>3. QED
  BY <1>1, <1>2, TypeInvariant, PTL DEF Spec

(* rotate_secret replaces the secret in use, keeps it as the backup key and *)
(* makes a new version, if nobody else writes the profile meanwhile.        *)
THEOREM RotatesUndisturbed == Spec => UndisturbedRotation
<1> DEFINE Rotated(c) ==
      pc[c] = "rotating" /\ pc'[c] = "ok" /\ arg[c].name \notin touched[c]
      => LET n == arg[c].name
         IN  /\ rows[n] # None
             /\ rows'[n].secret = arg[c].secret
             /\ rows'[n].prev = rows[n].secret
             /\ rows'[n].version = rows[n].version + 1
<1>1. TypeInv /\ (\A c \in Client : RotationIsCurrent(c)) /\ [Next]_vars => [\A c \in Client : Rotated(c)]_vars
  <2> SUFFICES ASSUME TypeInv, \A d \in Client : RotationIsCurrent(d), Next,
                      NEW c \in Client, pc[c] = "rotating", pc'[c] = "ok", arg[c].name \notin touched[c]
               PROVE  Rotated(c)
    BY DEF vars, locals
  <2>1. PICK d \in Client : ClientStep(d)
    BY DEF Next, ClientStep
  <2>2. d = c
    BY <2>1, OthersUndisturbed DEF Holds
  <2>3. RotateWrite(c)
    BY <2>1, <2>2 DEF TypeInv, TypeOK, ClientStep, SetBegin, ImportBegin, SetRead, SetWrite, RotateRead,
                      Delete, UseBegin, ExportBegin, ReadSecret, Send, SaveBackup, Abort, Begin, Busy, Forget
  <2>4. rows[arg[c].name] # None
    BY DEF RotationIsCurrent
  <2>5. /\ arg[c] \in Item
        /\ seen[c] \in [secret : Secret, version : Nat \ {0}]
        /\ rows[arg[c].name] \in Row
    BY <2>4, RotatedIsRow
  <2>6. rows'[arg[c].name] = [rows[arg[c].name] EXCEPT !.secret  = arg[c].secret,
                                                       !.prev    = seen[c].secret,
                                                       !.version = seen[c].version + 1]
    BY <2>3, <2>4, <2>5 DEF RotateWrite, Commit, TypeInv, TypeOK, Item
  <2>7. QED
    BY <2>4, <2>5, <2>6 DEF RotationIsCurrent, Row
<1>2. QED
  BY <1>1, TypeInvariant, RotationInvariant, PTL DEF Spec, UndisturbedRotation

-----------------------------------------------------------------------------
(* Stores. *)

StoreIsCurrent(c) ==
  /\ arg[c] # None => pc[c] \in {"storing", "rotating"}
  /\ pc[c] = "storing" /\ arg[c] # None /\ arg[c].name \notin touched[c] /\ rows[arg[c].name] = None
     => seen[c] = None

(* A store whose profile nobody else writes has read none if there is none. *)
LEMMA StoreInvariant == Spec => [](\A c \in Client : StoreIsCurrent(c))
<1>1. Init => \A c \in Client : StoreIsCurrent(c)
  BY DEF Init, StoreIsCurrent
<1>2. TypeInv /\ (\A c \in Client : StoreIsCurrent(c)) /\ [Next]_vars
      => (\A c \in Client : StoreIsCurrent(c))'
  <2> SUFFICES ASSUME TypeInv, \A d \in Client : StoreIsCurrent(d), [Next]_vars
               PROVE  \A d \in Client : StoreIsCurrent(d)'
    OBVIOUS
  <2>0. TypeOK
    BY DEF TypeInv
  <2>1. ASSUME NEW c \in Client, ClientStep(c), NEW d \in Client \ {c} PROVE StoreIsCurrent(d)'
    <3>1. /\ Holds(d)' = Holds(d)
          /\ \A m \in Name \ touched'[d] : rows'[m] = rows[m]
          /\ touched[d] \subseteq touched'[d]
      BY <2>1, OthersUndisturbed
    <3>2. arg[d] # None => arg[d].name \in Name
      BY <2>0 DEF TypeOK, Item
    <3>3. pc'[d] = pc[d] /\ arg'[d] = arg[d] /\ seen'[d] = seen[d]
      BY <3>1 DEF Holds
    <3>4. QED
      BY <3>1, <3>2, <3>3 DEF StoreIsCurrent
  <2>2. ASSUME NEW c \in Client, SetRead(c) PROVE StoreIsCurrent(c)'
    <3>1. PICK item \in todo[c] :
            /\ arg' = [arg EXCEPT ![c] = item]
            /\ seen' = [seen EXCEPT ![c] = IF rows[item.name] = None THEN None
                        ELSE [secret |-> rows[item.name].secret, version |-> rows[item.name].version]]
      BY <2>2 DEF SetRead
    <3>2. arg'[c] = item /\ pc'[c] = "storing" /\ rows' = rows
      BY <2>0, <2>2, <3>1 DEF TypeOK, SetRead
    <3>3. rows[item.name] = None => seen'[c] = None
      BY <2>0, <3>1 DEF TypeOK
    <3>4. QED
      BY <3>2, <3>3 DEF StoreIsCurrent
  <2>3. ASSUME NEW c \in Client, SetWrite(c) \/ RotateWrite(c) \/ Delete(c) \/ Send(c) \/ SaveBackup(c) \/ Abort(c)
        PROVE  StoreIsCurrent(c)'
    <3>1. arg'[c] = None
      BY <2>0, <2>3 DEF TypeOK, SetWrite, RotateWrite, Delete, Send, SaveBackup, Abort, Forget
    <3>2. QED
      BY <3>1 DEF StoreIsCurrent
  <2>4. ASSUME NEW c \in Client, SetBegin(c) \/ ImportBegin(c) \/ UseBegin(c) \/ ExportBegin(c)
        PROVE  StoreIsCurrent(c)'
    <3>1. arg'[c] = arg[c] /\ ~Busy(c)
      BY <2>4 DEF SetBegin, ImportBegin, UseBegin, ExportBegin, Begin
    <3>2. arg[c] = None
      BY <3>1 DEF StoreIsCurrent, Busy
    <3>3. QED
      BY <3>1, <3>2 DEF StoreIsCurrent
  <2>5. ASSUME NEW c \in Client, ReadSecret(c) PROVE StoreIsCurrent(c)'
    BY <2>5 DEF ReadSecret, StoreIsCurrent
  <2>6. ASSUME NEW c \in Client, RotateRead(c) PROVE StoreIsCurrent(c)'
    <3>1. pc'[c] = "rotating"
      BY <2>0, <2>6 DEF TypeOK, RotateRead, Begin
    <3>2. QED
      BY <3>1 DEF StoreIsCurrent
  <2>7. CASE UNCHANGED vars
    BY <2>7 DEF vars, locals, StoreIsCurrent
  <2>8. ASSUME NEW c \in Client, ClientStep(c) PROVE StoreIsCurrent(c)'
    BY <2>2, <2>3, <2>4, <2>5, <2>6, <2>8 DEF ClientStep
  <2>9. ASSUME NEW c \in Client, ClientStep(c) PROVE \A d \in Client : StoreIsCurrent(d)'
    BY <2>1, <2>8, <2>9
  <2>10. QED
    BY <2>7, <2>9 DEF Next, ClientStep
<1>3. QED
  BY <1>1, <1>2, TypeInvariant, PTL DEF Spec

(* Whatever overlaps elsewhere, a store or a rotation of a profile that     *)
(* nobody else writes meanwhile happens at one instant.                     *)
THEOREM UndisturbedAreAtomic == Spec => UndisturbedIsAtomic
<1> DEFINE Instant(c) ==
      arg[c] # None /\ arg'[c] = None /\ pc'[c] # "failed" /\ arg[c].name \notin touched[c]
      => \/ pc[c] = "storing" /\ Atomic!Set(arg[c].name, arg[c].url, arg[c].secret)
         \/ pc[c] = "rotating" /\ Atomic!Rotate(arg[c].name, arg[c].secret)
<1>1. /\ TypeInv
      /\ \A c \in Client : RotationIsCurrent(c)
      /\ \A c \in Client : StoreIsCurrent(c)
      /\ [Next]_vars
      => [\A c \in Client : Instant(c)]_vars
  <2> SUFFICES ASSUME TypeInv, \A d \in Client : RotationIsCurrent(d), \A d \in Client : StoreIsCurrent(d),
                      Next, NEW c \in Client,
                      arg[c] # None, arg'[c] = None, pc'[c] # "failed", arg[c].name \notin touched[c]
               PROVE  \/ pc[c] = "storing" /\ Atomic!Set(arg[c].name, arg[c].url, arg[c].secret)
                      \/ pc[c] = "rotating" /\ Atomic!Rotate(arg[c].name, arg[c].secret)
    BY DEF vars, locals
  <2>0. TypeOK
    BY DEF TypeInv
  <2>1. PICK d \in Client : ClientStep(d)
    BY DEF Next, ClientStep
  <2>2. d = c
    BY <2>1, OthersUndisturbed DEF Holds
  <2>3. pc[c] \in {"storing", "rotating"}
    BY DEF StoreIsCurrent
  <2>4. SetWrite(c) \/ RotateWrite(c)
    <3>1. ~SetBegin(c) /\ ~ImportBegin(c) /\ ~UseBegin(c) /\ ~ExportBegin(c) /\ ~RotateRead(c) /\ ~Delete(c)
      BY <2>3 DEF SetBegin, ImportBegin, UseBegin, ExportBegin, RotateRead, Delete, Begin, Busy
    <3>2. ~SetRead(c) /\ ~ReadSecret(c) /\ ~Send(c) /\ ~SaveBackup(c)
      BY <2>3 DEF SetRead, ReadSecret, Send, SaveBackup
    <3>3. ~Abort(c)
      BY <2>0 DEF Abort, Forget, TypeOK
    <3>4. QED
      BY <2>1, <2>2, <3>1, <3>2, <3>3 DEF ClientStep
  <2>5. CASE SetWrite(c)
    <3>1. rows' = [rows EXCEPT ![arg[c].name] = Upserted(arg[c], seen[c])]
      BY <2>5 DEF SetWrite, Commit
    <3>2. pc[c] = "storing"
      BY <2>5 DEF SetWrite
    <3>3. rows[arg[c].name] = None => seen[c] = None
      BY <3>2 DEF StoreIsCurrent
    <3>4. Upserted(arg[c], seen[c]) =
             IF rows[arg[c].name] = None
               THEN [url |-> arg[c].url, secret |-> arg[c].secret, prev |-> None, version |-> 1]
               ELSE [rows[arg[c].name] EXCEPT !.url = arg[c].url, !.secret = arg[c].secret]
      BY <3>3 DEF Upserted
    <3>5. QED
      BY <3>1, <3>2, <3>4 DEF Atomic!Set
  <2>6. CASE RotateWrite(c)
    <3>1. pc[c] = "rotating"
      BY <2>6 DEF RotateWrite
    <3>2. /\ rows[arg[c].name] # None
          /\ rows[arg[c].name].secret = seen[c].secret
          /\ rows[arg[c].name].version = seen[c].version
      BY <3>1 DEF RotationIsCurrent
    <3>3. rows' = [rows EXCEPT ![arg[c].name] =
                      [rows[arg[c].name] EXCEPT !.secret  = arg[c].secret,
                                                !.prev    = seen[c].secret,
                                                !.version = seen[c].version + 1]]
      BY <2>6, <3>2 DEF RotateWrite, Commit
    <3>4. [rows[arg[c].name] EXCEPT !.secret  = arg[c].secret,
                                    !.prev    = seen[c].secret,
                                    !.version = seen[c].version + 1]
          = [rows[arg[c].name] EXCEPT !.secret  = arg[c].secret,
                                      !.prev    = rows[arg[c].name].secret,
                                      !.version = rows[arg[c].name].version + 1]
      BY <3>2
    <3>5. Atomic!Rotate(arg[c].name, arg[c].secret)
      BY <3>2, <3>3, <3>4 DEF Atomic!Rotate
    <3>6. QED
      BY <3>1, <3>5
  <2>7. QED
    BY <2>4, <2>5, <2>6
<1>2. QED
  BY <1>1, TypeInvariant, RotationInvariant, StoreInvariant, PTL DEF Spec, UndisturbedIsAtomic

-----------------------------------------------------------------------------
(* Requests and backups. *)

Quiet(c, I) == {item \in I : item.name \notin touched[c]}

ClientReadsCurrent(c) ==
  pc[c] \in {"using", "saving"} =>
     /\ Quiet(c, todo[c] \cup done[c]) \subseteq Stored
     /\ pc[c] = "saving" => Quiet(c, {item \in Stored : item.secret # Empty}) \subseteq todo[c] \cup done[c]

HadUrl(item) == \E had \in history : had.name = item.name /\ had.url = item.url
HadSecret(item) == \E had \in history : had.name = item.name /\ had.secret = item.secret

\* A profile's URL comes with the first read, its secret with the second one.
ClientReadsOwn(c) ==
  pc[c] \in {"using", "saving"} =>
     /\ \A item \in todo[c] \cup done[c] : HadUrl(item)
     /\ \A item \in done[c] : item.secret # Empty /\ HadSecret(item)

(* A name that a client is not disturbed in has the same item before and   *)
(* after.                                                                  *)
LEMMA SameItem ==
  ASSUME TypeInv, NEW n \in Name, rows'[n] = rows[n]
  PROVE  \A item : item.name = n => (item \in Stored' <=> item \in Stored)
  BY DEF Stored, ItemOf

LEMMA ReadsInvariant == Spec => [](\A c \in Client : ClientReadsCurrent(c))
<1>1. Init => \A c \in Client : ClientReadsCurrent(c)
  BY DEF Init, ClientReadsCurrent
<1>2. TypeInv /\ TypeInv' /\ (\A c \in Client : ClientReadsCurrent(c)) /\ [Next]_vars
      => (\A c \in Client : ClientReadsCurrent(c))'
  <2> SUFFICES ASSUME TypeInv, TypeInv', \A d \in Client : ClientReadsCurrent(d), [Next]_vars
               PROVE  \A d \in Client : ClientReadsCurrent(d)'
    OBVIOUS
  <2>0. TypeOK /\ TypeOK' /\ Stored \subseteq Item /\ Stored' \subseteq Item
    <3>1. Stored' \subseteq Item
      <4>1. \A n \in Name : rows'[n] # None => rows'[n] \in Row
        BY DEF TypeInv, TypeOK
      <4>2. QED
        BY <4>1 DEF Stored, ItemOf, Item, Row
    <3>2. QED
      BY <3>1, StoredAreItems DEF TypeInv
  <2>1. ASSUME NEW c \in Client, ClientStep(c), NEW d \in Client \ {c} PROVE ClientReadsCurrent(d)'
    <3>1. /\ pc'[d] = pc[d] /\ todo'[d] = todo[d] /\ done'[d] = done[d]
          /\ touched[d] \subseteq touched'[d]
          /\ \A m \in Name \ touched'[d] : rows'[m] = rows[m]
      BY <2>1, OthersUndisturbed DEF Holds
    <3>2. todo[d] \cup done[d] \subseteq Item
      BY <2>0 DEF TypeOK
    <3>3. \A item \in Item : item.name \notin touched'[d] => (item \in Stored' <=> item \in Stored)
      BY <3>1, SameItem DEF Item
    <3>4. QED
      BY <2>0, <3>1, <3>2, <3>3 DEF ClientReadsCurrent, Quiet
  <2>2. ASSUME NEW c \in Client, UseBegin(c) PROVE ClientReadsCurrent(c)'
    <3>1. PICK item \in Stored : Begin(c, "using", {item})
      BY <2>2 DEF UseBegin
    <3>2. rows' = rows /\ Stored' = Stored
      BY <2>2 DEF UseBegin, Stored, ItemOf
    <3>3. pc'[c] = "using" /\ todo'[c] = {item} /\ done'[c] = {}
      BY <2>0, <3>1 DEF TypeOK, Begin
    <3>4. QED
      BY <3>2, <3>3 DEF ClientReadsCurrent, Quiet
  <2>3. ASSUME NEW c \in Client, ExportBegin(c) PROVE ClientReadsCurrent(c)'
    <3>1. rows' = rows /\ Stored' = Stored
      BY <2>3 DEF ExportBegin, Stored, ItemOf
    <3>2. todo'[c] = Stored /\ done'[c] = {}
      BY <2>0, <2>3 DEF TypeOK, ExportBegin, Begin
    <3>3. QED
      BY <3>1, <3>2 DEF ClientReadsCurrent, Quiet
  <2>4. ASSUME NEW c \in Client, ReadSecret(c) PROVE ClientReadsCurrent(c)'
    <3>1. PICK item \in todo[c] :
            /\ todo' = [todo EXCEPT ![c] = @ \ {item}]
            /\ done' = [done EXCEPT ![c] =
                           IF HasSecret(item.name)
                             THEN @ \cup {[item EXCEPT !.secret = rows[item.name].secret]}
                             ELSE @]
      BY <2>4 DEF ReadSecret
    <3> DEFINE read == [item EXCEPT !.secret = rows[item.name].secret]
    <3>2. item \in Item
      BY <2>0 DEF TypeOK
    <3>3. read.name = item.name
      BY <3>2 DEF Item
    <3>4. rows' = rows /\ Stored' = Stored /\ touched' = touched /\ pc' = pc
      BY <2>4 DEF ReadSecret, Stored, ItemOf
    <3>5. CASE item.name \in touched[c]
      <4>1. Quiet(c, todo'[c] \cup done'[c]) = Quiet(c, todo[c] \cup done[c])
        BY <2>0, <3>1, <3>3, <3>5 DEF TypeOK, Quiet
      <4>2. \A i : i.name \notin touched[c] => (i \in todo'[c] \cup done'[c] <=> i \in todo[c] \cup done[c])
        BY <2>0, <3>1, <3>3, <3>5 DEF TypeOK
      <4>3. QED
        BY <3>4, <4>1, <4>2 DEF ClientReadsCurrent, Quiet
    <3>6. CASE item.name \notin touched[c]
      <4>1. item \in Stored
        BY <2>4, <3>6 DEF ReadSecret, ClientReadsCurrent, Quiet
      <4>2. PICK n \in Name : rows[n] # None /\ item = ItemOf(n)
        BY <4>1 DEF Stored
      <4>3. item.name = n /\ item.secret = rows[n].secret
        BY <4>2 DEF ItemOf
      <4>4. read = item
        BY <3>2, <4>3 DEF Item
      <4>5. HasSecret(item.name) <=> item.secret # Empty
        BY <4>2, <4>3 DEF HasSecret
      <4> HIDE DEF read
      <4>6. /\ item.secret # Empty => todo'[c] \cup done'[c] = todo[c] \cup done[c]
            /\ item.secret = Empty => todo'[c] \cup done'[c] = (todo[c] \ {item}) \cup done[c]
        BY <2>0, <3>1, <4>4, <4>5 DEF TypeOK, read
      <4>7. QED
        BY <3>4, <4>6 DEF ClientReadsCurrent, Quiet
    <3>7. QED
      BY <3>5, <3>6
  <2>5. ASSUME NEW c \in Client, ClientStep(c), ~UseBegin(c), ~ExportBegin(c), ~ReadSecret(c)
        PROVE  pc'[c] \notin {"using", "saving"}
    BY <2>0, <2>5 DEF TypeOK, ClientStep, SetBegin, ImportBegin, SetRead, SetWrite, RotateRead, RotateWrite,
                      Delete, Send, SaveBackup, Abort, Begin, Forget
  <2>6. CASE UNCHANGED vars
    BY <2>6 DEF vars, locals, ClientReadsCurrent, Quiet, Stored, ItemOf
  <2>7. ASSUME NEW c \in Client, ClientStep(c) PROVE \A d \in Client : ClientReadsCurrent(d)'
    BY <2>1, <2>2, <2>3, <2>4, <2>5, <2>7 DEF ClientReadsCurrent
  <2>8. QED
    BY <2>6, <2>7 DEF Next, ClientStep
<1>3. QED
  BY <1>1, <1>2, TypeInvariant, PTL DEF Spec

(* Whatever the writers do, a profile's URL and secret were its own once.   *)
LEMMA OwnInvariant == Spec => [](\A c \in Client : ClientReadsOwn(c))
<1>1. Init => \A c \in Client : ClientReadsOwn(c)
  BY DEF Init, ClientReadsOwn
<1>2. TypeInv /\ BackupInv /\ (\A c \in Client : ClientReadsOwn(c)) /\ [Next]_vars
      => (\A c \in Client : ClientReadsOwn(c))'
  <2> SUFFICES ASSUME TypeInv, BackupInv, \A d \in Client : ClientReadsOwn(d), [Next]_vars
               PROVE  \A d \in Client : ClientReadsOwn(d)'
    OBVIOUS
  <2>0. TypeOK /\ RowsInHistory /\ Stored \subseteq Item
    BY StoredAreItems DEF TypeInv, BackupInv
  <2>1. Stored \subseteq history
    BY <2>0 DEF Stored, RowsInHistory
  <2>2. \A item : (HadUrl(item) => HadUrl(item)') /\ (HadSecret(item) => HadSecret(item)')
    BY HistoryGrows DEF HadUrl, HadSecret
  <2>3. \A item \in Stored : HadUrl(item)'
    BY <2>1, <2>2 DEF HadUrl
  <2>4. ASSUME NEW d \in Client, UNCHANGED <<pc[d], todo[d], done[d]>> PROVE ClientReadsOwn(d)'
    BY <2>2, <2>4 DEF ClientReadsOwn
  <2>5. ASSUME NEW c \in Client, ClientStep(c), NEW d \in Client \ {c} PROVE ClientReadsOwn(d)'
    BY <2>4, <2>5, OthersUndisturbed DEF Holds
  <2>6. ASSUME NEW c \in Client, UseBegin(c) \/ ExportBegin(c) PROVE ClientReadsOwn(c)'
    <3>1. todo'[c] \subseteq Stored /\ done'[c] = {}
      BY <2>0, <2>6 DEF TypeOK, UseBegin, ExportBegin, Begin
    <3>2. QED
      BY <2>3, <3>1 DEF ClientReadsOwn
  <2>7. ASSUME NEW c \in Client, ReadSecret(c) PROVE ClientReadsOwn(c)'
    <3>1. PICK item \in todo[c] :
            /\ todo' = [todo EXCEPT ![c] = @ \ {item}]
            /\ done' = [done EXCEPT ![c] =
                           IF HasSecret(item.name)
                             THEN @ \cup {[item EXCEPT !.secret = rows[item.name].secret]}
                             ELSE @]
      BY <2>7 DEF ReadSecret
    <3>2. PICK read : read = [item EXCEPT !.secret = rows[item.name].secret]
      OBVIOUS
    <3>3. item \in Item /\ item.name \in Name
      BY <2>0 DEF TypeOK, Item
    <3>4. read.name = item.name /\ read.url = item.url /\ read.secret = rows[item.name].secret
      BY <3>2, <3>3 DEF Item
    <3>5. pc[c] \in {"using", "saving"} /\ ClientReadsOwn(c)
      BY <2>7 DEF ReadSecret
    <3>6. HadUrl(read)'
      BY <2>2, <3>4, <3>5 DEF ClientReadsOwn, HadUrl
    <3>7. HasSecret(item.name) => read.secret # Empty /\ HadSecret(read)'
      <4>1. HasSecret(item.name) => read.secret # Empty /\ ItemOf(item.name) \in history
        BY <2>0, <3>3, <3>4 DEF HasSecret, RowsInHistory
      <4>2. ItemOf(item.name).name = read.name /\ ItemOf(item.name).secret = read.secret
        BY <3>4 DEF ItemOf
      <4>3. ItemOf(item.name) \in history => HadSecret(read)
        BY <4>2 DEF HadSecret
      <4>4. QED
        BY <2>2, <4>1, <4>3
    <3>8. /\ todo'[c] \subseteq todo[c]
          /\ done'[c] = done[c] \/ (HasSecret(item.name) /\ done'[c] = done[c] \cup {read})
      BY <2>0, <3>1, <3>2 DEF TypeOK
    <3>9. QED
      BY <2>2, <3>5, <3>6, <3>7, <3>8 DEF ClientReadsOwn
  <2>8. ASSUME NEW c \in Client, ClientStep(c), ~UseBegin(c), ~ExportBegin(c), ~ReadSecret(c)
        PROVE  pc'[c] \notin {"using", "saving"}
    BY <2>0, <2>8 DEF TypeOK, ClientStep, SetBegin, ImportBegin, SetRead, SetWrite, RotateRead, RotateWrite,
                      Delete, Send, SaveBackup, Abort, Begin, Forget
  <2>9. CASE UNCHANGED vars
    BY <2>4, <2>9 DEF vars, locals
  <2>10. ASSUME NEW c \in Client, ClientStep(c) PROVE \A d \in Client : ClientReadsOwn(d)'
    BY <2>5, <2>6, <2>7, <2>8, <2>10 DEF ClientReadsOwn
  <2>11. QED
    BY <2>9, <2>10 DEF Next, ClientStep
<1>3. QED
  BY <1>1, <1>2, TypeInvariant, BackupInvariant, PTL DEF Spec

(* forward and export_vault hold what the table holds of every profile that *)
(* nobody wrote since they started, an export misses none of them but those *)
(* with an empty secret, and what they hold of a profile was its own: a URL *)
(* and a secret that is not empty.                                          *)
THEOREM ReadsStayCurrent == Spec => []ReadsAreCurrent
<1>1. (\A c \in Client : ClientReadsCurrent(c)) /\ (\A c \in Client : ClientReadsOwn(c)) => ReadsAreCurrent
  BY DEF ClientReadsCurrent, ClientReadsOwn, HadUrl, HadSecret, ReadsAreCurrent, Quiet
<1>2. QED
  BY <1>1, ReadsInvariant, OwnInvariant, PTL

-----------------------------------------------------------------------------
(* Imports.  A backup has one item per profile, so that no item of an      *)
(* import overwrites another one.                                          *)

OnePerName(I) == \A i, j \in I : i.name = j.name => i = j

ClientImports(c) ==
  /\ OnePerName(todo[c] \cup done[c])
  /\ \A i \in todo[c], j \in done[c] : i.name # j.name
  /\ arg[c] # None /\ pc[c] # "rotating" => pc[c] = "storing" /\ arg[c] \in todo[c]
  /\ pc[c] \in {"storing", "ok"} => \A item \in done[c] : item.name \notin touched[c] => item \in Stored

ImportInv ==
  /\ backup # None => OnePerName(backup)
  /\ \A c \in Client : ClientImports(c)

LEMMA ImportInvariant == Spec => []ImportInv
<1>1. Init => ImportInv
  BY DEF Init, ImportInv, ClientImports, OnePerName
<1>2. TypeInv /\ TypeInv' /\ ImportInv /\ [Next]_vars => ImportInv'
  <2> SUFFICES ASSUME TypeInv, TypeInv', ImportInv, [Next]_vars PROVE ImportInv'
    OBVIOUS
  <2>0. TypeOK /\ TypeOK' /\ (backup # None => OnePerName(backup)) /\ \A d \in Client : ClientImports(d)
    BY DEF TypeInv, ImportInv
  <2>1. ASSUME NEW c \in Client, ClientStep(c), NEW d \in Client \ {c} PROVE ClientImports(d)'
    <3>1. /\ pc'[d] = pc[d] /\ arg'[d] = arg[d] /\ todo'[d] = todo[d] /\ done'[d] = done[d]
          /\ touched[d] \subseteq touched'[d]
          /\ \A m \in Name \ touched'[d] : rows'[m] = rows[m]
      BY <2>1, OthersUndisturbed DEF Holds
    <3>2. \A item \in Item : item.name \notin touched'[d] => (item \in Stored' <=> item \in Stored)
      BY <3>1, SameItem DEF Item
    <3>3. done[d] \subseteq Item /\ ClientImports(d)
      BY <2>0 DEF TypeOK
    <3>4. QED
      BY <3>1, <3>2, <3>3 DEF ClientImports, OnePerName
  <2>2. ASSUME NEW c \in Client, NEW operation, NEW I, Begin(c, operation, I), OnePerName(I),
               UNCHANGED arg \/ operation = "rotating", operation # "ok"
        PROVE  ClientImports(c)'
    <3>1. pc'[c] = operation /\ todo'[c] = I /\ done'[c] = {}
      BY <2>0, <2>2 DEF TypeOK, Begin
    <3>2. arg[c] = None
      BY <2>0, <2>2 DEF Begin, Busy, ClientImports
    <3>3. QED
      BY <2>2, <3>1, <3>2 DEF ClientImports, OnePerName
  <2>3. ASSUME NEW c \in Client, NEW how \in {"ok", "failed"}, Forget(c, how) PROVE ClientImports(c)'
    <3>1. pc'[c] = how /\ arg'[c] = None /\ todo'[c] = {} /\ done'[c] = {}
      BY <2>0, <2>3 DEF TypeOK, Forget
    <3>2. QED
      BY <3>1 DEF ClientImports, OnePerName
  <2>4. \A I : OnePerName({I})
    BY DEF OnePerName
  <2>5. OnePerName(Stored)
    BY DEF OnePerName, Stored, ItemOf
  <2>6. ASSUME NEW c \in Client, ReadSecret(c) PROVE ClientImports(c)'
    <3>1. PICK item \in todo[c] :
            /\ todo' = [todo EXCEPT ![c] = @ \ {item}]
            /\ done' = [done EXCEPT ![c] =
                           IF HasSecret(item.name)
                             THEN @ \cup {[item EXCEPT !.secret = rows[item.name].secret]}
                             ELSE @]
      BY <2>6 DEF ReadSecret
    <3>2. PICK read : read = [item EXCEPT !.secret = rows[item.name].secret]
      OBVIOUS
    <3>3. item \in Item
      BY <2>0 DEF TypeOK
    <3>4. read.name = item.name
      BY <3>2, <3>3 DEF Item
    <3>5. todo'[c] = todo[c] \ {item} /\ done'[c] \subseteq done[c] \cup {read}
      BY <2>0, <3>1, <3>2 DEF TypeOK
    <3>6. ClientImports(c)
      BY <2>0
    <3>7. OnePerName(todo'[c] \cup done'[c]) /\ \A i \in todo'[c], j \in done'[c] : i.name # j.name
      BY <3>4, <3>5, <3>6 DEF ClientImports, OnePerName
    <3>8. pc'[c] \in {"using", "saving"} /\ pc' = pc /\ arg' = arg
      BY <2>6 DEF ReadSecret
    <3>9. arg'[c] = None
      BY <3>6, <3>8 DEF ClientImports
    <3>10. QED
      BY <3>7, <3>8, <3>9 DEF ClientImports, OnePerName
  <2>7. ASSUME NEW c \in Client, SetRead(c) PROVE ClientImports(c)'
    <3>1. pc[c] = "storing" /\ arg'[c] \in todo[c] /\ UNCHANGED <<rows, pc, todo, done, touched>>
      BY <2>0, <2>7 DEF TypeOK, SetRead
    <3>2. Stored' = Stored /\ ClientImports(c)
      BY <2>0, <3>1 DEF Stored, ItemOf
    <3>3. QED
      BY <3>1, <3>2 DEF ClientImports, OnePerName
  <2>8. ASSUME NEW c \in Client, SetWrite(c) PROVE ClientImports(c)'
    <3>1. arg[c] \in todo[c] /\ arg[c] \in Item /\ arg[c].name \in Name /\ ClientImports(c)
      BY <2>0, <2>8 DEF SetWrite, TypeOK, ClientImports, Item
    <3>2. /\ todo'[c] = todo[c] \ {arg[c]}
          /\ done'[c] = done[c] \cup {arg[c]}
          /\ arg'[c] = None
      BY <2>0, <2>8 DEF TypeOK, SetWrite
    <3>3. PICK item \in Item, row \in Row : item = arg[c] /\ row = Upserted(arg[c], seen[c])
      BY <2>0, <3>1, UpsertedIsRow DEF TypeOK
    <3>4. Commit(c, item.name, row) /\ item.name \in Name
      BY <2>8, <3>1, <3>3 DEF SetWrite
    <3>5. /\ \A m \in Name : rows'[m] = IF m = item.name THEN row ELSE rows[m]
          /\ touched'[c] = touched[c]
      BY <2>0, <3>4 DEF TypeOK, Commit
    <3>6. row.url = item.url /\ row.secret = item.secret
      <4>1. rows[item.name] # None => rows[item.name] \in Row
        BY <2>0, <3>4 DEF TypeOK
      <4>2. QED
        BY <3>3, <4>1 DEF Upserted, Row
    <3>7. item \in Stored'
      <4>1. rows'[item.name] = row /\ row # None
        BY <3>4, <3>5, VaultAssumption DEF Row
      <4>2. item = [name |-> item.name, url |-> row.url, secret |-> row.secret]
        BY <3>6 DEF Item
      <4>3. QED
        BY <3>4, <4>1, <4>2 DEF Stored, ItemOf
    <3>8. \A old \in done[c] : old \in Stored => old \in Stored'
      <4>1. SUFFICES ASSUME NEW old \in done[c], old \in Stored PROVE old \in Stored'
        OBVIOUS
      <4>2. old \in Item /\ old.name # item.name
        BY <2>0, <3>1, <3>3 DEF TypeOK, ClientImports
      <4>3. old.name \in Name /\ rows'[old.name] = rows[old.name]
        BY <3>5, <4>2 DEF Item
      <4>4. QED
        BY <4>1, <4>3, SameItem
    <3>9. todo'[c] \cup done'[c] = todo[c] \cup done[c]
      BY <3>1, <3>2
    <3>10. \A i \in todo'[c], j \in done'[c] : i.name # j.name
      BY <3>1, <3>2 DEF ClientImports, OnePerName
    <3>11. \A old \in done'[c] : old.name \notin touched'[c] => old \in Stored'
      BY <2>8, <3>1, <3>2, <3>3, <3>5, <3>7, <3>8 DEF ClientImports, SetWrite
    <3>12. QED
      BY <3>1, <3>2, <3>9, <3>10, <3>11 DEF ClientImports
  <2>9. ASSUME NEW c \in Client, ClientStep(c) PROVE ClientImports(c)'
    <3>1. CASE SetBegin(c)
      BY <2>2, <2>4, <3>1 DEF SetBegin
    <3>2. CASE ImportBegin(c)
      BY <2>0, <2>2, <3>2 DEF ImportBegin
    <3>3. CASE UseBegin(c) \/ ExportBegin(c)
      BY <2>2, <2>4, <2>5, <3>3 DEF UseBegin, ExportBegin
    <3>4. CASE RotateRead(c)
      BY <2>2, <3>4 DEF RotateRead, OnePerName
    <3>5. CASE RotateWrite(c) \/ Delete(c) \/ SaveBackup(c) \/ Abort(c) \/ Send(c)
      BY <2>3, <3>5 DEF RotateWrite, Delete, SaveBackup, Abort, Send
    <3>6. QED
      BY <2>6, <2>7, <2>8, <2>9, <3>1, <3>2, <3>3, <3>4, <3>5 DEF ClientStep
  <2>10. ASSUME NEW c \in Client, ClientStep(c) PROVE backup' # None => OnePerName(backup')
    <3>1. CASE SaveBackup(c)
      BY <2>0, <3>1 DEF SaveBackup, ClientImports, OnePerName
    <3>2. CASE ~SaveBackup(c)
      <4>1. backup' = backup
        BY <2>10, <3>2 DEF ClientStep, SetBegin, ImportBegin, SetRead, SetWrite, RotateRead, RotateWrite,
                           Delete, UseBegin, ExportBegin, ReadSecret, Send, Abort
      <4>2. QED
        BY <2>0, <4>1
    <3>3. QED
      BY <3>1, <3>2
  <2>11. CASE UNCHANGED vars
    <3>1. Stored' = Stored
      BY <2>11 DEF vars, Stored, ItemOf
    <3>2. QED
      BY <2>0, <2>11, <3>1 DEF vars, locals, ImportInv, ClientImports, OnePerName
  <2>12. QED
    BY <2>1, <2>9, <2>10, <2>11 DEF Next, ClientStep, ImportInv
<1>3. QED
  BY <1>1, <1>2, TypeInvariant, PTL DEF Spec

(* import_vault restores what it has stored, save what others overwrite.   *)
THEOREM ImportsRestore == Spec => []ImportRestores
<1>1. ImportInv => ImportRestores
  BY DEF ImportInv, ClientImports, ImportRestores
<1>2. QED
  BY <1>1, ImportInvariant, PTL

-----------------------------------------------------------------------------
(* Refinement.  With no rotations every version is 1, so what a store read *)
(* before its upsert cannot show.                                          *)

AllFirst ==
  /\ \A n \in Name : rows[n] # None => rows[n].version = 1
  /\ \A c \in Client : pc[c] # "rotating" /\ (seen[c] # None => seen[c].version = 1)

LEMMA FirstInvariant == ASSUME "rotate" \notin Operation PROVE Spec => []AllFirst
<1>1. Init => AllFirst
  BY DEF Init, AllFirst
<1>2. TypeInv /\ AllFirst /\ [Next]_vars => AllFirst'
  <2> SUFFICES ASSUME TypeInv, AllFirst, [Next]_vars PROVE AllFirst'
    OBVIOUS
  <2>0. TypeOK
    BY DEF TypeInv
  <2>1. ASSUME NEW c \in Client, NEW operation, NEW I, Begin(c, operation, I), operation # "rotating",
               UNCHANGED <<rows, seen>>
        PROVE  AllFirst'
    BY <2>0, <2>1 DEF TypeOK, Begin, AllFirst
  <2>2. ASSUME NEW c \in Client, SetBegin(c) \/ ImportBegin(c) \/ UseBegin(c) \/ ExportBegin(c) PROVE AllFirst'
    BY <2>1, <2>2 DEF SetBegin, ImportBegin, UseBegin, ExportBegin
  <2>3. ASSUME NEW c \in Client, SetRead(c) PROVE AllFirst'
    <3>1. PICK item \in todo[c] :
            seen' = [seen EXCEPT ![c] = IF rows[item.name] = None THEN None
                        ELSE [secret |-> rows[item.name].secret, version |-> rows[item.name].version]]
      BY <2>3 DEF SetRead
    <3>2. item.name \in Name
      BY <2>0 DEF TypeOK, Item
    <3>3. QED
      BY <2>0, <2>3, <3>1, <3>2 DEF TypeOK, SetRead, AllFirst
  <2>4. ASSUME NEW c \in Client, SetWrite(c) PROVE AllFirst'
    <3>1. PICK item \in Item, row \in Row : item = arg[c] /\ row = Upserted(arg[c], seen[c])
      BY <2>0, <2>4, UpsertedIsRow DEF SetWrite, TypeOK
    <3>2. row.version = 1
      <4>1. rows[item.name] # None => rows[item.name] \in Row /\ rows[item.name].version = 1
        BY <2>0 DEF TypeOK, Item, AllFirst
      <4>2. QED
        BY <3>1, <4>1 DEF Upserted, Row, AllFirst
    <3>3. Commit(c, item.name, row) /\ item.name \in Name
      BY <2>4, <3>1 DEF SetWrite, Item
    <3>4. \A m \in Name : rows'[m] = IF m = item.name THEN row ELSE rows[m]
      BY <2>0, <3>3 DEF TypeOK, Commit
    <3>5. QED
      BY <2>0, <2>4, <3>2, <3>4 DEF TypeOK, SetWrite, AllFirst
  <2>5. ASSUME NEW c \in Client, Delete(c) PROVE AllFirst'
    BY <2>0, <2>5 DEF TypeOK, Delete, Commit, Forget, AllFirst
  <2>6. ASSUME NEW c \in Client, ReadSecret(c) PROVE AllFirst'
    BY <2>6 DEF ReadSecret, AllFirst
  <2>7. ASSUME NEW c \in Client, Send(c) \/ SaveBackup(c) \/ Abort(c) PROVE AllFirst'
    BY <2>0, <2>7 DEF TypeOK, Send, SaveBackup, Abort, Forget, AllFirst
  <2>8. CASE UNCHANGED vars
    BY <2>8 DEF vars, locals, AllFirst
  <2>9. QED
    BY <2>2, <2>3, <2>4, <2>5, <2>6, <2>7, <2>8 DEF Next, RotateRead, RotateWrite, AllFirst
<1>3. QED
  BY <1>1, <1>2, TypeInvariant, PTL DEF Spec

(* However many clients store, delete, back up, import and use profiles at *)
(* the same time, every store and every deletion happens at one instant.   *)
THEOREM StoresAreAtomic == ASSUME "rotate" \notin Operation PROVE Spec => ImplementsAtomicVault
<1>1. Init => Atomic!Init
  BY DEF Init, Atomic!Init
<1>2. TypeInv /\ AllFirst /\ [Next]_vars => [Atomic!Next]_rows
  <2> SUFFICES ASSUME TypeInv, AllFirst, [Next]_vars PROVE Atomic!Next \/ UNCHANGED rows
    BY DEF Atomic!Next
  <2>0. TypeOK
    BY DEF TypeInv
  <2>1. ASSUME NEW c \in Client, SetWrite(c) PROVE Atomic!Next
    <3>1. arg[c] \in Item /\ arg[c].name \in Name /\ arg[c].url \in Url /\ arg[c].secret \in Secret
      BY <2>0, <2>1 DEF SetWrite, TypeOK, Item
    <3>2. rows' = [rows EXCEPT ![arg[c].name] = Upserted(arg[c], seen[c])]
      BY <2>1 DEF SetWrite, Commit
    <3>3. Upserted(arg[c], seen[c]) =
             IF rows[arg[c].name] = None
               THEN [url |-> arg[c].url, secret |-> arg[c].secret, prev |-> None, version |-> 1]
               ELSE [rows[arg[c].name] EXCEPT !.url = arg[c].url, !.secret = arg[c].secret]
      BY DEF Upserted, AllFirst
    <3>4. Atomic!Set(arg[c].name, arg[c].url, arg[c].secret)
      BY <3>2, <3>3 DEF Atomic!Set
    <3>5. QED
      BY <3>1, <3>4 DEF Atomic!Next
  <2>2. ASSUME NEW c \in Client, Delete(c) PROVE Atomic!Next
    BY <2>2 DEF Delete, Commit, Atomic!Next, Atomic!Delete
  <2>3. ASSUME NEW c \in Client, ~SetWrite(c), ~Delete(c), ClientStep(c) PROVE UNCHANGED rows
    BY <2>3 DEF ClientStep, SetBegin, ImportBegin, SetRead, RotateRead, RotateWrite, UseBegin, ExportBegin,
                ReadSecret, Send, SaveBackup, Abort, AllFirst
  <2>4. QED
    BY <2>1, <2>2, <2>3 DEF Next, ClientStep, vars
<1>3. QED
  BY <1>1, <1>2, TypeInvariant, FirstInvariant, PTL DEF Spec, ImplementsAtomicVault, Atomic!Spec
==============================================================================
