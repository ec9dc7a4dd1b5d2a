------------------------------ MODULE VaultStore ------------------------------
(***************************************************************************)
(* The credential vault: vault/store.py (VaultStore), the backups of       *)
(* vault/migration.py (VaultMigration), and the two reads by which         *)
(* proxy/forwarder.py takes a profile and its secret.                      *)
(*                                                                         *)
(* Each SQL statement that is committed is one step; the operations that   *)
(* need two of them (store, rotate, forward, export, import) hold what the *)
(* first one read across awaits, and the command line works on the same    *)
(* database from processes of its own.  An operation that finds no profile *)
(* at its first read changes nothing and is left out.                      *)
(*                                                                         *)
(* A secret stands for its encryption: VaultCipher binds it to the name of *)
(* its profile and every process has the same master key.  The columns     *)
(* that no operation reads back (time stamps, domains, injection, header   *)
(* names, metadata) are left out, url stands for them.                     *)
(***************************************************************************)
EXTENDS Naturals, FiniteSets

CONSTANTS
    Client,     \* request handlers and command line processes
    Name, Url, Secret,
    Empty,      \* the secret "", which can be stored and rotated in like any other
    Operation,  \* the operations the clients run
    None,       \* Python's None, SQL's NULL, no row
    MaxVersion  \* bound of the model: no rotation starts on a later version

ASSUME VaultAssumption ==
    /\ None \notin [name : Name, url : Url, secret : Secret]
    /\ None \notin [url : Url, secret : Secret, prev : Secret \cup {None}, version : Nat \ {0}]
    /\ None \notin [secret : Secret, version : Nat \ {0}]
    /\ None \notin Secret \cup Url
    /\ MaxVersion \in Nat

VARIABLES
    rows,       \* table vault_profiles
    backup,     \* the backup file, the items it holds
    pc,         \* the operation a client runs, or how its last one ended
    arg,        \* the item it stores, or the name and secret it rotates
    seen,       \* what its first read returned
    todo,       \* items still to be stored, or whose secret is still to be read
    done,       \* items stored, or read completely
    touched,    \* ghost: names that other clients wrote since it began
    history     \* ghost: the items that were rows of the table at some time

locals == <<pc, arg, seen, todo, done>>
vars == <<rows, backup, locals, touched, history>>

Row  == [url : Url, secret : Secret, prev : Secret \cup {None}, version : Nat \ {0}]
Item == [name : Name, url : Url, secret : Secret]

ItemOf(n) == [name |-> n, url |-> rows[n].url, secret |-> rows[n].secret]
Stored == {ItemOf(n) : n \in {m \in Name : rows[m] # None}}

Busy(c) == pc[c] \in {"storing", "rotating", "using", "saving"}

\* Client c takes up an operation, with the items in I before it.
Begin(c, operation, I) ==
    /\ ~Busy(c)
    /\ pc' = [pc EXCEPT ![c] = operation]
    /\ todo' = [todo EXCEPT ![c] = I]
    /\ done' = [done EXCEPT ![c] = {}]
    /\ touched' = [touched EXCEPT ![c] = {}]

\* The operation of client c is over and its local variables are gone.
Forget(c, how) ==
    /\ pc' = [pc EXCEPT ![c] = how]
    /\ arg' = [arg EXCEPT ![c] = None]
    /\ seen' = [seen EXCEPT ![c] = None]
    /\ todo' = [todo EXCEPT ![c] = {}]
    /\ done' = [done EXCEPT ![c] = {}]

\* Client c commits the row of n, None deletes it.
Commit(c, n, row) ==
    /\ rows' = [rows EXCEPT ![n] = row]
    /\ touched' = [d \in Client |-> IF d = c THEN touched[d] ELSE touched[d] \cup {n}]
    /\ history' = IF row = None THEN history
                  ELSE history \cup {[name |-> n, url |-> row.url, secret |-> row.secret]}

Init ==
    /\ rows = [n \in Name |-> None]
    /\ backup = None
    /\ pc = [c \in Client |-> "idle"]
    /\ arg = [c \in Client |-> None]
    /\ seen = [c \in Client |-> None]
    /\ todo = [c \in Client |-> {}]
    /\ done = [c \in Client |-> {}]
    /\ touched = [c \in Client |-> {}]
    /\ history = {}

-----------------------------------------------------------------------------
(* set_profile, by itself or for each item of a backup. *)

SetBegin(c) ==
    /\ "set" \in Operation
    /\ \E item \in Item : Begin(c, "storing", {item})
    /\ UNCHANGED <<rows, backup, arg, seen, history>>

\* import_vault has decrypted the file.
ImportBegin(c) ==
    /\ "import" \in Operation
    /\ backup # None
    /\ backup # {}
    /\ Begin(c, "storing", backup)
    /\ UNCHANGED <<rows, backup, arg, seen, history>>

\* SELECT created_at, version, encrypted_secret.
SetRead(c) ==
    /\ pc[c] = "storing"
    /\ arg[c] = None
    /\ \E item \in todo[c] :
          LET row == rows[item.name]
          IN  /\ arg' = [arg EXCEPT ![c] = item]
              /\ seen' = [seen EXCEPT ![c] = IF row = None THEN None
                              ELSE [secret |-> row.secret, version |-> row.version]]
    /\ UNCHANGED <<rows, backup, pc, todo, done, touched, history>>

\* Mutant: a profile is created at version 0.
UpsertedFromZero(item, read) ==
    IF rows[item.name] = None
      THEN [url |-> item.url, secret |-> item.secret, prev |-> None,
            version |-> IF read = None THEN 0 ELSE read.version]
      ELSE [rows[item.name] EXCEPT !.url = item.url, !.secret = item.secret]

\* Mutant: DO UPDATE SET version = excluded.version as well.
UpsertedWithVersion(item, read) ==
    [url |-> item.url, secret |-> item.secret,
     prev |-> IF rows[item.name] = None THEN None ELSE rows[item.name].prev,
     version |-> IF read = None THEN 1 ELSE read.version]

\* The row that INSERT ... ON CONFLICT DO UPDATE leaves.
Upserted(item, read) ==
    IF rows[item.name] = None
      THEN [url |-> item.url, secret |-> item.secret, prev |-> None,
            version |-> IF read = None THEN 1 ELSE read.version]
      ELSE [rows[item.name] EXCEPT !.url = item.url, !.secret = item.secret]

\* Mutant: ON CONFLICT DO NOTHING.
SetWriteOnce(c) ==
    /\ pc[c] = "storing"
    /\ arg[c] # None
    /\ Commit(c, arg[c].name, IF rows[arg[c].name] = None THEN Upserted(arg[c], seen[c])
                              ELSE rows[arg[c].name])
    /\ pc' = [pc EXCEPT ![c] = IF todo[c] = {arg[c]} THEN "ok" ELSE @]
    /\ todo' = [todo EXCEPT ![c] = @ \ {arg[c]}]
    /\ done' = [done EXCEPT ![c] = @ \cup {arg[c]}]
    /\ arg' = [arg EXCEPT ![c] = None]
    /\ seen' = [seen EXCEPT ![c] = None]
    /\ UNCHANGED backup

\* The upsert is committed; an import goes on to its next item.
SetWrite(c) ==
    /\ pc[c] = "storing"
    /\ arg[c] # None
    /\ Commit(c, arg[c].name, Upserted(arg[c], seen[c]))
    /\ pc' = [pc EXCEPT ![c] = IF todo[c] = {arg[c]} THEN "ok" ELSE @]
    /\ todo' = [todo EXCEPT ![c] = @ \ {arg[c]}]
    /\ done' = [done EXCEPT ![c] = @ \cup {arg[c]}]
    /\ arg' = [arg EXCEPT ![c] = None]
    /\ seen' = [seen EXCEPT ![c] = None]
    /\ UNCHANGED backup

-----------------------------------------------------------------------------
(* rotate_secret and delete_profile. *)

RotateRead(c) ==
    /\ "rotate" \in Operation
    /\ \E n \in Name, s \in Secret :
          /\ rows[n] # None
          /\ rows[n].version < MaxVersion
          /\ arg' = [arg EXCEPT ![c] = [name |-> n, url |-> rows[n].url, secret |-> s]]
          /\ seen' = [seen EXCEPT ![c] = [secret |-> rows[n].secret, version |-> rows[n].version]]
    /\ Begin(c, "rotating", {})
    /\ UNCHANGED <<rows, backup, history>>

\* Mutant: the two secrets are swapped in the UPDATE.
RotateWriteSwapped(c) ==
    /\ pc[c] = "rotating"
    /\ LET n == arg[c].name
       IN  IF rows[n] = None
             THEN UNCHANGED <<rows, touched, history>>
             ELSE Commit(c, n, [rows[n] EXCEPT !.secret  = seen[c].secret,
                                               !.prev    = arg[c].secret,
                                               !.version = seen[c].version + 1])
    /\ Forget(c, "ok")
    /\ UNCHANGED backup

\* Mutant: the backup key is not taken along.
RotateWriteWithoutBackup(c) ==
    /\ pc[c] = "rotating"
    /\ LET n == arg[c].name
       IN  IF rows[n] = None
             THEN UNCHANGED <<rows, touched, history>>
             ELSE Commit(c, n, [rows[n] EXCEPT !.secret  = arg[c].secret,
                                               !.version = seen[c].version + 1])
    /\ Forget(c, "ok")
    /\ UNCHANGED backup

\* UPDATE ... WHERE name = ?: no row, no update, and no error.
RotateWrite(c) ==
    /\ pc[c] = "rotating"
    /\ LET n == arg[c].name
       IN  IF rows[n] = None
             THEN UNCHANGED <<rows, touched, history>>
             ELSE Commit(c, n, [rows[n] EXCEPT !.secret  = arg[c].secret,
                                               !.prev    = seen[c].secret,
                                               !.version = seen[c].version + 1])
    /\ Forget(c, "ok")
    /\ UNCHANGED backup

Delete(c) ==
    /\ "delete" \in Operation
    /\ ~Busy(c)
    /\ \E n \in Name :
          /\ rows[n] # None
          /\ Commit(c, n, None)
    /\ Forget(c, "ok")
    /\ UNCHANGED backup

-----------------------------------------------------------------------------
(* forward and export_vault read profiles first and their secrets later. *)

\* get_profile in forward.
UseBegin(c) ==
    /\ "use" \in Operation
    /\ \E item \in Stored : Begin(c, "using", {item})
    /\ UNCHANGED <<rows, backup, arg, seen, history>>

\* get_all_profiles in export_vault.
ExportBegin(c) ==
    /\ "export" \in Operation
    /\ Begin(c, "saving", Stored)
    /\ UNCHANGED <<rows, backup, arg, seen, history>>

\* What get_decrypted_secret returns is a secret to its callers, not None or "".
HasSecret(n) == rows[n] # None /\ rows[n].secret # Empty

\* Mutant: a profile without a secret ends the loop instead of being skipped.
ReadSecretBreaking(c) ==
    /\ pc[c] \in {"using", "saving"}
    /\ \E item \in todo[c] :
          /\ todo' = [todo EXCEPT ![c] = IF HasSecret(item.name) THEN @ \ {item} ELSE {}]
          /\ done' = [done EXCEPT ![c] =
                         IF HasSecret(item.name)
                           THEN @ \cup {[item EXCEPT !.secret = rows[item.name].secret]}
                           ELSE @]
    /\ UNCHANGED <<rows, backup, pc, arg, seen, touched, history>>

\* get_decrypted_secret; a profile deleted meanwhile has none, an empty one is passed over.
ReadSecret(c) ==
    /\ pc[c] \in {"using", "saving"}
    /\ \E item \in todo[c] :
          /\ todo' = [todo EXCEPT ![c] = @ \ {item}]
          /\ done' = [done EXCEPT ![c] =
                         IF HasSecret(item.name)
                           THEN @ \cup {[item EXCEPT !.secret = rows[item.name].secret]}
                           ELSE @]
    /\ UNCHANGED <<rows, backup, pc, arg, seen, touched, history>>

\* forward has both and sends the request, or answers 500 with no secret.
Send(c) ==
    /\ pc[c] = "using"
    /\ todo[c] = {}
    /\ Forget(c, IF done[c] = {} THEN "failed" ELSE "ok")
    /\ UNCHANGED <<rows, backup, touched, history>>

\* The backup file is written, with no await in between.
SaveBackup(c) ==
    /\ pc[c] = "saving"
    /\ todo[c] = {}
    /\ backup' = done[c]
    /\ Forget(c, "ok")
    /\ UNCHANGED <<rows, touched, history>>

\* A statement raises (database is locked) or the process dies: what the operation
\* has committed stays, the rest of it never happens.
Abort(c) ==
    /\ Busy(c)
    /\ Forget(c, "failed")
    /\ UNCHANGED <<rows, backup, touched, history>>

Next ==
    \E c \in Client :
        \/ SetBegin(c) \/ ImportBegin(c) \/ SetRead(c) \/ SetWrite(c)
        \/ RotateRead(c) \/ RotateWrite(c) \/ Delete(c)
        \/ UseBegin(c) \/ ExportBegin(c) \/ ReadSecret(c) \/ Send(c) \/ SaveBackup(c)
        \/ Abort(c)

Spec == Init /\ [][Next]_vars

-----------------------------------------------------------------------------
TypeOK ==
    /\ rows \in [Name -> Row \cup {None}]
    /\ backup \in (SUBSET Item) \cup {None}
    /\ pc \in [Client -> {"idle", "ok", "failed", "storing", "rotating", "using", "saving"}]
    /\ arg \in [Client -> Item \cup {None}]
    /\ seen \in [Client -> [secret : Secret, version : Nat \ {0}] \cup {None}]
    /\ todo \in [Client -> SUBSET Item]
    /\ done \in [Client -> SUBSET Item]
    /\ touched \in [Client -> SUBSET Name]
    /\ history \subseteq Item

(* The promise: every operation on the table happens at one instant. *)
Atomic == INSTANCE AtomicVault WITH profiles <- rows
ImplementsAtomicVault == Atomic!Spec

(* However much overlaps elsewhere, the promise is kept for a profile: a   *)
(* store or a rotation that ends while nobody else has written its profile *)
(* since it began does at one instant what it was asked to.                *)
UndisturbedIsAtomic ==
    [][\A c \in Client :
          arg[c] # None /\ arg'[c] = None /\ pc'[c] # "failed" /\ arg[c].name \notin touched[c]
          => \/ pc[c] = "storing" /\ Atomic!Set(arg[c].name, arg[c].url, arg[c].secret)
             \/ pc[c] = "rotating" /\ Atomic!Rotate(arg[c].name, arg[c].secret)]_vars

(* However operations interleave, a backup key is a secret that was once   *)
(* in use for the same profile, so falling back to it makes sense.         *)
BackupKeyWasInUse ==
    \A n \in Name :
        rows[n] # None /\ rows[n].prev # None
        => \E item \in history : item.name = n /\ item.secret = rows[n].prev

(* However operations interleave, a profile with a backup key is not at    *)
(* version 1: storing a profile never takes back a rotation's version.     *)
BackupKeyHasVersion ==
    \A n \in Name : rows[n] # None /\ rows[n].prev # None => rows[n].version > 1

(* A rotation that no other write to its profile overlapped replaces the   *)
(* secret in use, keeps it as the backup key and makes a new version.      *)
UndisturbedRotation ==
    [][\A c \in Client :
          pc[c] = "rotating" /\ pc'[c] = "ok" /\ arg[c].name \notin touched[c]
          => LET n == arg[c].name
             IN  /\ rows[n] # None
                 /\ rows'[n].secret = arg[c].secret
                 /\ rows'[n].prev = rows[n].secret
                 /\ rows'[n].version = rows[n].version + 1]_vars

(* What an export or a request has read of profiles that nobody wrote      *)
(* meanwhile is what the table holds, and an export misses none of them    *)
(* but those with an empty secret.  However writers interfere, what it has *)
(* read is the profile's own: a URL and a secret, not empty, which that    *)
(* profile has had, if not necessarily at the same time.                   *)
ReadsAreCurrent ==
    \A c \in Client : pc[c] \in {"using", "saving"} =>
        LET Quiet(I) == {item \in I : item.name \notin touched[c]}
            Saved    == {item \in Stored : item.secret # Empty}
        IN  /\ Quiet(todo[c] \cup done[c]) \subseteq Stored
            /\ pc[c] = "saving" => Quiet(Saved) \subseteq todo[c] \cup done[c]
            /\ \A item \in done[c] :
                  /\ item.secret # Empty
                  /\ \E had \in history : had.name = item.name /\ had.url = item.url
                  /\ \E had \in history : had.name = item.name /\ had.secret = item.secret

(* When an import ends, every profile of the backup that nobody else wrote *)
(* meanwhile is in the vault with the backup's secret.                     *)
ImportRestores ==
    \A c \in Client : \A item \in done[c] :
        pc[c] \in {"storing", "ok"} /\ item.name \notin touched[c]
        => item \in Stored

(* store.py:200, "keeping previous secret as fallback": the backup key of  *)
(* a rotated profile is the secret that the rotation replaced.             *)
RotationKeepsReplaced ==
    [][\A c \in Client :
          LET n == arg[c].name
          IN  pc[c] = "rotating" /\ pc'[c] = "ok" /\ rows[n] # None
              => rows'[n].prev = rows[n].secret]_vars
==============================================================================
