----------------------------- MODULE AtomicVault -----------------------------
(***************************************************************************)
(* What vault/store.py promises its callers: a table of profiles in which  *)
(* storing, rotating and deleting a profile each happen at one instant.    *)
(***************************************************************************)
EXTENDS Naturals

CONSTANTS Name, Url, Secret, None

Row == [url : Url, secret : Secret, prev : Secret \cup {None}, version : Nat \ {0}]

VARIABLE profiles   \* per name its row, or None

Init == profiles = [n \in Name |-> None]

\* A profile is created at version 1, or keeps its version and its backup key.
Set(n, u, s) ==
    profiles' = [profiles EXCEPT ![n] =
        IF @ = None THEN [url |-> u, secret |-> s, prev |-> None, version |-> 1]
        ELSE [@ EXCEPT !.url = u, !.secret = s]]

\* The secret in use becomes the backup key, in a new version.
Rotate(n, s) ==
    /\ profiles[n] # None
    /\ LET row == profiles[n]
       IN  profiles' = [profiles EXCEPT ![n] =
              [row EXCEPT !.secret = s, !.prev = row.secret, !.version = row.version + 1]]

Delete(n) ==
    /\ profiles[n] # None
    /\ profiles' = [profiles EXCEPT ![n] = None]

Next ==
    \E n \in Name :
        \/ \E u \in Url, s \in Secret : Set(n, u, s)
        \/ \E s \in Secret : Rotate(n, s)
        \/ Delete(n)

Spec == Init /\ [][Next]_profiles
==============================================================================
