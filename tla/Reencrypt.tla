------------------------------ MODULE Reencrypt ------------------------------
(***************************************************************************)
(* reencrypt (src/cmd/dashboard/init.go:110-128), run at dashboard startup *)
(* when DATABASE_ENCRYPTION_KEY_NEW is set: every user row is read and     *)
(* saved again through a store that encrypts with the new key, then the    *)
(* operator is told to replace the old key with the new one and the        *)
(* process exits 0.                                                        *)
(*                                                                         *)
(* The loop checks err after store.UpdateUser(u), but UpdateUser's result  *)
(* is never assigned: err is still the (nil) error of EverytingFromUsers.  *)
(* A failed update is therefore skipped silently.                          *)
(*                                                                         *)
(* enc[u] is the key user u's secret fields are encrypted with.            *)
(***************************************************************************)
EXTENDS Naturals, Sequences, SequencesExt

CONSTANTS
    Users,       \* the rows of the users table, in the order the query returns them
    MaxFailures  \* how many UpdateUser calls may fail

VARIABLES
    pc,        \* "start", "loop", "exited", "returned"
    keyNew,    \* TRUE: encryptionKeyNew is not ""
    err,       \* the variable err of reencrypt
    todo,      \* the users the loop has not reached yet
    enc,       \* user -> "old" | "new"
    failures,  \* UpdateUser calls that failed so far
    dbKey      \* the key the operator configures after the run

vars == <<pc, keyNew, err, todo, enc, failures, dbKey>>

UserSet == ToSet(Users)

Init ==
    /\ pc = "start"
    /\ keyNew \in BOOLEAN
    /\ err = "nil"
    /\ todo = <<>>
    /\ enc = [u \in UserSet |-> "old"]
    /\ failures = 0
    /\ dbKey = "old"

\* No new key: return nil.  Otherwise EverytingFromUsers, whose error is
\* returned.
Start ==
    /\ pc = "start"
    /\ \/ /\ ~keyNew
          /\ pc' = "returned"
          /\ UNCHANGED <<err, todo>>
       \/ /\ keyNew
          /\ \E listErr \in {"nil", "error"} :
                /\ err' = listErr
                /\ pc' = IF listErr = "nil" THEN "loop" ELSE "returned"
                /\ todo' = IF listErr = "nil" THEN Users ELSE <<>>
    /\ UNCHANGED <<keyNew, enc, failures, dbKey>>

\* One iteration: store.UpdateUser(u) saves the row under the new key or
\* fails; its error is dropped, and the check of err that follows sees the
\* nil error of EverytingFromUsers, so the loop always goes on.
UpdateUser ==
    /\ pc = "loop"
    /\ todo # <<>>
    /\ \E ok \in BOOLEAN :
          /\ ok \/ failures < MaxFailures
          /\ failures' = IF ok THEN failures ELSE failures + 1
          /\ enc' = IF ok THEN [enc EXCEPT ![Head(todo)] = "new"] ELSE enc
    /\ todo' = Tail(todo)
    /\ UNCHANGED <<pc, keyNew, err, dbKey>>

\* The loop ends: the "re-encryption is done" message and os.Exit(0).
Exit ==
    /\ pc = "loop"
    /\ todo = <<>>
    /\ pc' = "exited"
    /\ UNCHANGED <<keyNew, err, todo, enc, failures, dbKey>>

\* The operator follows the message: DATABASE_ENCRYPTION_KEY becomes the
\* new key.
SwitchKey ==
    /\ pc = "exited"
    /\ dbKey = "old"
    /\ dbKey' = "new"
    /\ UNCHANGED <<pc, keyNew, err, todo, enc, failures>>

Finished ==
    /\ pc = "returned" \/ (pc = "exited" /\ dbKey = "new")
    /\ UNCHANGED vars

Next == Start \/ UpdateUser \/ Exit \/ SwitchKey \/ Finished

Spec == Init /\ [][Next]_vars

-----------------------------------------------------------------------------

\* reencrypt's closing message: when it exits telling the operator to switch
\* keys, every user row is encrypted with the new key, so that after the
\* switch no user's secrets are unreadable.
ReadableAfterSwitch ==
    dbKey = "new" => \A u \in UserSet : enc[u] = dbKey

=============================================================================
