------------------------- MODULE GitopsCommitStore -------------------------
(***************************************************************************)
(* Store.SaveOrUpdateGitopsCommit (src/pkg/dashboard/store/gitopsCommit.go)*)
(* called concurrently by several callers.  A save reads the row of the    *)
(* commit's sha; if there is none it inserts the commit, if the stored     *)
(* status is final it refuses the update, otherwise it overwrites the      *)
(* status.  On the sqlite driver there is no transaction; on the others a  *)
(* transaction is begun, but the select, the insert and the update are all *)
(* issued on db, not on tx, so the transaction covers none of them: both   *)
(* variants are a read followed by a separate write.                       *)
(*                                                                         *)
(* The table keeps one row per sha: a second insert of a sha fails.        *)
(***************************************************************************)
EXTENDS Naturals

CONSTANTS
    Callers,           \* concurrent callers of SaveOrUpdateGitopsCommit
    Shas,              \* gitops commit shas
    Statuses,          \* the model.GitopsCommit status values
    FinalStatuses,     \* ReconciliationSucceeded, ReconciliationFailed,
                       \* ValidationFailed
    Sqlite,            \* TRUE: db.driver = "sqlite"
    MaxCalls,          \* bound on the number of saves
    NoRow              \* no row for the sha

ASSUME FinalStatuses \subseteq Statuses /\ Sqlite \in BOOLEAN

VARIABLES
    rows,    \* the gitops_commits table: sha -> status
    pc,      \* where each caller is in the save
    arg,     \* the commit each caller saves
    calls,   \* saves started so far
    ret,     \* what each caller's last save returned: "none" while it
             \* runs, "true", "false" (with a nil error) or "err"
    wrote    \* whether each caller's current save has changed the table

vars == <<rows, pc, arg, calls, ret, wrote>>

Commits == [sha : Shas, status : Statuses]

PCs == {"idle", "begin", "query", "insert", "update", "commit"}

\* The save returns r.
Return(c, r) ==
    /\ pc' = [pc EXCEPT ![c] = "idle"]
    /\ ret' = [ret EXCEPT ![c] = r]

\* A caller starts SaveOrUpdateGitopsCommit; the driver picks the variant.
Call(c, commit) ==
    /\ pc[c] = "idle"
    /\ calls < MaxCalls
    /\ calls' = calls + 1
    /\ arg' = [arg EXCEPT ![c] = commit]
    /\ pc' = [pc EXCEPT ![c] = IF Sqlite THEN "query" ELSE "begin"]
    /\ ret' = [ret EXCEPT ![c] = "none"]
    /\ wrote' = [wrote EXCEPT ![c] = FALSE]
    /\ UNCHANGED rows

\* db.Begin(): on an error the save returns it.
Begin(c) ==
    /\ pc[c] = "begin"
    /\ \/ /\ pc' = [pc EXCEPT ![c] = "query"]
          /\ UNCHANGED ret
       \/ Return(c, "err")
    /\ UNCHANGED <<rows, arg, calls, wrote>>

\* SelectGitopsCommitBySha: sql.ErrNoRows leads to the insert; another
\* error is returned; a final stored status ends the save unchanged
\* ("commit was applied already"); otherwise the update follows.
Query(c) ==
    /\ pc[c] = "query"
    /\ \/ Return(c, "err")
       \/ /\ rows[arg[c].sha] = NoRow
          /\ pc' = [pc EXCEPT ![c] = "insert"]
          /\ UNCHANGED ret
       \/ /\ rows[arg[c].sha] \in FinalStatuses
          /\ Return(c, "false")
       \/ /\ rows[arg[c].sha] \notin FinalStatuses \cup {NoRow}
          /\ pc' = [pc EXCEPT ![c] = "update"]
          /\ UNCHANGED ret
    /\ UNCHANGED <<rows, arg, calls, wrote>>

\* The write succeeded: the sqlite variant returns true; the transaction
\* variant goes on to tx.Commit().
Written(c) ==
    IF Sqlite THEN Return(c, "true")
    ELSE /\ pc' = [pc EXCEPT ![c] = "commit"]
         /\ UNCHANGED ret

\* meddler.Insert: fails if the sha was inserted since the select.
Insert(c) ==
    /\ pc[c] = "insert"
    /\ IF rows[arg[c].sha] = NoRow
       THEN /\ rows' = [rows EXCEPT ![arg[c].sha] = arg[c].status]
            /\ wrote' = [wrote EXCEPT ![c] = TRUE]
            /\ Written(c)
       ELSE /\ Return(c, "err")
            /\ UNCHANGED <<rows, wrote>>
    /\ UNCHANGED <<arg, calls>>

\* meddler.Update of the row read by the select, with the caller's status.
Update(c) ==
    /\ pc[c] = "update"
    /\ \/ /\ rows' = [rows EXCEPT ![arg[c].sha] = arg[c].status]
          /\ wrote' = [wrote EXCEPT ![c] = TRUE]
          /\ Written(c)
       \/ /\ Return(c, "err")
          /\ UNCHANGED <<rows, wrote>>
    /\ UNCHANGED <<arg, calls>>

\* return true, tx.Commit(): the transaction holds none of the writes, so
\* its commit (or the deferred Rollback after a failed commit) leaves the
\* table as it is; only the returned error depends on it.
Commit(c) ==
    /\ pc[c] = "commit"
    /\ \E ok \in BOOLEAN : Return(c, IF ok THEN "true" ELSE "err")
    /\ UNCHANGED <<rows, arg, calls, wrote>>

Init ==
    /\ rows = [s \in Shas |-> NoRow]
    /\ pc = [c \in Callers |-> "idle"]
    /\ arg = [c \in Callers |-> CHOOSE cm \in Commits : TRUE]
    /\ calls = 0
    /\ ret = [c \in Callers |-> "none"]
    /\ wrote = [c \in Callers |-> FALSE]

\* All saves are made and have returned.
Done ==
    /\ calls = MaxCalls
    /\ \A c \in Callers : pc[c] = "idle"
    /\ UNCHANGED vars

Next ==
    \/ \E c \in Callers :
          \/ \E cm \in Commits : Call(c, cm)
          \/ Begin(c) \/ Query(c) \/ Insert(c) \/ Update(c) \/ Commit(c)
    \/ Done

Spec == Init /\ [][Next]_vars

-----------------------------------------------------------------------------

TypeOK ==
    /\ rows \in [Shas -> Statuses \cup {NoRow}]
    /\ pc \in [Callers -> PCs]
    /\ arg \in [Callers -> Commits]
    /\ calls \in 0..MaxCalls
    /\ ret \in [Callers -> {"none", "true", "false", "err"}]
    /\ wrote \in [Callers -> BOOLEAN]

\* The comment at gitopsCommit.go:60: once a commit is stored with a final
\* status (applied or rejected) no later save changes it.
FinalStatusIsFinal ==
    [][\A s \in Shas : rows[s] \in FinalStatuses => rows'[s] = rows[s]]_rows

\* A save that returns an error has not changed the table: a caller that
\* sees the error may retry or report the commit as not saved (the
\* transaction of saveOrUpdateGitopsCommitWithTx is there to roll the
\* writes back).
ErrorMeansUnchanged ==
    \A c \in Callers : ret[c] = "err" => ~wrote[c]

=============================================================================
