------------------------ MODULE MCGitopsCommitStore ------------------------
(* Instantiates GitopsCommitStore for TLC.                                 *)
EXTENDS GitopsCommitStore

CONSTANTS c1, c2, s1

MCCallers1 == {c1}
MCCallers2 == {c1, c2}
MCShas == {s1}
MCStatuses == {"NotReconciled", "ReconciliationSucceeded", "ReconciliationFailed"}
MCFinal == {"ReconciliationSucceeded", "ReconciliationFailed"}

=============================================================================
