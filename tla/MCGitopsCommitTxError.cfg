\* SaveOrUpdateGitopsCommit, one caller, transaction variant, tx.Commit may
\* fail (expected: violation).
CONSTANTS
    c1 = c1
    c2 = c2
    s1 = s1
    NoRow = NoRow
    Callers <- MCCallers1
    Shas <- MCShas
    Statuses <- MCStatuses
    FinalStatuses <- MCFinal
    Sqlite = FALSE
    MaxCalls = 2
SPECIFICATION Spec
INVARIANT ErrorMeansUnchanged
