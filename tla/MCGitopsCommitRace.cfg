\* SaveOrUpdateGitopsCommit, callers MCCallers2, sqlite TRUE (expected: violation).
CONSTANTS
    c1 = c1
    c2 = c2
    s1 = s1
    NoRow = NoRow
    Callers <- MCCallers2
    Shas <- MCShas
    Statuses <- MCStatuses
    FinalStatuses <- MCFinal
    Sqlite = TRUE
    MaxCalls = 3
SPECIFICATION Spec
PROPERTY FinalStatusIsFinal
