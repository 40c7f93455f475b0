\* Two bootstraps and two notification setups of one single-env repository
\* whose name contains "gitops-repo" (expected: violation).
CONSTANTS
    Panic = Panic
    CaseFold <- MCCaseFold
    Host <- MCHost
    Owner <- MCOwner
    Repo <- MCRepo
    EnvName <- MCEnvName
    SingleEnv = TRUE
    MaxRuns = 2
SPECIFICATION Spec
PROPERTY FilesKeepTheirKind
