CONSTANTS
    Panic = Panic
    CaseFold <- MCCaseFold
SPECIFICATION Spec
INVARIANT ParseRepoURLInverse FormatRedactsTokens
