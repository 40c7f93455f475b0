\* UserRepos over listings of up to three pages, by number or by link.
CONSTANTS
    r1 = r1
    r2 = r2
    RepoNames <- MCRepoNames
    MaxPages = 3
SPECIFICATION Spec
CONSTRAINT WithinListing
INVARIANT ReturnsEveryRepo
PROPERTY UserReposReturns
