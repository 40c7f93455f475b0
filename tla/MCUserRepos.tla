----------------------------- MODULE MCUserRepos -----------------------------
EXTENDS UserRepos

CONSTANTS r1, r2

MCRepoNames == {r1, r2}

=============================================================================
