-------------------------- MODULE MCGitopsBootstrap --------------------------
EXTENDS GitopsBootstrap

\* A repository named "gitops-repo" of owner "o", host "h", env "e".
MCHost == <<"h">>
MCOwner == <<"o">>
MCRepo == <<"g", "i", "t", "o", "p", "s", "-", "r", "e", "p", "o">>
MCEnvName == <<"e">>
MCCaseFold == "O" :> "o"

=============================================================================
