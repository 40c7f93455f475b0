---------------------------- MODULE MCGitopsNames ----------------------------
EXTENDS GitopsNames, LogRedaction

(***************************************************************************)
(* The checks of the string helpers: one state per argument tuple drawn   *)
(* from MCHosts, MCOwners, MCRepos and MCEnvs and per log message of      *)
(* Messages; a state makes no step.                                       *)
(***************************************************************************)

\* Strings of one-letter strings.
MCCaseFold == "G" :> "g" @@ "A" :> "a"

MCHosts == {<<"h">>, <<"h", ".", "i", "o">>}

\* A short owner, one with a dash and upper case, and two eleven-letter
\* owners that share their first ten letters.
MCOwners ==
    {<<"a">>, <<"G", "-", "a">>,
     <<"g", "i", "m", "l", "e", "t", "-", "i", "o", "-", "a">>,
     <<"g", "i", "m", "l", "e", "t", "-", "i", "o", "-", "h">>}

\* Repository names with a dash, a "gitops-" prefix and a ".git" suffix.
MCRepos ==
    {<<"a">>, <<"h", "-", "a">>, <<"g", "i", "t", "o", "p", "s", "-", "a">>,
     <<"a", ".", "g", "i", "t">>}

MCEnvs == {<<"a">>, <<"a", "-", "h">>}

VARIABLES call, message

\* Every message of at most five symbols: the token parameter, a value
\* character and the two delimiters.
Messages == SeqOf({TokenParam, "v", "&", " "}, 5)

Calls == [singleEnv : BOOLEAN, host : MCHosts, owner : MCOwners,
          repo : MCRepos, env : MCEnvs]

\* The scp-like URL of a repository as the git provider shows it.
SshURL(c) ==
    <<"g", "i", "t", "@">> \o c.host \o <<":">> \o c.owner \o <<"/">>
        \o c.repo \o <<".", "g", "i", "t">>

\* What UniqueName is meant to tell apart: the owner and repository (case
\* does not matter to the providers) and, unless single-env, the env.
Identity(c) ==
    IF c.singleEnv THEN <<ToLower(c.owner), ToLower(c.repo)>>
    ELSE <<ToLower(c.owner), ToLower(c.repo), ToLower(c.env)>>

Name(c) == UniqueName(c.singleEnv, c.owner, c.repo, c.env)

Init == call \in Calls /\ message \in Messages

Evaluate == UNCHANGED <<call, message>>

Spec == Init /\ [][Evaluate]_<<call, message>>

\* ParseRepoURL undoes the ssh URL of a repository: it gives back the host,
\* the owner and the repository name (GenerateManifestProviderAndAlert
\* names the flux objects after the owner and repo it returns).
ParseRepoURLInverse ==
    ParseRepoURL(SshURL(call)) = <<call.host, call.owner, call.repo>>

\* UniqueName lives up to its name: two different repositories or envs
\* never get the same flux object names.
UniqueNameInjective ==
    \A other \in Calls :
        (other.singleEnv = call.singleEnv /\ Identity(other) # Identity(call))
            => Name(other) # Name(call)

\* The dashboard's log formatter hides exactly the access tokens: the
\* left-to-right regexp replacement in hideAccessToken agrees with the
\* field-by-field reference Redacted on every message, a bare
\* "access_token=" (nothing after it) and tokens after delimiters included.
FormatRedactsTokens == Format(message) = Redacted(message)

=============================================================================
