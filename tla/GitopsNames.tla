----------------------------- MODULE GitopsNames -----------------------------
(***************************************************************************)
(* The naming helpers of the gitops bootstrap (src/pkg/gitops/bootstrap.go)*)
(* as pure operators on strings, a string being a sequence of one-letter   *)
(* strings:                                                                *)
(*   UniqueName(singleEnv, owner, repoName, env)  (lines 161-178)          *)
(*   UniqueGitopsRepoName(...)                    (lines 180-198)          *)
(*   ParseRepoURL(url)                            (lines 236-248)          *)
(* UniqueName names the flux Kustomization "gitops-repo-<name>" and the    *)
(* notification objects "notifications-<name>" written into the cluster    *)
(* (GenerateManifestProviderAndAlert, lines 200-234).                      *)
(*                                                                         *)
(* Go's slice index out of range panics: ParseRepoURL yields Panic then.   *)
(***************************************************************************)
EXTENDS Naturals, Sequences, SequencesExt

CONSTANTS
    CaseFold,   \* strings.ToLower on the alphabet: upper -> lower letter
    Panic       \* the result of a call that panics

\* The owner is cut to this many bytes (bootstrap.go:162).
OwnerLimit == 10

Dash == <<"-">>

\* strings.ToLower.
ToLower(s) ==
    [i \in DOMAIN s |-> IF s[i] \in DOMAIN CaseFold THEN CaseFold[s[i]] ELSE s[i]]

\* strings.TrimPrefix and strings.TrimSuffix.
TrimPrefix(s, p) == IF IsPrefix(p, s) THEN SubSeq(s, Len(p) + 1, Len(s)) ELSE s
TrimSuffix(s, p) == IF IsSuffix(p, s) THEN SubSeq(s, 1, Len(s) - Len(p)) ELSE s

\* strings.Split with a one-letter separator: the pieces between the
\* separators, one piece for a string without it (an empty string too).
RECURSIVE Split(_, _)
Split(s, sep) ==
    IF ~Contains(s, sep)
    THEN <<s>>
    ELSE LET i == CHOOSE j \in DOMAIN s : s[j] = sep /\ ~Contains(SubSeq(s, 1, j - 1), sep)
         IN  <<SubSeq(s, 1, i - 1)>> \o Split(SubSeq(s, i + 1, Len(s)), sep)

\* pieces[i] of a Go slice (1-based here), Panic when out of range.
Index(pieces, i) == IF i <= Len(pieces) THEN pieces[i] ELSE Panic

\* The owner cut to OwnerLimit bytes.
CutOwner(owner) ==
    IF Len(owner) > OwnerLimit THEN SubSeq(owner, 1, OwnerLimit) ELSE owner

\* "<owner>-<repo>-<env>", or "<owner>-<repo>" for a single-env repo, in
\* lower case.
JoinName(singleEnv, owner, repoName, env) ==
    IF singleEnv
    THEN ToLower(owner) \o Dash \o ToLower(repoName)
    ELSE ToLower(owner) \o Dash \o ToLower(repoName) \o Dash \o ToLower(env)

UniqueName(singleEnv, owner, repoName, env) ==
    JoinName(singleEnv, CutOwner(owner), repoName, env)

UniqueGitopsRepoName(singleEnv, owner, repoName, env) ==
    JoinName(singleEnv, CutOwner(owner),
             TrimPrefix(repoName, <<"g", "i", "t", "o", "p", "s", "-">>), env)

\* Mutant: the repo name keeps its ".git" suffix.
ParseRepoURLKeepingSuffix(url) ==
    LET afterColon == Index(Split(url, ":"), 2)
        host       == Index(Split(Index(Split(url, ":"), 1), "@"), 2)
        owner      == IF afterColon = Panic THEN Panic ELSE Index(Split(afterColon, "/"), 1)
        repo       == IF afterColon = Panic THEN Panic ELSE Index(Split(afterColon, "/"), 2)
    IN  IF Panic \in {afterColon, host, owner, repo} THEN Panic
        ELSE <<host, owner, repo>>

\* ParseRepoURL of an scp-like ssh URL "user@host:owner/repo.git": host is
\* between the first "@" and the first ":", owner and repo the first two
\* "/"-pieces after the first ":", the repo without its ".git" suffix.
ParseRepoURL(url) ==
    LET afterColon == Index(Split(url, ":"), 2)
        host       == Index(Split(Index(Split(url, ":"), 1), "@"), 2)
        owner      == IF afterColon = Panic THEN Panic ELSE Index(Split(afterColon, "/"), 1)
        repo       == IF afterColon = Panic THEN Panic ELSE Index(Split(afterColon, "/"), 2)
    IN  IF Panic \in {afterColon, host, owner, repo} THEN Panic
        ELSE <<host, owner, TrimSuffix(repo, <<".", "g", "i", "t">>)>>


=============================================================================
