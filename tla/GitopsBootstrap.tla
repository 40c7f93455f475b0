--------------------------- MODULE GitopsBootstrap ---------------------------
(***************************************************************************)
(* Bootstrapping a gitops repository (src/pkg/gitops/bootstrap.go), run   *)
(* again and again on the same repository: GenerateManifests writes the    *)
(* flux install manifest, the GitRepository/Kustomization ("sync")         *)
(* manifest and the deploy-key secret into the env's flux folder;          *)
(* GenerateManifestProviderAndAlert writes the notification manifest next  *)
(* to them; the caller commits and pushes the result.                      *)
(*                                                                         *)
(* Before naming the sync manifest, GenerateManifests looks for one on the *)
(* repository's branch (GitopsRepoFileAndMetaNameFromRepo): it ranges over *)
(* a Go map of the flux folder's files, whose order is unspecified, and    *)
(* keeps the last file whose name contains "gitops-repo".  That file's     *)
(* name is then used for the sync manifest.                                *)
(*                                                                         *)
(* A file is its name in the env's flux folder (".yaml" left out) and the  *)
(* kind of manifest it holds.  Each operation is one step: nothing runs    *)
(* concurrently, and a failing stage leaves the files of the earlier       *)
(* stages written.                                                         *)
(***************************************************************************)
EXTENDS GitopsNames, FiniteSets

CONSTANTS
    Host, Owner, Repo,  \* ParseRepoURL(opts.GitopsRepoUrl)
    SingleEnv,          \* opts.SingleEnv
    EnvName,            \* the env passed with --env
    MaxRuns             \* bound on the calls of each operation

VARIABLES
    files,      \* the flux folder in the working tree: name -> kind
    committed,  \* the flux folder on the branch, as last pushed
    runs        \* calls made so far of each operation

vars == <<files, committed, runs>>

GitopsRepoWord == <<"g", "i", "t", "o", "p", "s", "-", "r", "e", "p", "o">>

\* opts.Env after the checks of lines 63-72: "." for a single-env repository.
Env == IF SingleEnv THEN <<".">> ELSE EnvName

Unique == UniqueName(SingleEnv, Owner, Repo, Env)

InstallFile == <<"f", "l", "u", "x">>
SyncFile    == GitopsRepoWord \o Dash \o Unique
KeyFile     == <<"d", "e", "p", "l", "o", "y", "-", "k", "e", "y">> \o Dash \o Unique
NotifyFile  == <<"n", "o", "t", "i", "f", "i", "c", "a", "t", "i", "o", "n", "s">>
                   \o Dash \o Unique

\* files with the file n (over)written with a manifest of kind k.
Write(fs, n, k) == [m \in DOMAIN fs \cup {n} |-> IF m = n THEN k ELSE fs[m]]

\* GitopsRepoFileAndMetaNameFromRepo: the names the loop over the branch's
\* files may end with, "" (<<>>) when no name contains "gitops-repo".  The
\* errors of HeadBranch and RemoteFolderOnBranchWithoutCheckout are ignored
\* (an unborn HEAD, a remote-tracking ref not fetched): the loop then ranges
\* over no files and the result is "" whatever the branch holds.
ExistingRepoFiles ==
    {<<>>} \cup {n \in DOMAIN committed : GitopsRepoWord \in SubSeqs(n)}

\* The stages of GenerateManifests, in order; a call fails at one of them
\* or at none.
Stages == <<"install", "sync", "dependencies", "deployKey">>

\* GenerateManifests(opts) with the defaults of DefaultManifestOpts (every
\* Should... flag set) and an --env flag given or not.  The flags are
\* checked first; then the install manifest, the sync manifest under the
\* existing file name if there is one, the dependencies folder and the
\* deploy key are written, a failing stage ending the call.
GenerateManifests ==
    /\ runs["manifests"] < MaxRuns
    /\ runs' = [runs EXCEPT !["manifests"] = @ + 1]
    /\ UNCHANGED committed
    /\ \E envFlag \in {<<>>, EnvName}, failAt \in 0..Len(Stages),
          existing \in ExistingRepoFiles :
          LET valid    == IF SingleEnv THEN envFlag = <<>> ELSE envFlag # <<>>
              repoFile == IF existing = <<>> THEN SyncFile ELSE existing
              reached(i) == failAt = 0 \/ i < failAt
              f1 == IF reached(1) THEN Write(files, InstallFile, "install") ELSE files
              f2 == IF reached(2) THEN Write(f1, repoFile, "sync") ELSE f1
              f4 == IF reached(4) THEN Write(f2, KeyFile, "key") ELSE f2
          IN  files' = IF valid THEN f4 ELSE files

\* GenerateManifestProviderAndAlert: the notification manifest, or an
\* error from generating or writing it.
GenerateProviderAndAlert ==
    /\ runs["notifications"] < MaxRuns
    /\ runs' = [runs EXCEPT !["notifications"] = @ + 1]
    /\ \E ok \in BOOLEAN :
          files' = IF ok THEN Write(files, NotifyFile, "notifications") ELSE files
    /\ UNCHANGED committed

\* The caller commits and pushes the working tree.
Push ==
    /\ committed # files
    /\ committed' = files
    /\ UNCHANGED <<files, runs>>

Init ==
    /\ files = <<>>
    /\ committed = <<>>
    /\ runs = [op \in {"manifests", "notifications"} |-> 0]

Done ==
    /\ \A op \in DOMAIN runs : runs[op] = MaxRuns
    /\ committed = files
    /\ UNCHANGED vars

Next == GenerateManifests \/ GenerateProviderAndAlert \/ Push \/ Done

Spec == Init /\ [][Next]_vars

-----------------------------------------------------------------------------

\* Regenerating the manifests of a repository keeps every file what it
\* was: the notification manifest and the deploy key are never replaced by
\* a manifest of another kind.
FilesKeepTheirKind ==
    [][\A n \in DOMAIN files : n \in DOMAIN files' => files'[n] = files[n]]_files

=============================================================================
