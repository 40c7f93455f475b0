------------------------------ MODULE UserRepos ------------------------------
(***************************************************************************)
(* GoScmHelper.UserRepos (src/pkg/git/genericScm/goScmHelper.go:79-110):   *)
(* list the user's repositories page by page through go-scm.  Each         *)
(* response carries meta.Page.Next (a page number, set by providers that   *)
(* paginate by number) and meta.Page.NextURL (set by providers that        *)
(* paginate by link); the loop copies both into the options of the next    *)
(* request and stops when both are empty.  An error returns an empty list. *)
(*                                                                         *)
(* A page is addressed by its position 1..Len(pages); 0 stands for both    *)
(* Page 0 and the empty URL.  A request with neither lists page 1.         *)
(***************************************************************************)
EXTENDS Naturals, Sequences, SequencesExt

CONSTANTS
    RepoNames,   \* "namespace/name" strings
    MaxPages     \* bound on the pages a provider returns

VARIABLES
    client,   \* helper.client # nil
    byLink,   \* the provider paginates by NextURL rather than by Next
    pages,    \* the provider's listing: a sequence of pages of repos
    failAt,   \* the page whose request fails, 0 for none
    opts,     \* scm.ListOptions: [page, url] (Size 100 is left out)
    repos,    \* the result being collected
    result    \* "none" while running, then "ok" or "err"

vars == <<client, byLink, pages, failAt, opts, repos, result>>

\* The page a request with options o lists.
Target(o) == IF o.page # 0 THEN o.page ELSE IF o.url # 0 THEN o.url ELSE 1

\* meta.Page of the response for page p.
Meta(p) ==
    LET next == IF p < Len(pages) THEN p + 1 ELSE 0
    IN  IF byLink THEN [next |-> 0, nextURL |-> next]
        ELSE [next |-> next, nextURL |-> 0]

\* NewGoScmHelper: a client for GitHub or GitLab, nil for any other
\* provider (a constructor error ends the process with Fatalln).
NewGoScmHelper(provider) == provider \in {"github", "gitlab"}

Init ==
    /\ \E provider \in {"github", "gitlab", "none"} : client = NewGoScmHelper(provider)
    /\ byLink \in BOOLEAN
    /\ pages \in UNION {[1..n -> BoundedSeq(RepoNames, 1)] : n \in 1..MaxPages}
    /\ failAt \in 0..Len(pages)
    /\ opts = [page |-> 0, url |-> 0]
    /\ repos = <<>>
    /\ result = "none"

\* No SCM client configured: an empty list and no error.
NoClient ==
    /\ result = "none" /\ ~client
    /\ result' = "ok"
    /\ UNCHANGED <<client, byLink, pages, failAt, opts, repos>>

\* Mutant: the options of the next request keep the page number only.
ListIgnoringURL ==
    LET p == Target(opts)
        o == [page |-> Meta(p).next, url |-> 0]
    IN  /\ result = "none" /\ client
        /\ IF p = failAt
           THEN /\ result' = "err" /\ repos' = <<>>
                /\ UNCHANGED opts
           ELSE /\ repos' = repos \o pages[p]
                /\ opts' = o
                /\ result' = IF o.page = 0 /\ o.url = 0 THEN "ok" ELSE "none"
        /\ UNCHANGED <<client, byLink, pages, failAt>>

\* Mutant: every request built from fresh ListOptions{Size: 100}.
ListFreshOptions ==
    LET p == Target([page |-> 0, url |-> 0])
        o == [page |-> Meta(p).next, url |-> Meta(p).nextURL]
    IN  /\ result = "none" /\ client
        /\ IF p = failAt
           THEN /\ result' = "err" /\ repos' = <<>>
                /\ UNCHANGED opts
           ELSE /\ repos' = repos \o pages[p]
                /\ opts' = o
                /\ result' = IF o.page = 0 /\ o.url = 0 THEN "ok" ELSE "none"
        /\ UNCHANGED <<client, byLink, pages, failAt>>

\* One iteration: Repositories.List(ctx, opts) (failing for page failAt);
\* on an error return an
\* empty list; otherwise append the page's "namespace/name"s, copy
\* meta.Page.Next and NextURL into opts and stop when both are empty.
List ==
    LET p == Target(opts)
        o == [page |-> Meta(p).next, url |-> Meta(p).nextURL]
    IN  /\ result = "none" /\ client
        /\ IF p = failAt
           THEN /\ result' = "err" /\ repos' = <<>>
                /\ UNCHANGED opts
           ELSE /\ repos' = repos \o pages[p]
                /\ opts' = o
                /\ result' = IF o.page = 0 /\ o.url = 0 THEN "ok" ELSE "none"
        /\ UNCHANGED <<client, byLink, pages, failAt>>

\* A loop that requests more pages than the listing has collects more
\* repositories than it; the model stops such a behaviour there.
WithinListing == Len(repos) <= MaxPages

Returned ==
    /\ result # "none"
    /\ UNCHANGED vars

Next == NoClient \/ List \/ Returned

\* The provider answers every request.
Spec == Init /\ [][Next]_vars /\ WF_vars(NoClient \/ List)

-----------------------------------------------------------------------------

TypeOK ==
    /\ opts \in [page : 0..MaxPages, url : 0..MaxPages]
    /\ repos \in Seq(RepoNames)
    /\ result \in {"none", "ok", "err"}

\* A successful UserRepos returns the repositories of every page, in the
\* provider's order, whichever way the provider paginates.
ReturnsEveryRepo ==
    (result = "ok" /\ client) => repos = FlattenSeq(pages)

\* UserRepos returns: the loop reaches a response with neither a next page
\* nor a next URL.
UserReposReturns == <>(result # "none")

=============================================================================
