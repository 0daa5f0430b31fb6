----------------------------- MODULE MCCatalogSync -----------------------------
(* Instances of CatalogSync for TLC. *)
EXTENDS CatalogSync, TLC

CONSTANTS j1, j2, s1, s2, s3, none

TwoJobs == {j1, j2}
TwoSyncs == {s1, s2}
ThreeSyncs == {s1, s2, s3}
Interchangeable == Permutations(TwoJobs) \cup Permutations(ThreeSyncs)

Repository(n, pushed) ==
  [id |-> n, repo |-> n, archived |-> FALSE, fork |-> FALSE, pushed |-> pushed,
   homepage |-> none]
Entry(name, repo) == [name |-> name, repo |-> repo, updated |-> 1, homepage |-> none]
Page(url, slug, repo) ==
  [url |-> url, title |-> none, content |-> TRUE, updated |-> 1, slug |-> slug,
   repo |-> repo, aliases |-> {}]

Merge(run, dated, candidates, repoOf) ==
  [run |-> run, dated |-> dated, candidates |-> candidates, repoOf |-> repoOf]
GitHub(repos) == Merge(GitHubRunId(repos), none, FromGitHub(repos), <<>>)
Docs(docs) == Merge(DocsRunId(FromDocs(docs)), none, FromDocs(docs), <<>>)
Npm(entries, dated, repoOf) ==
  Merge(RegistryRunId("npm", entries), dated, FromRegistry("npm", entries), repoOf)

Ingesting(merges) ==
  [script |-> "ingest", merges |-> merges, runId |-> none, versions |-> {}]
Reconciling(id, versions) ==
  [script |-> "reconcile", merges |-> <<>>, runId |-> id, versions |-> versions]

\* Two batches with the same two repositories, of which the other was pushed to last.
FirstNewer  == Ingesting(<<GitHub(<<Repository(1, 3), Repository(2, 2), Repository(3, 1)>>)>>)
SecondNewer == Ingesting(<<GitHub(<<Repository(1, 1), Repository(2, 2)>>)>>)

\* A page about repository 1 that has its slug, before and after GitHub is asked; a fork.
PageOfFirst == Ingesting(<<Docs(<<Page(11, 1, 1)>>)>>)
JustFirst   == Ingesting(<<GitHub(<<Repository(1, 2),
                                    [Repository(2, 2) EXCEPT !.fork = TRUE]>>)>>)

\* A file of two merges: a package a registry maps to repository 1, and one nobody can
\* identify.
TwoMerges == Ingesting(<<Npm(<<Entry(21, none)>>, none, (21 :> 1)),
                         Npm(<<Entry(22, none)>>, none, <<>>)>>)

\* A file that dates its merges: the slug of a package changes, and changes back.
Dated(slug, date) ==
  Merge(<<"dated", slug>>, date, FromDocs(<<[Page(11, slug, 1) EXCEPT !.title = 9]>>), <<>>)
Rewound == Ingesting(<<Dated(1, 1), Dated(5, 2), Dated(1, 1)>>)

\* Two packages whose slugs are exchanged.
FirstSlug  == Ingesting(<<Docs(<<Page(11, 1, 1)>>), Docs(<<Page(11, 2, 1)>>)>>)
SecondSlug == Ingesting(<<Docs(<<Page(12, 2, 2)>>), Docs(<<Page(12, 1, 2)>>)>>)

\* Pages given, and pages fetched, which change between two fetches or cannot be read.
Given1    == Reconciling(1, {<<Page(11, 3, 1)>>})
GivenElse == Reconciling(1, {<<Page(12, 4, none)>>})
Fetched   == Reconciling(2, {<<Page(11, 3, 1)>>, <<Page(11, 4, 1)>>, <<>>})

MCFeeds == {FirstNewer, SecondNewer, PageOfFirst, JustFirst, TwoMerges, Rewound, FirstSlug,
            SecondSlug, Given1, GivenElse, Fetched}

MCIdOrder == <<<<"canonical", 1, 0, none>>, <<"provisional", 1, 0>>,
               <<"canonical", 2, 0, none>>, <<"provisional", 2, 0>>>>

Bounds(feeds, jobs, faults, syncs, cuts) ==
  [feeds |-> feeds, jobs |-> jobs, faults |-> faults, syncs |-> syncs, cuts |-> cuts]

\* Two ingests that claim the same aliases, or each other's slug; a page and GitHub; two reconciliations, of the
\* same run or of another under its id, with attempts that fail; ingests and the sync.
MCScenarios ==
  {Bounds({FirstNewer, SecondNewer}, 2, 0, 0, 0),
   Bounds({FirstSlug, SecondSlug}, 2, 0, 0, 0),
   Bounds({PageOfFirst, JustFirst, TwoMerges}, 2, 1, 0, 0),
   Bounds({Given1, GivenElse}, 2, 2, 0, 0), Bounds({Fetched}, 2, 1, 0, 0),
   Bounds({SecondNewer, PageOfFirst}, 2, 0, 3, 1), Bounds({Rewound}, 1, 0, 3, 1)}

OverlapScenarios == {Bounds({FirstNewer}, 2, 0, 2, 0)}
==============================================================================
