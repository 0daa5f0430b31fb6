---------------------------- MODULE CatalogSources ----------------------------
(***************************************************************************)
(* The source connectors of the catalog: what GitHub, the package          *)
(* registries and documentation pages say, as the candidates the ingest    *)
(* service merges.  A repository, a url, a slug and a name are numbers in  *)
(* the order of their text.  The fields of a package that are merged by    *)
(* source and date are told apart by one of them, its name.                *)
(***************************************************************************)
EXTENDS Integers, Sequences, FiniteSets, Functions

CONSTANT None                    \* an absent value

\* The sources' names, in the order localeCompare gives them.
Alphabet == <<"docs", "github", "glama", "mcp.so", "npm", "pypi", "registry", "smithery">>

ASSUME SourcesAssumption == None \notin Int

Optional == Nat \cup {None}

\* What the connectors make of a repository, an entry or a page; its aliases have a type
\* and a value.
Candidates ==
  [source : Range(Alphabet), at : Int, repoId : Optional,
   repo : Optional, registry : Optional, subpath : Nat, registryName : Range(Alphabet) \cup {None},
   home : Optional, slug : Optional, name : Optional, aliases : SUBSET ({"url_alias"} \X Nat)]

\* A documentation page as it is fetched.
Pages ==
  [url : Optional, title : Optional, content : BOOLEAN, updated : Int, slug : Optional,
   repo : Optional, aliases : SUBSET Optional]

Given(x, default) == IF x = None THEN default ELSE x

\* The elements of a finite set in an order of them, which is the set of its pairs.
Arranged(S, order) ==
  [k \in 1..Cardinality(S) |->
     CHOOSE x \in S : Cardinality({y \in S : <<y, x>> \in order}) = k - 1]

Url(value) == <<"url_alias", value>>
Urls(values) == {Url(v) : v \in values \ {None}}

\* A GitHub repository: archived ones and forks are skipped, the rest have a numeric id.
FromGitHub(repos) ==
  LET Kept(repo) == ~repo.archived /\ ~repo.fork
      Candidate(repo) ==
        [source |-> "github", at |-> repo.pushed, repoId |-> repo.id, repo |-> repo.repo,
         registry |-> None, subpath |-> 0, registryName |-> None, home |-> repo.repo,
         slug |-> repo.repo, name |-> repo.repo, aliases |-> Urls({repo.homepage})]
      kept == SelectSeq(repos, Kept)
  IN  [k \in DOMAIN kept |-> Candidate(kept[k])]

\* A package of a registry (npm or PyPI) names its repository if it can be read as one.
RegistryCandidate(source, entry) ==
  [source |-> source, at |-> entry.updated, repoId |-> None, repo |-> entry.repo,
   registry |-> entry.name, subpath |-> 0, registryName |-> source, home |-> entry.repo,
   slug |-> entry.name, name |-> entry.name, aliases |-> Urls({entry.homepage, entry.repo})]

\* Entries without a name are skipped.
FromRegistry(source, entries) ==
  LET Named(entry) == entry.name # None
      named == SelectSeq(entries, Named)
  IN  [k \in DOMAIN named |-> RegistryCandidate(source, named[k])]

\* A documentation page: taken in the order of the urls, then of the titles, where no
\* title is the empty one; pages with no url or nothing to read are skipped.  The url is
\* the page's registry locator and one of its aliases.
FromDocs(docs) ==
  LET Readable(doc) == doc.url # None /\ doc.content
      Title(doc) == Given(doc.title, -1)
      Candidate(doc) ==
        [source |-> "docs", at |-> doc.updated, repoId |-> None, repo |-> doc.repo,
         registry |-> doc.url, subpath |-> 0, registryName |-> "docs",
         home |-> Given(doc.repo, doc.url), slug |-> Given(doc.slug, Given(doc.title, doc.url)),
         name |-> Given(doc.title, Given(doc.slug, doc.url)),
         aliases |-> Urls({doc.url} \cup doc.aliases)]
      read == {k \in DOMAIN docs : Readable(docs[k])}
      earlier == {pair \in read \X read :
                    LET left == docs[pair[1]]  right == docs[pair[2]]
                    IN  \/ left.url < right.url
                        \/ left.url = right.url /\ Title(left) < Title(right)
                        \/ left.url = right.url /\ Title(left) = Title(right) /\ pair[1] < pair[2]}
      order == Arranged(read, earlier)
  IN  [k \in DOMAIN order |-> Candidate(docs[order[k]])]

\* What a script digests into the id of the merge run: of repositories their ids and
\* names, of a registry the names, of pages the slugs and urls.
GitHubRunId(repos)   == <<"github", {<<r.id, r.repo>> : r \in Range(repos)}>>
RegistryRunId(source, entries) == <<source, {e.name : e \in Range(entries)} \ {None}>>
DocsRunId(candidates) == <<"docs", {<<c.slug, c.registry>> : c \in Range(candidates)}>>

\* The reconciliation runner digests the pages' dates too.
ReconcileRunId(candidates) ==
  <<"reconcile", {<<c.slug, c.registry, c.at>> : c \in Range(candidates)}>>
==============================================================================
