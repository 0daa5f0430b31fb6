----------------------------- MODULE PackageMerge -----------------------------
(***************************************************************************)
(* createCatalogIngestService: the candidates of one batch become one      *)
(* package, its aliases and the value of its merged field, or a conflict   *)
(* for manual review.  The identity is that of the batch's first candidate *)
(* in the service's order, whatever the others are.                        *)
(***************************************************************************)
EXTENDS CatalogSources

\* Where x stands in an order; what the order does not list comes after it.
Place(order, x) ==
  IF x \in Range(order) THEN CHOOSE k \in DOMAIN order : order[k] = x ELSE Len(order) + 1

Missing(x) == IF x = None THEN 1 ELSE 0

\* Lexicographic order of the sort keys of two candidates.
KeyLess(left, right) ==
  \E k \in DOMAIN left : left[k] < right[k] /\ \A i \in 1..(k - 1) : left[i] = right[i]

\* The least of a sequence by a key; the sort is stable.
Least(candidates, Key(_)) ==
  candidates[CHOOSE k \in DOMAIN candidates :
    \A i \in DOMAIN candidates \ {k} :
      KeyLess(Append(Key(candidates[k]), k), Append(Key(candidates[i]), i))]

\* compareSourceCandidates: who knows the repository's id, then its locator, then a
\* registry's locator; then by source, the newer first, by subpath.
PivotKey(c) ==
  <<Missing(c.repoId), Missing(c.repo), Missing(c.registry), Place(Alphabet, c.source),
    -c.at, c.subpath>>

Pivot(candidates) == Least(candidates, PivotKey)

SlugOrder == <<"smithery", "glama", "github", "mcp.so", "registry", "npm", "pypi">>
NameOrder == <<"smithery", "glama", "github", "mcp.so", "registry">>

\* The value of a field: by the sources' precedence, the newer first, by source name.
FieldKey(order, c) == <<Place(order, c.source), -c.at, Place(Alphabet, c.source)>>

MergedName(candidates) ==
  LET HasName(c) == c.name # None
      named == SelectSeq(candidates, HasName)
      Key(c) == FieldKey(NameOrder, c) \o PivotKey(c)
  IN  IF named = <<>> THEN None ELSE Least(named, Key).name

PackageSlug(candidates) ==
  LET HasSlug(c) == c.slug # None
      slugged == SelectSeq(candidates, HasSlug)
      Key(c) == Append(FieldKey(SlugOrder, c), c.slug)
  IN  IF slugged = <<>> THEN MergedName(candidates) ELSE Least(slugged, Key).slug

\* Package ids: UUIDs of the locator of a package.
CanonicalId(c) == <<"canonical", c.repoId, c.subpath, c.registryName>>
ProvisionalId(repo, c) == <<"provisional", repo, c.subpath>>

\* resolvePackageIdentity: by the repository's id, by its locator, or by the repository a
\* registry's locator is mapped to; else nobody knows, and a reviewer must look.
Identity(c, repoOf) ==
  CASE c.repoId # None -> [id |-> CanonicalId(c), repo |-> c.repo, registry |-> None]
    [] c.repoId = None /\ c.repo # None ->
         [id |-> ProvisionalId(c.repo, c), repo |-> c.repo, registry |-> None]
    [] c.repoId = None /\ c.repo = None /\ c.registry \in DOMAIN repoOf ->
         [id |-> ProvisionalId(repoOf[c.registry], c), repo |-> repoOf[c.registry],
          registry |-> c.registry]
    [] OTHER -> [id |-> None, repo |-> None, registry |-> c.registry]

Fingerprint(c) ==
  <<IF c.registry = None THEN "insufficient_identity" ELSE "unmapped_registry_locator",
    c.registry, c.subpath>>

\* The aliases of the batch and where they are found: those of its identity first; of
\* every candidate, in the service's order, what it lists and the url of its repository.
AliasesInBatch(candidates, identity) ==
  LET Earlier(k) == {i \in DOMAIN candidates :
                       KeyLess(PivotKey(candidates[i]), PivotKey(candidates[k]))}
      Found(at, rows) == {[at |-> at, row |-> row] : row \in rows}
      Listed(c) == c.aliases \cup {Url(c.repo)}
      found == Found(0, {<<"repo_rename", identity.repo>>, <<"registry_alias", identity.registry>>})
                 \cup UNION {Found(Cardinality(Earlier(k)) + 1, Listed(candidates[k])) :
                               k \in DOMAIN candidates}
  IN  {alias \in found : alias.row[2] # None}

AliasTypes == <<"registry_alias", "repo_rename", "url_alias">>

AliasKey(row) == <<Place(AliasTypes, row[1]), row[2]>>

\* Mutant: the rows are made distinct but keep the order they were found in.
InBatchOrder(aliases) ==
  LET rows == {a.row : a \in aliases}
      FoundAt(row) == CHOOSE n \in {a.at : a \in aliases} :
                        /\ [at |-> n, row |-> row] \in aliases
                        /\ \A a \in aliases : a.row = row => n <= a.at
      Key(row) == <<FoundAt(row)>> \o AliasKey(row)
  IN  Arranged(rows, {pair \in rows \X rows : KeyLess(Key(pair[1]), Key(pair[2]))})

\* dedupeAliases: distinct rows in the order of their types and values.
DedupeAliases(aliases) ==
  LET rows == {a.row : a \in aliases}
  IN  Arranged(rows, {pair \in rows \X rows : KeyLess(AliasKey(pair[1]), AliasKey(pair[2]))})

\* ingest: what persistIngestResult is given.  repoOf maps registry locators to
\* repositories (registry_to_github_map).
Ingest(run, at, candidates, repoOf) ==
  LET pivot    == Pivot(candidates)
      identity == Identity(pivot, repoOf)
      package  == [id   |-> identity.id,
                   slug |-> PackageSlug(candidates),
                   repo |-> Given(identity.repo, pivot.home)]
  IN  IF identity.id = None
        THEN [run |-> run, at |-> at, conflict |-> Fingerprint(pivot), package |-> None,
              aliases |-> <<>>, name |-> None]
        ELSE [run |-> run, at |-> at, conflict |-> None, package |-> package,
              aliases |-> DedupeAliases(AliasesInBatch(candidates, identity)),
              name |-> MergedName(candidates)]
==============================================================================
