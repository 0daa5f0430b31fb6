-------------------------------- MODULE Catalog --------------------------------
(***************************************************************************)
(* The catalog's writers: run-catalog-ingest.mjs persists the results of   *)
(* a feed one transaction after the other, run-catalog-reconciliation.mjs  *)
(* fetches, ingests and persists documentation pages with retries and      *)
(* records how that went.  A transaction takes row locks statement by      *)
(* statement and is applied when it commits.                               *)
(***************************************************************************)
EXTENDS PackageMerge

CONSTANTS Jobs,          \* invocations of the two scripts
          MaxAttempts,   \* --max-attempts
          Scenarios,     \* what the jobs of a behaviour may read, and its faults
          Feeds          \* every input of a script

ASSUME MaxAttemptsAssumption == MaxAttempts \in 1..10

VARIABLES store,       \* the catalog's tables, as committed (of the tables of the source,
                       \* dates and redated only remember which dates a package had before)
          freshness,   \* catalog_source_freshness: the row of the docs source
          runs,        \* catalog_reconciliation_runs
          job,         \* the scripts that run
          clock,       \* the date of the next ingest
          budget       \* the jobs' inputs, and the faults that may still happen

catalogVars == <<store, freshness, runs, job, clock, budget>>

\* A feed of run-catalog-ingest: a sequence of merge runs, dated by the file or when
\* they are read (None).  A feed of run-catalog-reconciliation: its run id and the
\* pages a fetch may find.
IngestFeeds    == {f \in Feeds : f.script = "ingest"}
ReconcileFeeds == {f \in Feeds : f.script = "reconcile"}

Batches  == UNION {Range(feed.merges) : feed \in IngestFeeds}
Versions == UNION {feed.versions : feed \in ReconcileFeeds}

\* A feed of no merges does nothing, and a batch of no candidates is refused.
ASSUME FeedsAssumption ==
  /\ \A feed \in IngestFeeds : feed.merges \in Seq(Batches) \ {<<>>}
  /\ \A batch \in Batches :
       /\ batch.candidates \in Seq(Candidates) \ {<<>>}
       /\ \A k \in DOMAIN batch.candidates : IsFiniteSet(batch.candidates[k].aliases)
       /\ \A locator \in DOMAIN batch.repoOf : batch.repoOf[locator] \in Nat
  /\ \A docs \in Versions :
       docs \in Seq(Pages) /\ \A k \in DOMAIN docs : IsFiniteSet(docs[k].aliases)

\* The packages the feeds can be about.
PackageIds ==
  ({Identity(Pivot(batch.candidates), batch.repoOf).id : batch \in Batches}
     \cup {Identity(Pivot(FromDocs(docs)), <<>>).id :
              docs \in {d \in Versions : FromDocs(d) # <<>>}}) \ {None}

Results(feed) ==
  [k \in DOMAIN feed.merges |->
     LET merge == feed.merges[k]
     IN  Ingest(merge.run, Given(merge.dated, clock), merge.candidates, merge.repoOf)]

\* One result per version of the pages; a version in which no page can be read is
\* refused by the ingest service.
Fetches(feed) ==
  {Ingest(ReconcileRunId(FromDocs(docs)), clock, FromDocs(docs), <<>>) :
     docs \in {d \in feed.versions : FromDocs(d) # <<>>}}

NoJob == [pc |-> "idle", feed |-> None, attempt |-> 0, left |-> <<>>, step |-> 1,
          run |-> None, succeeded |-> FALSE, last |-> FALSE]

EmptyStore == [packages |-> <<>>, aliases |-> <<>>, lineage |-> {}, merges |-> {},
               conflicts |-> {}, dates |-> {}, redated |-> {}]

CatalogInit ==
  /\ store = EmptyStore
  /\ freshness = None
  /\ runs = <<>>
  /\ job = [j \in Jobs |-> NoJob]
  /\ clock = 1
  /\ budget \in Scenarios

Put(map, key, value) == [k \in DOMAIN map \cup {key} |-> IF k = key THEN value ELSE map[k]]

(* ---- the transaction of persistIngestResult ---- *)

Row(table, key) == IF key = None THEN <<>> ELSE <<<<table, key>>>>

\* The rows the statements write, in their order.
RowsOf(result) ==
  Row("merge_run", result.run) \o Row("conflict", result.conflict)
    \o (IF result.package = None THEN <<>>
        ELSE Row("package", result.package.id) \o Row("slug", result.package.slug))
    \o [k \in DOMAIN result.aliases |-> <<"alias", result.aliases[k]>>]

InTransaction(j) == job[j].pc = "persist"
Rows(j) == RowsOf(Head(job[j].left))
Held(j) == IF InTransaction(j) THEN {Rows(j)[k] : k \in 1..(job[j].step - 1)} ELSE {}

\* The statement waits for k: it holds the row, or it has updated the package that had
\* the slug so far, which may be free once k commits.
WaitsFor(j, k) ==
  /\ j # k
  /\ InTransaction(j)
  /\ job[j].step <= Len(Rows(j))
  /\ LET row == Rows(j)[job[j].step]
     IN  \/ row \in Held(k)
         \/ row[1] = "slug" /\ \E p \in DOMAIN store.packages :
              <<"package", p>> \in Held(k) /\ store.packages[p].slug = row[2]

\* The unique index on lower(package_slug).
SlugTaken(j) ==
  LET result == Head(job[j].left)
  IN  /\ Rows(j)[job[j].step][1] = "slug"
      /\ \E p \in DOMAIN store.packages \ {result.package.id} :
           store.packages[p].slug = result.package.slug

WithPackage(s, result) ==
  LET p == result.package
      lineage == {l \in s.lineage : l.id # p.id \/ l.run # result.run}
  IN  [s EXCEPT !.packages = Put(@, p.id, [slug |-> p.slug, repo |-> p.repo, at |-> result.at]),
                !.aliases  = [row \in DOMAIN @ \cup Range(result.aliases) |->
                                IF row \in Range(result.aliases) THEN p.id ELSE @[row]],
                !.lineage  = IF result.name = None THEN @
                             ELSE lineage \cup {[id |-> p.id, run |-> result.run,
                                                 name |-> result.name, at |-> result.at]},
                !.dates    = @ \cup {<<p.id, result.at>>},
                !.redated  = IF <<p.id, result.at>> \in s.dates THEN @ \cup {p.id} ELSE @]

\* What the statements of one result do to the tables.
Persist(s, result) ==
  LET logged == [s EXCEPT !.merges = @ \cup {result.run},
                          !.conflicts = @ \cup ({result.conflict} \ {None})]
  IN  IF result.package = None THEN logged ELSE WithPackage(logged, result)

(* ---- the scripts ---- *)

Spend(what) == budget[what] > 0 /\ budget' = [budget EXCEPT ![what] = @ - 1]

Goes(j, pc) == job' = [job EXCEPT ![j].pc = pc]

\* run-catalog-ingest: every result is computed before the first is persisted.
StartIngest(j, feed) ==
  /\ job[j].pc = "idle"
  /\ Spend("jobs")
  /\ feed \in budget.feeds \cap IngestFeeds
  /\ job' = [job EXCEPT ![j] = [NoJob EXCEPT !.pc = "persist", !.feed = feed,
                                             !.left = Results(feed)]]
  /\ clock' = clock + 1
  /\ UNCHANGED <<store, freshness, runs>>

StartReconcile(j, feed) ==
  /\ job[j].pc = "idle"
  /\ Spend("jobs")
  /\ feed \in budget.feeds \cap ReconcileFeeds
  /\ job' = [job EXCEPT ![j] = [NoJob EXCEPT !.pc = "attempt", !.feed = feed, !.attempt = 1]]
  /\ UNCHANGED <<store, freshness, runs, clock>>

\* An error inside an attempt: the next attempt, or what follows the last one.  What the
\* last attempts found out stays: a merge run's id, a success that could not be recorded.
Caught(state) ==
  CASE state.attempt < MaxAttempts ->
         [state EXCEPT !.pc = "attempt", !.attempt = @ + 1, !.left = <<>>]
    [] state.attempt = MaxAttempts /\ state.succeeded ->
         [state EXCEPT !.pc = "select", !.last = TRUE, !.left = <<>>]
    [] OTHER -> [state EXCEPT !.pc = "not_fresh", !.left = <<>>]

\* A statement throws: an ingest ends, an attempt is caught, and what follows the
\* attempts is not.
AfterError(state) ==
  IF state.feed.script = "ingest" \/ state.last \/ state.pc = "not_fresh"
    THEN [state EXCEPT !.pc = "failed", !.left = <<>>]
    ELSE Caught(state)

\* One attempt fetches the pages and merges them.
Fetch(j, result) ==
  /\ job[j].pc = "attempt"
  /\ result \in Fetches(job[j].feed)
  /\ job' = [job EXCEPT ![j].pc = "persist", ![j].left = <<result>>, ![j].step = 1,
                        ![j].run = result.run]
  /\ clock' = clock + 1
  /\ UNCHANGED <<store, freshness, runs, budget>>

\* No page can be read: the merge run of no candidates has got its id when the ingest
\* service throws.
FetchNothing(j) ==
  /\ job[j].pc = "attempt"
  /\ \E docs \in job[j].feed.versions : FromDocs(docs) = <<>>
  /\ job' = [job EXCEPT ![j] = AfterError([@ EXCEPT !.run = ReconcileRunId(<<>>)])]
  /\ UNCHANGED <<store, freshness, runs, clock, budget>>

\* A statement of the transaction gets its row.
TakeRow(j) ==
  /\ InTransaction(j)
  /\ job[j].step <= Len(Rows(j))
  /\ \A k \in Jobs : ~WaitsFor(j, k)
  /\ job' = [job EXCEPT ![j] = IF SlugTaken(j) THEN AfterError(@)
                                               ELSE [@ EXCEPT !.step = job[j].step + 1]]
  /\ UNCHANGED <<store, freshness, runs, clock, budget>>

\* The database ends one of two transactions that wait for each other.
Deadlocked(j, k) ==
  /\ WaitsFor(j, k)
  /\ WaitsFor(k, j)
  /\ job' = [job EXCEPT ![j] = AfterError(@)]
  /\ UNCHANGED <<store, freshness, runs, clock, budget>>

AtCommit(j) == InTransaction(j) /\ job[j].step > Len(Rows(j))

AfterCommit(state) ==
  CASE state.feed.script = "reconcile" -> [state EXCEPT !.pc = "fresh", !.left = <<>>]
    [] state.feed.script = "ingest" /\ Len(state.left) > 1 ->
         [state EXCEPT !.left = Tail(@), !.step = 1]
    [] OTHER -> [state EXCEPT !.pc = "done", !.left = <<>>]

Commit(j) ==
  /\ AtCommit(j)
  /\ store' = Persist(store, Head(job[j].left))
  /\ job' = [job EXCEPT ![j] = AfterCommit(@)]
  /\ UNCHANGED <<freshness, runs, clock, budget>>

\* recordSourceFreshness after the attempt persisted; then the attempt has succeeded.
RecordFresh(j) ==
  /\ job[j].pc = "fresh"
  /\ freshness' = [status |-> "succeeded", run |-> job[j].run]
  /\ job' = [job EXCEPT ![j].pc = "select", ![j].succeeded = TRUE]
  /\ UNCHANGED <<store, runs, clock, budget>>

\* After the last attempt failed: the row loses the date of the last success too.
RecordNotFresh(j) ==
  /\ job[j].pc = "not_fresh"
  /\ freshness' = [status |-> "failed", run |-> job[j].run]
  /\ job' = [job EXCEPT ![j].pc = "select", ![j].last = TRUE]
  /\ UNCHANGED <<store, runs, clock, budget>>

\* recordReconciliationRun: a run that is there already is replayed if it read the same.
SelectRun(j) ==
  /\ job[j].pc = "select"
  /\ LET feed == job[j].feed
     IN  CASE feed.runId \notin DOMAIN runs -> Goes(j, "insert")
           [] feed.runId \in DOMAIN runs /\ runs[feed.runId].hash = feed -> Goes(j, "done")
           [] OTHER -> job' = [job EXCEPT ![j] = AfterError(@)]
  /\ UNCHANGED <<store, freshness, runs, clock, budget>>

\* Mutant: every run that is recorded has succeeded.
InsertSucceeded(j) ==
  /\ job[j].pc = "insert"
  /\ runs' = Put(runs, job[j].feed.runId,
                 [hash |-> job[j].feed, run |-> job[j].run, attempts |-> job[j].attempt,
                  status |-> "succeeded"])
  /\ Goes(j, "done")
  /\ UNCHANGED <<store, freshness, clock, budget>>

InsertRun(j) ==
  /\ job[j].pc = "insert"
  /\ LET feed == job[j].feed
         row == [hash |-> feed, run |-> job[j].run, attempts |-> job[j].attempt,
                 status |-> IF job[j].succeeded THEN "succeeded" ELSE "failed"]
     IN  IF feed.runId \in DOMAIN runs
           THEN job' = [job EXCEPT ![j] = AfterError(@)] /\ UNCHANGED runs
           ELSE runs' = Put(runs, feed.runId, row) /\ Goes(j, "done")
  /\ UNCHANGED <<store, freshness, clock, budget>>

(* ---- faults ---- *)

Calling(j) == job[j].pc \in {"attempt", "persist", "fresh", "not_fresh", "select", "insert"}

\* A fetch or a statement fails; a transaction is rolled back.
Fail(j) ==
  /\ Calling(j)
  /\ Spend("faults")
  /\ job' = [job EXCEPT ![j] = AfterError(@)]
  /\ UNCHANGED <<store, freshness, runs, clock>>

\* The connection is lost after the transaction committed.
LoseCommit(j) ==
  /\ AtCommit(j)
  /\ Spend("faults")
  /\ store' = Persist(store, Head(job[j].left))
  /\ job' = [job EXCEPT ![j] = AfterError(@)]
  /\ UNCHANGED <<freshness, runs, clock>>

\* The process is killed; the database rolls its transaction back.
Kill(j) ==
  /\ Calling(j)
  /\ Spend("faults")
  /\ job' = [job EXCEPT ![j].pc = "killed", ![j].left = <<>>]
  /\ UNCHANGED <<store, freshness, runs, clock>>

CatalogNext ==
  \E j \in Jobs :
    \/ \E feed \in budget.feeds : StartIngest(j, feed) \/ StartReconcile(j, feed)
    \/ \E result \in IF job[j].pc = "attempt" THEN Fetches(job[j].feed) ELSE {} :
         Fetch(j, result)
    \/ FetchNothing(j)
    \/ TakeRow(j)
    \/ \E k \in Jobs : Deadlocked(j, k)
    \/ Commit(j)
    \/ RecordFresh(j)
    \/ RecordNotFresh(j)
    \/ SelectRun(j)
    \/ InsertRun(j)
    \/ Fail(j)
    \/ LoseCommit(j)
    \/ Kill(j)

-------------------------------------------------------------------------------

\* A transaction never waits for an alias row of one that waits for it: the rows are
\* written in the order dedupeAliases gives them, so that two ingests that claim the
\* same aliases for different packages do not end in a deadlock.
AliasesNeverDeadlock ==
  \A j \in Jobs : \A k \in Jobs :
    WaitsFor(j, k) /\ WaitsFor(k, j) => Rows(j)[job[j].step][1] # "alias"

\* What the reconciliation runner says of a run is true: a source that is fresh, and a
\* run that succeeded, rest on a merge run of its pages that was persisted.  It is the
\* one the row names when there was one attempt; an attempt after the success that could
\* not be recorded leaves the id of its own merge run, persisted or not.
RecordsAreTrue ==
  /\ freshness # None /\ freshness.status = "succeeded" => freshness.run \in store.merges
  /\ \A id \in DOMAIN runs : runs[id].status = "succeeded" =>
       /\ \E docs \in runs[id].hash.versions : ReconcileRunId(FromDocs(docs)) \in store.merges
       /\ runs[id].attempts = 1 => runs[id].run \in store.merges
==============================================================================
