------------------------------ MODULE CatalogSync ------------------------------
(***************************************************************************)
(* The catalog and the retrieval sync that copies its packages, as         *)
(* documents, into the semantic index, and remembers the fingerprint of    *)
(* each document it wrote so that unchanged ones are skipped.  Runs of it  *)
(* come from the operator, batch after batch along a cursor, and from the  *)
(* outbox, for the packages an event names; they share no lock, and the    *)
(* catalog's writers run in between.                                       *)
(***************************************************************************)
EXTENDS Catalog

CONSTANTS Syncs,     \* runs of the sync
          IdOrder,   \* the package ids, in the order of their text
          Limit      \* --limit

ASSUME LimitAssumption == Limit \in 1..500

ASSUME IdOrderAssumption ==
  /\ IdOrder \in Seq(PackageIds)
  /\ \A id \in PackageIds : \E k \in DOMAIN IdOrder : IdOrder[k] = id
  /\ \A i, k \in DOMAIN IdOrder : IdOrder[i] = IdOrder[k] => i = k

VARIABLES index,       \* the semantic index: the document of each package
          hashes,      \* retrieval_sync_documents: the document whose fingerprint is kept
          sync,
          latest,      \* the run that started last
          apart        \* no two runs have been under way at once

syncVars == <<index, hashes, sync, latest, apart>>
vars == <<store, freshness, runs, job, clock, budget, index, hashes, sync, latest, apart>>

\* What the index is to hold of a package: its row, its aliases, and the name the latest
\* merge gave it.  The fingerprint is one of all of this.
Name(id) ==
  LET names == {l \in store.lineage : l.id = id}
  IN  IF names = {} THEN store.packages[id].slug
      ELSE (CHOOSE l \in names : \A m \in names : m.at <= l.at).name

Document(id) ==
  [id |-> id, slug |-> store.packages[id].slug, repo |-> store.packages[id].repo,
   at |-> store.packages[id].at, name |-> Name(id),
   aliases |-> {row[2] : row \in {r \in DOMAIN store.aliases : store.aliases[r] = id}}]

Rank(id) == Place(IdOrder, id)
Present == DOMAIN store.packages

NoSync == [pc |-> "idle", ids |-> {}, after |-> 0, next |-> None, docs |-> <<>>, left |-> {},
           from |-> {}, seen |-> {}]

SyncInit ==
  /\ index = <<>>
  /\ hashes = <<>>
  /\ sync = [s \in Syncs |-> NoSync]
  /\ latest = None
  /\ apart = TRUE

Init == CatalogInit /\ SyncInit

UnderWay(s) == sync[s].pc \in {"listed", "changed", "indexed"}

\* Mutant: the packages of a batch are those changed last, as the catalog lists them.
NewestFirst(ids) ==
  Arranged(ids, {pair \in ids \X ids :
    KeyLess(<<-store.packages[pair[1]].at, Rank(pair[1])>>,
            <<-store.packages[pair[2]].at, Rank(pair[2])>>)})

\* The batch of a run: by package id, and no more than the limit.
InListOrder(ids) ==
  Arranged(ids, {pair \in ids \X ids : Rank(pair[1]) < Rank(pair[2])})

Batch(ids, after) ==
  LET wanted == IF ids # {} THEN ids \cap Present ELSE {p \in Present : Rank(p) > after}
      order  == InListOrder(wanted)
  IN  SubSeq(order, 1, IF Len(order) < Limit THEN Len(order) ELSE Limit)

\* The cursor to go on from: only a full batch has one, and one of named packages never.
NextCursor(ids, batch) ==
  IF ids = {} /\ Len(batch) = Limit THEN Rank(batch[Limit]) ELSE None

\* listBatch reads the packages in one statement.  A run goes on where an earlier one
\* stopped, or from where it failed (state is what that one left), or starts anew.
List(s, ids, state) ==
  /\ sync[s].pc = "idle"
  /\ Spend("syncs")
  /\ LET batch == Batch(ids, Given(state.next, 0))
         docs  == [k \in DOMAIN batch |-> Document(batch[k])]
     IN  sync' = [sync EXCEPT ![s] =
           [NoSync EXCEPT !.pc = "listed", !.ids = ids, !.after = Given(state.next, 0),
                          !.next = NextCursor(ids, batch), !.docs = docs,
                          !.from = IF state.next = None THEN Present ELSE state.from,
                          !.seen = state.seen \cup Range(batch)]]
  /\ latest' = s
  /\ apart' = (apart /\ \A t \in Syncs : ~UnderWay(t))
  /\ UNCHANGED <<store, freshness, runs, job, clock, index, hashes>>

StartSync(s) == List(s, {}, NoSync)
ResumeSync(s, t) == sync[t].pc = "done" /\ sync[t].next # None /\ List(s, {}, sync[t])
RetrySync(s, t) ==
  /\ sync[t].pc = "failed"
  /\ sync[t].ids = {}
  /\ List(s, {}, [sync[t] EXCEPT !.next = IF sync[t].after = 0 THEN None ELSE sync[t].after])
SyncPackages(s, ids) == List(s, ids, NoSync)

\* Mutant: a document is unchanged if its package has the date that was kept.
SameDate(doc) == doc.id \in DOMAIN hashes /\ hashes[doc.id].at = doc.at

\* getHashes: the documents whose fingerprint is not the one that was kept.
Unchanged(doc) == doc.id \in DOMAIN hashes /\ hashes[doc.id] = doc

CompareHashes(s) ==
  /\ sync[s].pc = "listed"
  /\ LET changed == {k \in DOMAIN sync[s].docs : ~Unchanged(sync[s].docs[k])}
     IN  sync' = [sync EXCEPT ![s].left = changed,
                              ![s].pc = IF changed = {} THEN "done" ELSE "changed"]
  /\ UNCHANGED <<index, hashes, latest, apart>> /\ UNCHANGED catalogVars

\* upsertDocuments: one request for all of them.
Indexed(docs) ==
  [id \in DOMAIN index \cup {doc.id : doc \in docs} |->
     IF \E doc \in docs : doc.id = id THEN CHOOSE doc \in docs : doc.id = id ELSE index[id]]

Changed(s) == {sync[s].docs[k] : k \in sync[s].left}

WriteIndex(s) ==
  /\ sync[s].pc = "changed"
  /\ index' = Indexed(Changed(s))
  /\ sync' = [sync EXCEPT ![s].pc = "indexed"]
  /\ UNCHANGED <<hashes, latest, apart>> /\ UNCHANGED catalogVars

\* upsertState: a statement for each document, in no transaction.
WriteState(s) ==
  /\ sync[s].pc = "indexed"
  /\ \E k \in sync[s].left :
       LET doc == sync[s].docs[k]
           left == sync[s].left \ {k}
       IN  /\ \A i \in left : k < i
           /\ hashes' = Put(hashes, doc.id, doc)
           /\ sync' = [sync EXCEPT ![s].left = left,
                                   ![s].pc = IF left = {} THEN "done" ELSE "indexed"]
  /\ UNCHANGED <<index, latest, apart>> /\ UNCHANGED catalogVars

\* A statement or a request fails, or the process is killed; the index may have been
\* written all the same.
SyncFails(s) ==
  /\ UnderWay(s)
  /\ Spend("cuts")
  /\ sync' = [sync EXCEPT ![s].pc = "failed", ![s].left = {}]
  /\ \/ UNCHANGED index
     \/ sync[s].pc = "changed" /\ index' = Indexed(Changed(s))
  /\ UNCHANGED <<hashes, latest, apart, store, freshness, runs, job, clock>>

SyncNext ==
  \E s \in Syncs :
    \/ StartSync(s)
    \/ \E t \in Syncs : ResumeSync(s, t) \/ RetrySync(s, t)
    \/ \E ids \in SUBSET Present \ {{}} : SyncPackages(s, ids)
    \/ CompareHashes(s)
    \/ WriteIndex(s)
    \/ WriteState(s)
    \/ SyncFails(s)

Next == SyncNext \/ (CatalogNext /\ UNCHANGED syncVars)

Spec == Init /\ [][Next]_vars

-------------------------------------------------------------------------------

TypeOK ==
  /\ freshness = None \/ freshness.status \in {"succeeded", "failed"}
  /\ \A row \in DOMAIN store.aliases : store.aliases[row] \in Present
  /\ DOMAIN hashes \subseteq Range(IdOrder)
  /\ \A s \in Syncs : sync[s].pc \in {"idle", "listed", "changed", "indexed", "done", "failed"}

\* As long as runs of the sync do not overlap, a run that ended left in the index every
\* document it listed, whatever earlier runs were cut off at and whatever the catalog's
\* writers did meanwhile: a fingerprint that is kept vouches for the index.  It does not
\* for a package whose date was set back to one it had before, by a file that dates its
\* merges and is read again.
IndexIsTrue ==
  \A s \in Syncs : sync[s].pc = "done" /\ latest = s /\ apart =>
    \A k \in DOMAIN sync[s].docs :
      LET doc == sync[s].docs[k]
      IN  doc.id \notin store.redated => doc.id \in DOMAIN index /\ index[doc.id] = doc

\* A chain of runs along the cursor that came to its end has listed every package that
\* was there when it began, and each of them has a document in the index.
BackfillIsComplete ==
  \A s \in Syncs : sync[s].pc = "done" /\ sync[s].ids = {} /\ sync[s].next = None =>
    sync[s].from \subseteq sync[s].seen \cap DOMAIN index

\* Stated of retrieval_sync_documents: the fingerprint kept of a package is that of its
\* document in the index, once every run that wrote has ended well.
FingerprintOfIndex ==
  (\A s \in Syncs : sync[s].pc \in {"idle", "done"}) =>
    \A id \in DOMAIN hashes : index[id] = hashes[id]
==============================================================================
