------------------------------- MODULE Outbox -------------------------------
(***************************************************************************)
(* The transactional outbox: producers insert rows in ingestion_outbox, a  *)
(* processor run (scripts/run-outbox-processor.mjs, started by cron or by  *)
(* an operator, possibly several at once and in different modes) claims a  *)
(* batch, dispatches every claimed job and records the outcome, and an     *)
(* operator requeues dead letters.                                         *)
(*                                                                         *)
(* One action is one awaited call of the code: an SQL statement, the call  *)
(* of the downstream endpoint or of the ranking sync.  Between two of them *)
(* anything else may happen, a crash of the run included.  A statement may *)
(* also fail, having been applied or not (a connection lost before or      *)
(* after the commit): MaxFaults bounds how often that happens.             *)
(***************************************************************************)
EXTENDS Integers, FiniteSets

CONSTANTS
  NumJobs,       \* jobs are numbered in the order of their created_at
  Kind,          \* what the event type of a job makes the internal dispatcher do
  Runs,          \* slots for processor processes that may be alive together
  Vias,          \* dispatchers the deployment uses, a subset of {"internal", "endpoint"}
  MaxAttempts,   \* OUTBOX_MAX_ATTEMPTS
  Limit,         \* --limit, the size of a claimed batch
  MaxProbes,     \* bound: dry-run and shadow runs
  MaxFaults,     \* bound: failing statements on ingestion_outbox
  MaxCrashes,    \* bound: processor processes killed
  MaxRequeues    \* bound: dead-letter requeue transactions

Jobs  == 1..NumJobs
NoJob == 0
Kinds == {"recorded", "ranking", "unsupported"}
Modes == {"dry-run", "shadow", "production"}

ASSUME OutboxAssumption ==
  /\ NumJobs \in Nat \ {0}
  /\ Kind \in [Jobs -> Kinds]
  /\ Vias \subseteq {"internal", "endpoint"}
  /\ MaxAttempts \in Nat \ {0}
  /\ Limit \in Nat \ {0}
  /\ MaxProbes \in Nat
  /\ MaxFaults \in Nat
  /\ MaxCrashes \in Nat
  /\ MaxRequeues \in Nat

VARIABLES
  row,        \* ingestion_outbox: status, attempt_count and available_at <= now
  run,        \* the processor run in each slot
  effects,    \* jobs with a row in outbox_internal_dispatch_effects
  ledger,     \* jobs with a row in outbox_internal_dispatch_runs
  synced,     \* jobs whose ranking sync has been executed
  delivered,  \* jobs the downstream endpoint has accepted
  audit,      \* rows of outbox_dead_letter_replay_audit per job
  tries,      \* history: production dispatches of a job since it was last requeued
  probes, faults, crashes, requeues   \* what has been used of the bounds

handleVars == <<effects, ledger, synced, delivered>>
budgetVars == <<probes, crashes, requeues>>
vars == <<row, run, effects, ledger, synced, delivered, audit, tries,
          probes, faults, crashes, requeues>>

(***************************************************************************)
(* State of a row and of a run                                             *)
(***************************************************************************)
Statuses == {"absent", "pending", "processing", "completed", "failed", "dead_letter"}
Row      == [status : Statuses, attempts : Nat, due : BOOLEAN]

Points == {"idle", "next", "check", "dispatch", "effect_check", "sync", "effect",
           "ledger", "mark_processed", "mark_completed", "skip_completed",
           "mark_failed", "release"}
Run    == [pc : Points, mode : Modes \cup {"none"}, via : Vias \cup {"none"},
           todo : SUBSET Jobs, cur : Jobs \cup {NoJob}]

NoRun == [pc |-> "idle", mode |-> "none", via |-> "none", todo |-> {}, cur |-> NoJob]

AbsentRow == [status |-> "absent", attempts |-> 0, due |-> TRUE]

At(r, point) == run[r].pc = point
Job(r)       == run[r].cur

\* Jobs a live run has claimed and not yet let go of.
Holds(r) == run[r].todo \cup (IF Job(r) = NoJob THEN {} ELSE {Job(r)})

\* The run after its current statement: at another point of the loop body ...
Goto(r, point) == [run EXCEPT ![r].pc = point]
\* ... at the head of the loop, done with the current job ...
NextJob(r) == [run EXCEPT ![r].pc = "next", ![r].cur = NoJob]
\* ... or gone: an exception outside the try block ends the process, which forgets
\* the jobs it had claimed.
Abort(r) == [run EXCEPT ![r] = NoRun]

Init ==
  /\ row = [j \in Jobs |-> AbsentRow]
  /\ run = [r \in Runs |-> NoRun]
  /\ effects = {} /\ ledger = {} /\ synced = {} /\ delivered = {}
  /\ audit = [j \in Jobs |-> 0]
  /\ tries = [j \in Jobs |-> 0]
  /\ probes = 0 /\ faults = 0 /\ crashes = 0 /\ requeues = 0

(***************************************************************************)
(* Producers: INSERT ... ON CONFLICT (dedupe_key) DO NOTHING.  A dedupe    *)
(* key is a job: inserting it again changes nothing.                       *)
(***************************************************************************)
Enqueue(j) ==
  /\ row[j].status = "absent"
  /\ \A i \in Jobs : i < j => row[i].status # "absent"
  /\ row' = [row EXCEPT ![j] = [status |-> "pending", attempts |-> 0, due |-> TRUE]]
  /\ UNCHANGED <<run, handleVars, audit, tries, faults, budgetVars>>

\* The retry window of a failed row ends.
Elapse(j) ==
  /\ ~row[j].due
  /\ row' = [row EXCEPT ![j].due = TRUE]
  /\ UNCHANGED <<run, handleVars, audit, tries, faults, budgetVars>>

(***************************************************************************)
(* claimPending: one statement selects the oldest due rows with FOR UPDATE *)
(* SKIP LOCKED and makes them 'processing'.                                *)
(***************************************************************************)
ClaimablePendingOnly(j) == row[j].status = "pending" /\ row[j].due      \* mutant
ClaimableUnfinished(j) ==                                               \* mutant
  row[j].status \notin {"absent", "completed"} /\ row[j].due
Claimable(j) == row[j].status \in {"pending", "failed"} /\ row[j].due

Batch == {j \in Jobs : /\ Claimable(j)
                       /\ Cardinality({i \in Jobs : i < j /\ Claimable(i)}) < Limit}

Claimed(batch) ==
  [j \in Jobs |-> IF j \in batch
                  THEN [status |-> "processing", attempts |-> row[j].attempts + 1,
                        due |-> row[j].due]
                  ELSE row[j]]

\* A run starts and claims; its claim may fail, and even so have been applied.
Claim(r, mode, via) ==
  /\ At(r, "idle")
  /\ Batch # {}
  /\ IF mode = "production" THEN UNCHANGED probes
                            ELSE probes < MaxProbes /\ probes' = probes + 1
  /\ \/ /\ row' = Claimed(Batch)
        /\ run' = [run EXCEPT ![r] = [pc |-> "next", mode |-> mode, via |-> via,
                                      todo |-> Batch, cur |-> NoJob]]
        /\ UNCHANGED faults
     \/ /\ faults < MaxFaults
        /\ faults' = faults + 1
        /\ row' = Claimed(Batch)
        /\ UNCHANGED run
  /\ UNCHANGED <<handleVars, audit, tries, crashes, requeues>>

\* The rows come back in no particular order; the loop takes them one by one.
TakeJob(r) ==
  /\ At(r, "next")
  /\ IF run[r].todo = {}
     THEN run' = Abort(r)
     ELSE \E j \in run[r].todo :
            run' = [run EXCEPT ![r].pc = "check", ![r].cur = j, ![r].todo = @ \ {j}]
  /\ UNCHANGED <<row, handleVars, audit, tries, faults, budgetVars>>

(***************************************************************************)
(* isProcessed, by dedupe key.                                             *)
(***************************************************************************)
Processed(j) == row[j].status \in {"completed", "dead_letter"}

AfterCheck(r) ==
  IF Processed(Job(r))
  THEN IF run[r].mode = "production" THEN "skip_completed" ELSE "release"
  ELSE IF run[r].mode = "dry-run" THEN "release" ELSE "dispatch"

CheckProcessed(r) ==
  /\ At(r, "check")
  /\ \/ run' = Goto(r, AfterCheck(r)) /\ UNCHANGED faults
     \/ faults < MaxFaults /\ faults' = faults + 1 /\ run' = Abort(r)
  /\ UNCHANGED <<row, handleVars, audit, tries, budgetVars>>

(***************************************************************************)
(* Dispatch.  What follows an exception in it, and what follows success.   *)
(***************************************************************************)
Caught(r)     == IF run[r].mode = "production" THEN "mark_failed" ELSE "release"
Dispatched(r) == IF run[r].mode = "production" THEN "mark_processed" ELSE "release"

Tried(r) == IF run[r].mode = "production" THEN [tries EXCEPT ![Job(r)] = @ + 1] ELSE tries

\* POST to OUTBOX_DISPATCH_ENDPOINT: answered 2xx, or an error the endpoint may
\* nevertheless have acted before.
DispatchToEndpoint(r) ==
  /\ At(r, "dispatch") /\ run[r].via = "endpoint"
  /\ \/ delivered' = delivered \cup {Job(r)} /\ run' = Goto(r, Dispatched(r))
     \/ delivered' \in {delivered, delivered \cup {Job(r)}} /\ run' = Goto(r, Caught(r))
  /\ tries' = Tried(r)
  /\ UNCHANGED <<row, effects, ledger, synced, audit, faults, budgetVars>>

DispatchInternallyIgnoring(r) ==                                        \* mutant
  /\ At(r, "dispatch") /\ run[r].via = "internal"
  /\ \/ /\ run' = Goto(r, CASE Kind[Job(r)] = "unsupported" -> Dispatched(r)
                            [] Kind[Job(r)] = "recorded"    -> "effect"
                            [] Kind[Job(r)] = "ranking"     -> "effect_check")
        /\ UNCHANGED faults
     \/ /\ Kind[Job(r)] = "ranking"
        /\ faults < MaxFaults /\ faults' = faults + 1
        /\ run' = Goto(r, Caught(r))
  /\ tries' = Tried(r)
  /\ UNCHANGED <<row, handleVars, audit, budgetVars>>

\* The deterministic dispatcher picks the handler of the event type; the ranking
\* handler first looks up the package of the job.
DispatchInternally(r) ==
  /\ At(r, "dispatch") /\ run[r].via = "internal"
  /\ \/ /\ run' = Goto(r, CASE Kind[Job(r)] = "unsupported" -> Caught(r)
                            [] Kind[Job(r)] = "recorded"    -> "effect"
                            [] Kind[Job(r)] = "ranking"     -> "effect_check")
        /\ UNCHANGED faults
     \/ /\ Kind[Job(r)] = "ranking"
        /\ faults < MaxFaults /\ faults' = faults + 1
        /\ run' = Goto(r, Caught(r))
  /\ tries' = Tried(r)
  /\ UNCHANGED <<row, handleVars, audit, budgetVars>>

\* effectExists: a replayed ranking job whose effect row is there skips the sync.
CheckEffect(r) ==
  /\ At(r, "effect_check")
  /\ \/ run' = Goto(r, IF Job(r) \in effects THEN "ledger" ELSE "sync") /\ UNCHANGED faults
     \/ faults < MaxFaults /\ faults' = faults + 1 /\ run' = Goto(r, Caught(r))
  /\ UNCHANGED <<row, handleVars, audit, tries, budgetVars>>

\* rankingSyncExecutor.sync: an exception may come after it has written.
SyncRanking(r) ==
  /\ At(r, "sync")
  /\ \/ synced' = synced \cup {Job(r)} /\ run' = Goto(r, "effect")
     \/ synced' \in {synced, synced \cup {Job(r)}} /\ run' = Goto(r, Caught(r))
  /\ UNCHANGED <<row, effects, ledger, delivered, audit, tries, faults, budgetVars>>

\* persistEffect: INSERT ... ON CONFLICT (outbox_job_id, effect_code) DO NOTHING.
PersistEffect(r) ==
  /\ At(r, "effect")
  /\ \/ effects' = effects \cup {Job(r)} /\ run' = Goto(r, "ledger") /\ UNCHANGED faults
     \/ /\ faults < MaxFaults /\ faults' = faults + 1
        /\ effects' \in {effects, effects \cup {Job(r)}}
        /\ run' = Goto(r, Caught(r))
  /\ UNCHANGED <<row, ledger, synced, delivered, audit, tries, budgetVars>>

\* persistDispatch: INSERT ... ON CONFLICT (outbox_job_id) DO NOTHING.
PersistDispatch(r) ==
  /\ At(r, "ledger")
  /\ \/ ledger' = ledger \cup {Job(r)} /\ run' = Goto(r, Dispatched(r)) /\ UNCHANGED faults
     \/ /\ faults < MaxFaults /\ faults' = faults + 1
        /\ ledger' \in {ledger, ledger \cup {Job(r)}}
        /\ run' = Goto(r, Caught(r))
  /\ UNCHANGED <<row, effects, synced, delivered, audit, tries, budgetVars>>

(***************************************************************************)
(* The outcome.  None of these UPDATEs but releaseClaim looks at the       *)
(* status of the row it writes.                                            *)
(***************************************************************************)
CompletedRow(j) == [row EXCEPT ![j].status = "completed"]

FailedRowOneMore(j, due) ==                                             \* mutant
  IF row[j].attempts > MaxAttempts
  THEN [row EXCEPT ![j].status = "dead_letter"]
  ELSE [row EXCEPT ![j].status = "failed", ![j].due = due]
FailedRow(j, due) ==
  IF row[j].attempts >= MaxAttempts
  THEN [row EXCEPT ![j].status = "dead_letter"]
  ELSE [row EXCEPT ![j].status = "failed", ![j].due = due]

ReleasedRow(j) ==
  IF row[j].status = "processing"
  THEN [row EXCEPT ![j] = [status   |-> "pending",
                           attempts |-> IF row[j].attempts > 0 THEN row[j].attempts - 1 ELSE 0,
                           due      |-> row[j].due]]
  ELSE row

\* An UPDATE that leaves new as the table and ok as the runs, or fails with
\* the runs as in err, applied or not.
Update(new, ok, err) ==
  \/ row' = new /\ run' = ok /\ UNCHANGED faults
  \/ faults < MaxFaults /\ faults' = faults + 1 /\ row' \in {row, new} /\ run' = err

MarkProcessed(r) ==
  /\ At(r, "mark_processed")
  /\ Update(CompletedRow(Job(r)), Goto(r, "mark_completed"), Goto(r, "mark_failed"))
  /\ UNCHANGED <<handleVars, audit, tries, budgetVars>>

\* Inside the try block a failure is caught; after a positive duplicate check
\* it ends the run.
MarkCompleted(r) ==
  /\ run[r].pc \in {"mark_completed", "skip_completed"}
  /\ Update(CompletedRow(Job(r)), NextJob(r),
            IF At(r, "mark_completed") THEN Goto(r, "mark_failed") ELSE Abort(r))
  /\ UNCHANGED <<handleVars, audit, tries, budgetVars>>

\* The retry time is counted from the start of the run: when the run is long
\* the row is due at once.
MarkFailed(r) ==
  /\ At(r, "mark_failed")
  /\ \E due \in BOOLEAN : Update(FailedRow(Job(r), due), NextJob(r), Abort(r))
  /\ UNCHANGED <<handleVars, audit, tries, budgetVars>>

ReleaseClaim(r) ==
  /\ At(r, "release")
  /\ Update(ReleasedRow(Job(r)), NextJob(r), Abort(r))
  /\ UNCHANGED <<handleVars, audit, tries, budgetVars>>

\* The process is killed at any await.
Crash(r) ==
  /\ ~At(r, "idle")
  /\ crashes < MaxCrashes
  /\ crashes' = crashes + 1
  /\ run' = Abort(r)
  /\ UNCHANGED <<row, handleVars, audit, tries, faults, probes, requeues>>

(***************************************************************************)
(* requeueDeadLetterJobs: one transaction requeues the selected dead       *)
(* letters and writes an audit row for each.                               *)
(***************************************************************************)
Requeue(batch) ==
  /\ requeues < MaxRequeues
  /\ batch # {}
  /\ \A j \in batch : row[j].status = "dead_letter"
  /\ row' = [j \in Jobs |-> IF j \in batch
                            THEN [status |-> "pending", attempts |-> 0, due |-> TRUE]
                            ELSE row[j]]
  /\ audit' = [j \in Jobs |-> IF j \in batch THEN audit[j] + 1 ELSE audit[j]]
  /\ tries' = [j \in Jobs |-> IF j \in batch THEN 0 ELSE tries[j]]
  /\ requeues' = requeues + 1
  /\ UNCHANGED <<run, handleVars, faults, probes, crashes>>

Step(r) ==
  \/ TakeJob(r)
  \/ CheckProcessed(r)
  \/ DispatchToEndpoint(r)
  \/ DispatchInternally(r)
  \/ CheckEffect(r)
  \/ SyncRanking(r)
  \/ PersistEffect(r)
  \/ PersistDispatch(r)
  \/ MarkProcessed(r)
  \/ MarkCompleted(r)
  \/ MarkFailed(r)
  \/ ReleaseClaim(r)

Next ==
  \/ \E j \in Jobs : Enqueue(j) \/ Elapse(j)
  \/ \E r \in Runs, mode \in Modes, via \in Vias : Claim(r, mode, via)
  \/ \E r \in Runs : Step(r) \/ Crash(r)
  \/ \E batch \in SUBSET Jobs : Requeue(batch)

Spec == Init /\ [][Next]_vars

\* Cron starts a production run again and again, a live process takes its next
\* step, and time passes.  Nothing obliges a producer, an operator or a probe.
Fairness ==
  /\ \A r \in Runs : WF_vars(Step(r))
  /\ \A r \in Runs : WF_vars(\E via \in Vias : Claim(r, "production", via))
  /\ \A j \in Jobs : WF_vars(Elapse(j))

LiveSpec == Spec /\ Fairness

(***************************************************************************)
(* Properties                                                              *)
(***************************************************************************)
TypeOK ==
  /\ row \in [Jobs -> Row]
  /\ run \in [Runs -> Run]
  /\ effects \subseteq Jobs /\ ledger \subseteq Jobs
  /\ synced \subseteq Jobs /\ delivered \subseteq Jobs
  /\ audit \in [Jobs -> Nat]
  /\ tries \in [Jobs -> Nat]
  /\ probes \in 0..MaxProbes /\ faults \in 0..MaxFaults
  /\ crashes \in 0..MaxCrashes /\ requeues \in 0..MaxRequeues

\* A claim is exclusive: no two live processor runs work on the same job, and
\* until a run has written the outcome of a job it holds, the row says
\* 'processing', whatever the other runs, producers and operators do.
ClaimExclusive ==
  /\ \A r, s \in Runs : r # s => Holds(r) \cap Holds(s) = {}
  /\ \A r \in Runs : \A j \in Holds(r) :
       row[j].status # "processing" =>
         j = Job(r) /\ run[r].pc \in {"mark_completed", "mark_failed"}

\* The retry budget: between two requeues a job is dispatched in production at
\* most MaxAttempts times, however many runs were killed, however many dry-run and
\* shadow runs gave their claim back, and whichever statements failed.
RetryBudget ==
  \A j \in Jobs : row[j].attempts <= MaxAttempts /\ tries[j] <= MaxAttempts

\* The ranking sync is a check-then-act (effectExists, sync, persistEffect): it
\* never runs for a job whose effect row is already there, so the row stands for
\* the last execution.
SyncOnlyUnrecorded == \A r \in Runs : At(r, "sync") => Job(r) \notin effects

\* A job is completed only after the endpoint accepted it or its handler recorded
\* the effect and the dispatch; the dispatch ledger never precedes the effect, and
\* a ranking effect never precedes a sync.
CompletedWasHandled ==
  /\ \A j \in Jobs : row[j].status = "completed" => j \in delivered \cup ledger
  /\ ledger \subseteq effects
  /\ \A j \in effects : Kind[j] = "ranking" => j \in synced

\* A dead letter stays one until an operator requeues it, and every requeue of a
\* row leaves exactly one audit row.
DeadLetterLeftByRequeue ==
  [][\A j \in Jobs :
       /\ row[j].status = "dead_letter" /\ row'[j].status # "dead_letter"
            => audit'[j] = audit[j] + 1
       /\ audit'[j] # audit[j] => row[j].status = "dead_letter"]_vars

\* A row nobody will ever touch: 'processing', and the run that claimed it is gone.
Orphaned(j) == row[j].status = "processing" /\ \A r \in Runs : j \notin Holds(r)
Settled(j)  == row[j].status \in {"completed", "dead_letter"}

\* Every enqueued job ends up completed or dead-lettered, or orphaned by a run that was
\* killed or aborted: with crashes and failing statements no job starves behind others,
\* and none is retried for ever.
SettlesOrOrphaned == \A j \in Jobs : row[j].status # "absent" ~> Settled(j) \/ Orphaned(j)

(***************************************************************************)
(* What the table promises its users.                                      *)
(***************************************************************************)
Phase(j) ==
  CASE row[j].status = "absent"                  -> "absent"
    [] row[j].status \in {"pending", "failed"}   -> "ready"
    [] row[j].status = "processing"              -> "taken"
    [] row[j].status = "completed"               -> "done"
    [] row[j].status = "dead_letter"             -> "dead"

Queue == INSTANCE OutboxQueue
           WITH Items    <- Jobs,
                phase    <- [j \in Jobs |-> Phase(j)],
                handled  <- delivered \cup ledger,
                revivals <- audit,
                broken   <- faults > 0

\* The outbox keeps the promise of OutboxQueue: taken by one worker at a time, done
\* after having been handled and for good, dead until an audited requeue.
QueueSpec == Queue!Spec
=============================================================================
