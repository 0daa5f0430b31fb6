---------------------------- MODULE OutboxProofs ----------------------------
(***************************************************************************)
(* Theorems about Outbox, for every number of jobs, runs, attempts, faults *)
(* and crashes: its invariants and action properties, and that it is the   *)
(* queue of OutboxQueue.                                                   *)
(***************************************************************************)
EXTENDS Outbox, TLAPS

(***************************************************************************)
(* How the three ways a run moves on change it.                            *)
(***************************************************************************)
LEMMA GotoFacts ==
  ASSUME run \in [Runs -> Run], NEW r \in Runs, NEW p \in Points
  PROVE  /\ Goto(r, p) \in [Runs -> Run]
         /\ Goto(r, p)[r].pc = p /\ Goto(r, p)[r].mode = run[r].mode
         /\ Goto(r, p)[r].via = run[r].via /\ Goto(r, p)[r].todo = run[r].todo
         /\ Goto(r, p)[r].cur = run[r].cur
         /\ \A s \in Runs : s # r => Goto(r, p)[s] = run[s]
BY DEF Goto, Run

LEMMA NextJobFacts ==
  ASSUME run \in [Runs -> Run], NEW r \in Runs
  PROVE  /\ NextJob(r) \in [Runs -> Run]
         /\ NextJob(r)[r].pc = "next" /\ NextJob(r)[r].mode = run[r].mode
         /\ NextJob(r)[r].via = run[r].via /\ NextJob(r)[r].todo = run[r].todo
         /\ NextJob(r)[r].cur = NoJob
         /\ \A s \in Runs : s # r => NextJob(r)[s] = run[s]
BY DEF NextJob, Run, Points

LEMMA AbortFacts ==
  ASSUME run \in [Runs -> Run], NEW r \in Runs
  PROVE  /\ Abort(r) \in [Runs -> Run]
         /\ Abort(r)[r] = NoRun
         /\ \A s \in Runs : s # r => Abort(r)[s] = run[s]
BY DEF Abort, Run, Points, NoRun

LEMMA RowFacts ==
  ASSUME row \in [Jobs -> Row], MaxAttempts \in Nat, NEW j \in Jobs, NEW due \in BOOLEAN
  PROVE  /\ CompletedRow(j) \in [Jobs -> Row]
         /\ FailedRow(j, due) \in [Jobs -> Row]
         /\ ReleasedRow(j) \in [Jobs -> Row]
         /\ \A i \in Jobs : i # j => /\ CompletedRow(j)[i] = row[i]
                                     /\ FailedRow(j, due)[i] = row[i]
                                     /\ ReleasedRow(j)[i] = row[i]
         /\ CompletedRow(j)[j].status = "completed"
         /\ CompletedRow(j)[j].attempts = row[j].attempts
         /\ FailedRow(j, due)[j].attempts = row[j].attempts
         /\ FailedRow(j, due)[j].status =
              IF row[j].attempts >= MaxAttempts THEN "dead_letter" ELSE "failed"
         /\ row[j].status = "processing" =>
              /\ ReleasedRow(j)[j].status = "pending"
              /\ ReleasedRow(j)[j].attempts = IF row[j].attempts > 0 THEN row[j].attempts - 1 ELSE 0
         /\ row[j].status # "processing" => ReleasedRow(j)[j] = row[j]
<1>1. /\ CompletedRow(j) \in [Jobs -> Row]
      /\ \A i \in Jobs : i # j => CompletedRow(j)[i] = row[i]
      /\ CompletedRow(j)[j].status = "completed"
      /\ CompletedRow(j)[j].attempts = row[j].attempts
  BY DEF CompletedRow, Row, Statuses
<1>2. /\ FailedRow(j, due) \in [Jobs -> Row]
      /\ \A i \in Jobs : i # j => FailedRow(j, due)[i] = row[i]
      /\ FailedRow(j, due)[j].attempts = row[j].attempts
      /\ FailedRow(j, due)[j].status =
              IF row[j].attempts >= MaxAttempts THEN "dead_letter" ELSE "failed"
  BY DEF FailedRow, Row, Statuses
<1>3. CASE row[j].status = "processing"
  <2>1. ReleasedRow(j) = [row EXCEPT ![j] = [status |-> "pending",
                            attempts |-> IF row[j].attempts > 0 THEN row[j].attempts - 1 ELSE 0,
                            due |-> row[j].due]]
    BY <1>3 DEF ReleasedRow
  <2>2. row[j].attempts \in Nat /\ row[j].due \in BOOLEAN
    BY DEF Row
  <2> QED BY <1>1, <1>2, <1>3, <2>1, <2>2 DEF Row, Statuses
<1>4. CASE row[j].status # "processing"
  BY <1>1, <1>2, <1>4 DEF ReleasedRow
<1> QED BY <1>3, <1>4

LEMMA ClaimedFacts ==
  ASSUME row \in [Jobs -> Row], NEW S \in SUBSET Jobs
  PROVE  /\ Claimed(S) \in [Jobs -> Row]
         /\ \A j \in S : /\ Claimed(S)[j].status = "processing"
                         /\ Claimed(S)[j].attempts = row[j].attempts + 1
         /\ \A j \in Jobs \ S : Claimed(S)[j] = row[j]
BY DEF Claimed, Row, Statuses

LEMMA NoRunType == NoRun \in Run
BY DEF NoRun, Run, Points

(***************************************************************************)
(* The type invariant.  It needs the shape of a run at each point of the   *)
(* loop: which job it works on, and in which modes the point is reached.   *)
(***************************************************************************)
RunShape(x) ==
  /\ x.pc = "idle" => x = NoRun
  /\ x.pc = "next" => x.cur = NoJob
  /\ x.pc \notin {"idle", "next"} => x.cur \in Jobs /\ x.cur \notin x.todo
  /\ x.pc \in {"mark_processed", "mark_completed", "mark_failed", "skip_completed"}
       => x.mode = "production"
  /\ x.pc = "release" => x.mode # "production"

Shape == \A r \in Runs : RunShape(run[r])

LEMMA ShapeInit == Init => TypeOK /\ Shape
BY OutboxAssumption, NoRunType
   DEF Init, TypeOK, AbsentRow, Row, Statuses, Shape, RunShape, NoRun

\* It is enough to look at the run that moves.
LEMMA OneRunMoves ==
  ASSUME TypeOK, Shape, NEW r \in Runs, run' \in [Runs -> Run],
         \A s \in Runs : s # r => run'[s] = run[s],
         RunShape(run'[r])
  PROVE  Shape'
BY DEF Shape, RunShape

LEMMA GotoShape ==
  ASSUME TypeOK, Shape, NEW r \in Runs, NEW p \in Points \ {"idle", "next"},
         Job(r) \in Jobs, Job(r) \notin run[r].todo,
         p \in {"mark_processed", "mark_completed", "mark_failed", "skip_completed"}
           => run[r].mode = "production",
         p = "release" => run[r].mode # "production"
  PROVE  run' = Goto(r, p) => Shape' /\ run' \in [Runs -> Run]
<1> SUFFICES ASSUME run' = Goto(r, p) PROVE Shape' /\ run' \in [Runs -> Run]
  OBVIOUS
<1>1. run \in [Runs -> Run] /\ p \in Points
  BY DEF TypeOK
<1>2. RunShape(run'[r])
  BY <1>1, GotoFacts DEF RunShape, Job
<1> QED BY <1>1, <1>2, GotoFacts, OneRunMoves

LEMMA LeaveShape ==
  ASSUME TypeOK, Shape, NEW r \in Runs
  PROVE  run' = NextJob(r) \/ run' = Abort(r) => Shape' /\ run' \in [Runs -> Run]
<1>1. run \in [Runs -> Run]
  BY DEF TypeOK
<1>2. ASSUME run' = NextJob(r) PROVE Shape' /\ run' \in [Runs -> Run]
  <2>1. RunShape(run'[r])
    BY <1>1, <1>2, NextJobFacts DEF RunShape
  <2> QED BY <1>1, <1>2, <2>1, NextJobFacts, OneRunMoves
<1>3. ASSUME run' = Abort(r) PROVE Shape' /\ run' \in [Runs -> Run]
  <2>1. RunShape(run'[r])
    BY <1>1, <1>3, AbortFacts DEF RunShape, NoRun
  <2> QED BY <1>1, <1>3, <2>1, AbortFacts, OneRunMoves
<1> QED BY <1>2, <1>3

\* What a run at a point inside the loop body works on.
LEMMA Working ==
  ASSUME TypeOK, Shape, NEW r \in Runs, run[r].pc \notin {"idle", "next"}
  PROVE  Job(r) \in Jobs /\ Job(r) \notin run[r].todo
BY DEF Shape, RunShape, Job

LEMMA TypeStep == TypeOK /\ Shape /\ [Next]_vars => TypeOK' /\ Shape'
<1> SUFFICES ASSUME TypeOK, Shape, [Next]_vars PROVE TypeOK' /\ Shape'
  OBVIOUS
<1> USE OutboxAssumption
<1>0. ASSUME UNCHANGED vars PROVE TypeOK' /\ Shape'
  BY <1>0 DEF TypeOK, vars, Shape, RunShape
<1>1. ASSUME NEW j \in Jobs, Enqueue(j) PROVE TypeOK' /\ Shape'
  BY <1>1 DEF TypeOK, Enqueue, Row, Statuses, handleVars, budgetVars, Shape, RunShape
<1>2. ASSUME NEW j \in Jobs, Elapse(j) PROVE TypeOK' /\ Shape'
  BY <1>2 DEF TypeOK, Elapse, Row, handleVars, budgetVars, Shape, RunShape
<1>3. ASSUME NEW r \in Runs, NEW mode \in Modes, NEW via \in Vias, Claim(r, mode, via)
      PROVE  TypeOK' /\ Shape'
  <2>1. Batch \in SUBSET Jobs
    BY DEF Batch
  <2>2. row' \in [Jobs -> Row]
    BY <1>3, <2>1, ClaimedFacts DEF Claim, TypeOK
  <2>3. run' \in [Runs -> Run]
    BY <1>3, <2>1 DEF Claim, TypeOK, Run, Points
  <2>4. Shape'
    BY <1>3, <2>3 DEF Claim, TypeOK, Shape, RunShape
  <2> QED BY <1>3, <2>2, <2>3, <2>4 DEF Claim, TypeOK, handleVars
<1>4. ASSUME NEW r \in Runs, TakeJob(r) PROVE TypeOK' /\ Shape'
  <2>1. ASSUME NEW j \in run[r].todo,
               run' = [run EXCEPT ![r].pc = "check", ![r].cur = j, ![r].todo = @ \ {j}]
        PROVE  run' \in [Runs -> Run] /\ Shape'
    <3>1. run' \in [Runs -> Run]
      BY <2>1 DEF TypeOK, Run, Points
    <3>2. run'[r].pc = "check" /\ run'[r].cur = j /\ run'[r].todo = run[r].todo \ {j}
      BY <2>1 DEF TypeOK, Run
    <3>3. RunShape(run'[r])
      BY <3>1, <3>2 DEF RunShape, TypeOK, Run
    <3> QED BY <2>1, <3>1, <3>3, OneRunMoves DEF TypeOK
  <2>2. run' \in [Runs -> Run] /\ Shape'
    BY <1>4, <2>1, LeaveShape DEF TakeJob
  <2> QED BY <1>4, <2>2 DEF TakeJob, TypeOK, handleVars, budgetVars
<1>5. ASSUME NEW r \in Runs, CheckProcessed(r) PROVE TypeOK' /\ Shape'
  <2>1. Job(r) \in Jobs /\ Job(r) \notin run[r].todo
    BY <1>5, Working DEF CheckProcessed, At
  <2>2. run' = Goto(r, AfterCheck(r)) => run' \in [Runs -> Run] /\ Shape'
    <3>1. /\ AfterCheck(r) \in Points \ {"idle", "next"}
          /\ AfterCheck(r) \in {"mark_processed", "mark_completed", "mark_failed", "skip_completed"}
                => run[r].mode = "production"
          /\ AfterCheck(r) = "release" => run[r].mode # "production"
      BY DEF AfterCheck, Points
    <3> QED BY <2>1, <3>1, GotoShape
  <2>3. run' \in [Runs -> Run] /\ Shape'
    BY <1>5, <2>2, LeaveShape DEF CheckProcessed
  <2> QED BY <1>5, <2>3 DEF CheckProcessed, TypeOK, handleVars, budgetVars
<1>6. ASSUME NEW r \in Runs, DispatchToEndpoint(r) \/ DispatchInternally(r)
      PROVE  TypeOK' /\ Shape'
  <2>1. Job(r) \in Jobs /\ Job(r) \notin run[r].todo
    BY <1>6, Working DEF DispatchToEndpoint, DispatchInternally, At
  <2>2. tries' \in [Jobs -> Nat]
    BY <1>6, <2>1 DEF DispatchToEndpoint, DispatchInternally, Tried, TypeOK
  <2>3. run' = Goto(r, Dispatched(r)) \/ run' = Goto(r, Caught(r))
          => run' \in [Runs -> Run] /\ Shape'
    BY <2>1, GotoShape DEF Dispatched, Caught, Points
  <2>4. CASE DispatchToEndpoint(r)
    BY <2>1, <2>2, <2>3, <2>4 DEF DispatchToEndpoint, TypeOK, budgetVars
  <2>5. CASE DispatchInternally(r)
    <3>1. Kind[Job(r)] \in Kinds
      BY <2>1
    <3>2. run' = Goto(r, Caught(r)) \/ run' = Goto(r, "effect") \/ run' = Goto(r, "effect_check")
      BY <2>5, <3>1 DEF DispatchInternally, Kinds
    <3>3. run' \in [Runs -> Run] /\ Shape'
      BY <2>1, <2>3, <3>2, GotoShape DEF Points
    <3> QED BY <2>2, <2>5, <3>3 DEF DispatchInternally, TypeOK, handleVars, budgetVars
  <2> QED BY <1>6, <2>4, <2>5
<1>7. ASSUME NEW r \in Runs, CheckEffect(r) PROVE TypeOK' /\ Shape'
  <2>1. Job(r) \in Jobs /\ Job(r) \notin run[r].todo
    BY <1>7, Working DEF CheckEffect, At
  <2>2. \E p \in {"ledger", "sync", Caught(r)} : run' = Goto(r, p)
    BY <1>7 DEF CheckEffect
  <2>3. run' \in [Runs -> Run] /\ Shape'
    BY <2>1, <2>2, GotoShape DEF Caught, Points
  <2> QED BY <1>7, <2>3 DEF CheckEffect, TypeOK, handleVars, budgetVars
<1>8. ASSUME NEW r \in Runs, SyncRanking(r) \/ PersistEffect(r) \/ PersistDispatch(r)
      PROVE  TypeOK' /\ Shape'
  <2>1. Job(r) \in Jobs /\ Job(r) \notin run[r].todo
    BY <1>8, Working DEF SyncRanking, PersistEffect, PersistDispatch, At
  <2>2. \A p \in {Dispatched(r), Caught(r), "effect", "ledger"} :
          run' = Goto(r, p) => run' \in [Runs -> Run] /\ Shape'
    BY <2>1, GotoShape DEF Dispatched, Caught, Points
  <2>3. CASE SyncRanking(r)
    BY <2>1, <2>2, <2>3 DEF SyncRanking, TypeOK, budgetVars
  <2>4. CASE PersistEffect(r)
    <3>1. run' \in [Runs -> Run] /\ Shape'
      BY <2>2, <2>4 DEF PersistEffect
    <3>2. faults' \in 0..MaxFaults /\ effects' \subseteq Jobs
      BY <2>1, <2>4 DEF PersistEffect, TypeOK
    <3> QED BY <2>4, <3>1, <3>2 DEF PersistEffect, TypeOK, budgetVars
  <2>5. CASE PersistDispatch(r)
    <3>1. run' \in [Runs -> Run] /\ Shape'
      BY <2>2, <2>5 DEF PersistDispatch
    <3>2. faults' \in 0..MaxFaults /\ ledger' \subseteq Jobs
      BY <2>1, <2>5 DEF PersistDispatch, TypeOK
    <3> QED BY <2>5, <3>1, <3>2 DEF PersistDispatch, TypeOK, budgetVars
  <2> QED BY <1>8, <2>3, <2>4, <2>5
<1>9. ASSUME NEW r \in Runs,
             MarkProcessed(r) \/ MarkCompleted(r) \/ MarkFailed(r) \/ ReleaseClaim(r)
      PROVE  TypeOK' /\ Shape'
  <2>1. Job(r) \in Jobs /\ Job(r) \notin run[r].todo
    BY <1>9, Working DEF MarkProcessed, MarkCompleted, MarkFailed, ReleaseClaim, At
  <2>2. run[r].pc # "release" => run[r].mode = "production"
    BY <1>9 DEF MarkProcessed, MarkCompleted, MarkFailed, ReleaseClaim, At, Shape, RunShape
  <2>3. run[r].pc # "release" => \A p \in {"mark_completed", "mark_failed"} :
          run' = Goto(r, p) => run' \in [Runs -> Run] /\ Shape'
    BY <2>1, <2>2, GotoShape DEF Points
  <2>4. \A new, ok, err : Update(new, ok, err)
          => /\ row' = row \/ row' = new
             /\ run' = ok \/ run' = err
             /\ faults' \in 0..MaxFaults
    BY DEF Update, TypeOK
  <2>5. run' \in [Runs -> Run] /\ Shape' /\ faults' \in 0..MaxFaults
    BY <1>9, <2>3, <2>4, LeaveShape
       DEF MarkProcessed, MarkCompleted, MarkFailed, ReleaseClaim, At
  <2>6. row' \in [Jobs -> Row]
    <3>1. /\ CompletedRow(Job(r)) \in [Jobs -> Row]
          /\ ReleasedRow(Job(r)) \in [Jobs -> Row]
          /\ \A due \in BOOLEAN : FailedRow(Job(r), due) \in [Jobs -> Row]
      BY <2>1, RowFacts DEF TypeOK
    <3> QED BY <1>9, <2>4, <3>1
          DEF MarkProcessed, MarkCompleted, MarkFailed, ReleaseClaim, TypeOK
  <2> QED BY <1>9, <2>5, <2>6
        DEF MarkProcessed, MarkCompleted, MarkFailed, ReleaseClaim, TypeOK, handleVars, budgetVars
<1>10. ASSUME NEW r \in Runs, Crash(r) PROVE TypeOK' /\ Shape'
  BY <1>10, LeaveShape DEF Crash, TypeOK, handleVars
<1>11. ASSUME NEW batch \in SUBSET Jobs, Requeue(batch) PROVE TypeOK' /\ Shape'
  BY <1>11 DEF Requeue, TypeOK, Row, Statuses, handleVars, Shape, RunShape
<1> QED
  BY <1>0, <1>1, <1>2, <1>3, <1>4, <1>5, <1>6, <1>7, <1>8, <1>9, <1>10, <1>11 DEF Next, Step

\* Every reachable state is well typed (the invariant TypeOK of the runs).
THEOREM TypeCorrect == Spec => []TypeOK
<1>1. Init => TypeOK /\ Shape
  BY ShapeInit
<1>2. TypeOK /\ Shape /\ [Next]_vars => TypeOK' /\ Shape'
  BY TypeStep
<1> QED BY <1>1, <1>2, PTL DEF Spec

(***************************************************************************)
(* Claims are exclusive.  The invariant says what the row of a held job    *)
(* may be: 'processing', or 'completed' between markProcessed and the      *)
(* statement that ends the job.  A claim takes 'pending' and 'failed' rows *)
(* only, so it takes nothing a live run holds.                             *)
(***************************************************************************)
HeldRow(r, j) ==
  \/ row[j].status = "processing"
  \/ /\ row[j].status = "completed"
     /\ j = Job(r)
     /\ run[r].pc \in {"mark_completed", "mark_failed"}

Owned ==
  /\ \A r \in Runs : \A j \in Holds(r) : HeldRow(r, j)
  /\ \A r, s \in Runs : r # s => Holds(r) \cap Holds(s) = {}
  /\ \A r \in Runs : run[r].pc # "skip_completed"

LEMMA HoldsJobs ==
  ASSUME TypeOK, NEW r \in Runs
  PROVE  Holds(r) \subseteq Jobs
BY DEF TypeOK, Run, Holds, Job

\* The job in hand belongs to nobody else.
LEMMA OwnJob ==
  ASSUME TypeOK, Shape, Owned, NEW r \in Runs, run[r].pc \notin {"idle", "next"}
  PROVE  /\ Job(r) \in Jobs /\ Job(r) \in Holds(r) /\ Job(r) \notin run[r].todo
         /\ \A s \in Runs : s # r => Job(r) \notin Holds(s)
<1>1. Job(r) \in Jobs /\ Job(r) \notin run[r].todo
  BY Working
<1>2. Job(r) \in Holds(r)
  BY <1>1 DEF Holds, NoJob, Jobs
<1> QED BY <1>1, <1>2 DEF Owned

\* Moving on inside the loop body keeps every claim, if the row stays as the new
\* point needs it.
LEMMA GotoOwned ==
  ASSUME TypeOK, Shape, Owned, NEW r \in Runs, run[r].pc \notin {"idle", "next"},
         NEW p \in Points \ {"skip_completed"}, run' = Goto(r, p),
         \A j \in Jobs : j # Job(r) => row'[j].status = row[j].status,
         \/ row'[Job(r)].status = "processing"
         \/ row'[Job(r)].status = "completed" /\ p \in {"mark_completed", "mark_failed"}
  PROVE  Owned'
<1>1. run \in [Runs -> Run]
  BY DEF TypeOK
<1>2. /\ run'[r].pc = p /\ run'[r].cur = run[r].cur /\ run'[r].todo = run[r].todo
      /\ \A s \in Runs : s # r => run'[s] = run[s]
  BY <1>1, GotoFacts
<1>3. \A s \in Runs : Holds(s)' = Holds(s)
  BY <1>2 DEF Holds, Job
<1>4. ASSUME NEW s \in Runs, NEW j \in Holds(s) PROVE HeldRow(s, j)'
  <2>1. j \in Jobs
    BY HoldsJobs
  <2>2. CASE j = Job(r)
    <3>1. s = r
      BY <2>2, OwnJob
    <3> QED BY <1>2, <2>2, <3>1 DEF HeldRow, Job
  <2>3. CASE j # Job(r)
    <3>1. HeldRow(s, j)
      BY DEF Owned
    <3> QED BY <1>2, <2>1, <2>3, <3>1 DEF HeldRow, Job
  <2> QED BY <2>2, <2>3
<1>5. \A s \in Runs : run'[s].pc # "skip_completed"
  BY <1>2 DEF Owned
<1> QED BY <1>3, <1>4, <1>5 DEF Owned

\* Ending a job, or a run, gives claims up and leaves those of the others alone.
LEMMA LeaveOwned ==
  ASSUME TypeOK, Shape, Owned, NEW r \in Runs, run' = NextJob(r) \/ run' = Abort(r),
         \A j \in Jobs : j # Job(r) => row'[j].status = row[j].status
  PROVE  Owned'
<1>1. run \in [Runs -> Run]
  BY DEF TypeOK
<1>2. /\ run'[r].pc \in {"idle", "next"} /\ run'[r].cur = NoJob
      /\ run'[r].todo \subseteq run[r].todo
      /\ \A s \in Runs : s # r => run'[s] = run[s]
  BY <1>1, NextJobFacts, AbortFacts DEF NoRun
<1>3. \A s \in Runs : Holds(s)' \subseteq Holds(s) /\ (s # r => Holds(s)' = Holds(s))
  BY <1>2 DEF Holds, Job
<1>4. Job(r) \notin Holds(r)'
  <2>1. Job(r) \notin run[r].todo
    <3>1. CASE run[r].pc \in {"idle", "next"}
      BY <1>1, <3>1 DEF Shape, RunShape, Job, NoRun, NoJob, Jobs, Run
    <3> QED BY <3>1, Working
  <2> QED BY <1>2, <2>1 DEF Holds, Job
<1>5. ASSUME NEW s \in Runs, NEW j \in Holds(s)' PROVE HeldRow(s, j)'
  <2>1. j \in Jobs /\ j \in Holds(s) /\ HeldRow(s, j)
    BY <1>3, HoldsJobs DEF Owned
  <2>2. j # Job(r)
    <3>1. CASE run[r].pc \in {"idle", "next"}
      BY <1>1, <2>1, <3>1 DEF Shape, RunShape, Job, NoRun, NoJob, Jobs
    <3>2. CASE run[r].pc \notin {"idle", "next"}
      BY <1>4, <2>1, <3>2, OwnJob
    <3> QED BY <3>1, <3>2
  <2>3. CASE s = r
    <3>1. j # Job(s)
      BY <2>2, <2>3
    <3> QED BY <2>1, <2>2, <3>1 DEF HeldRow
  <2>4. CASE s # r
    BY <1>2, <2>1, <2>2, <2>4 DEF HeldRow, Job
  <2> QED BY <2>3, <2>4
<1>6. \A s \in Runs : run'[s].pc # "skip_completed"
  BY <1>2 DEF Owned
<1>7. \A s, t \in Runs : s # t => Holds(s)' \cap Holds(t)' = {}
  BY <1>3 DEF Owned
<1> QED BY <1>5, <1>6, <1>7 DEF Owned

\* What one UPDATE of the outcome does to the statuses.
LEMMA UpdateFacts ==
  ASSUME TypeOK, NEW j \in Jobs, NEW due \in BOOLEAN, NEW ok, NEW err,
         NEW new \in {CompletedRow(j), FailedRow(j, due), ReleasedRow(j)},
         Update(new, ok, err)
  PROVE  /\ row' = row \/ row' = new
         /\ run' = ok \/ run' = err
         /\ \A i \in Jobs : i # j => row'[i] = row[i]
<1>1. (row' = row \/ row' = new) /\ (run' = ok \/ run' = err)
  BY DEF Update
<1>2. \A i \in Jobs : i # j => new[i] = row[i]
  BY RowFacts, OutboxAssumption DEF TypeOK
<1> QED BY <1>1, <1>2

LEMMA OwnedStep == TypeOK /\ Shape /\ Owned /\ [Next]_vars => Owned'
<1> SUFFICES ASSUME TypeOK, Shape, Owned, [Next]_vars PROVE Owned'
  OBVIOUS
<1>0. ASSUME UNCHANGED vars PROVE Owned'
  BY <1>0 DEF Owned, vars, HeldRow, Holds, Job
<1>1. ASSUME run' = run, \A r \in Runs : \A j \in Holds(r) : row'[j].status = row[j].status
      PROVE  Owned'
  BY <1>1 DEF Owned, HeldRow, Holds, Job
<1>2. ASSUME NEW j \in Jobs, Enqueue(j) \/ Elapse(j) PROVE Owned'
  <2>1. run' = run
    BY <1>2 DEF Enqueue, Elapse
  <2>2. \A i \in Jobs : row'[i].status # row[i].status => row[i].status = "absent"
    BY <1>2 DEF Enqueue, Elapse, TypeOK, Row
  <2> QED BY <1>1, <2>1, <2>2, HoldsJobs DEF Owned, HeldRow
<1>3. ASSUME NEW r \in Runs, NEW mode \in Modes, NEW via \in Vias, Claim(r, mode, via)
      PROVE  Owned'
  <2>1. /\ Batch \in SUBSET Jobs
        /\ \A j \in Batch : row[j].status \in {"pending", "failed"}
    BY DEF Batch, Claimable
  <2>2. \A s \in Runs : Holds(s) \cap Batch = {}
    BY <2>1 DEF Owned, HeldRow
  <2>3. row' = Claimed(Batch)
    BY <1>3 DEF Claim
  <2>4. /\ \A j \in Batch : row'[j].status = "processing"
        /\ \A j \in Jobs \ Batch : row'[j] = row[j]
    BY <2>1, <2>3, ClaimedFacts DEF TypeOK
  <2>5. CASE run' = run
    BY <1>1, <2>2, <2>4, <2>5, HoldsJobs
  <2>6. CASE run' = [run EXCEPT ![r] = [pc |-> "next", mode |-> mode, via |-> via,
                                        todo |-> Batch, cur |-> NoJob]]
    <3>1. /\ run'[r].todo = Batch /\ run'[r].cur = NoJob /\ run'[r].pc = "next"
          /\ \A s \in Runs : s # r => run'[s] = run[s]
      BY <2>6 DEF TypeOK
    <3>2. Holds(r)' = Batch /\ \A s \in Runs : s # r => Holds(s)' = Holds(s)
      BY <3>1 DEF Holds, Job
    <3>3. ASSUME NEW s \in Runs, NEW j \in Holds(s)' PROVE HeldRow(s, j)'
      <4>1. CASE s = r
        BY <2>4, <3>2, <4>1 DEF HeldRow
      <4>2. CASE s # r
        <5>1. j \in Jobs \ Batch /\ HeldRow(s, j)
          BY <2>2, <3>2, <4>2, HoldsJobs DEF Owned
        <5> QED BY <2>4, <3>1, <4>2, <5>1 DEF HeldRow, Job
      <4> QED BY <4>1, <4>2
    <3>4. \A s, t \in Runs : s # t => Holds(s)' \cap Holds(t)' = {}
      BY <2>2, <3>2 DEF Owned
    <3> QED BY <3>1, <3>3, <3>4 DEF Owned
  <2> QED BY <1>3, <2>5, <2>6 DEF Claim
<1>4. ASSUME NEW r \in Runs, TakeJob(r) PROVE Owned'
  <2>1. row' = row
    BY <1>4 DEF TakeJob
  <2>2. CASE run' = Abort(r)
    BY <2>1, <2>2, LeaveOwned
  <2>3. ASSUME NEW j \in run[r].todo,
               run' = [run EXCEPT ![r].pc = "check", ![r].cur = j, ![r].todo = @ \ {j}]
        PROVE  Owned'
    <3>1. /\ run'[r].pc = "check" /\ run'[r].cur = j /\ run'[r].todo = run[r].todo \ {j}
          /\ \A s \in Runs : s # r => run'[s] = run[s]
      BY <2>3 DEF TypeOK, Run
    <3>2. run[r].cur = NoJob /\ j # NoJob
      <4>1. run[r].cur = NoJob
        BY <1>4 DEF TakeJob, At, Shape, RunShape
      <4>2. j \in Jobs
        BY <2>3 DEF TypeOK, Run
      <4> QED BY <4>1, <4>2 DEF Jobs, NoJob
    <3>3. \A s \in Runs : Holds(s)' = Holds(s)
      BY <3>1, <3>2 DEF Holds, Job
    <3>4. ASSUME NEW s \in Runs, NEW i \in Holds(s) PROVE HeldRow(s, i)'
      <4>1. HeldRow(s, i)
        BY DEF Owned
      <4>2. CASE s = r
        BY <1>4, <2>1, <4>1, <4>2 DEF HeldRow, TakeJob, At
      <4>3. CASE s # r
        BY <2>1, <3>1, <4>1, <4>3 DEF HeldRow, Job
      <4> QED BY <4>2, <4>3
    <3> QED BY <3>1, <3>3, <3>4 DEF Owned
  <2> QED BY <1>4, <2>2, <2>3 DEF TakeJob
<1>5. ASSUME NEW r \in Runs, row' = row, run[r].pc \notin {"idle", "next"},
             NEW p \in Points \ {"skip_completed"}, run' = Goto(r, p),
             run[r].pc \notin {"mark_completed", "mark_failed"}
      PROVE  Owned'
  <2>1. row[Job(r)].status = "processing"
    BY <1>5, OwnJob DEF Owned, HeldRow
  <2> QED BY <1>5, <2>1, GotoOwned
<1>6. ASSUME NEW r \in Runs, CheckProcessed(r) PROVE Owned'
  <2>1. row' = row /\ run[r].pc = "check"
    BY <1>6 DEF CheckProcessed, At
  <2>2. row[Job(r)].status = "processing"
    BY <2>1, OwnJob DEF Owned, HeldRow
  <2>3. AfterCheck(r) \in Points \ {"skip_completed"}
    BY <2>2 DEF AfterCheck, Processed, Points
  <2> QED BY <1>5, <1>6, <2>1, <2>3, LeaveOwned DEF CheckProcessed
<1>7. ASSUME NEW r \in Runs, DispatchToEndpoint(r) \/ DispatchInternally(r) PROVE Owned'
  <2>1. row' = row /\ run[r].pc = "dispatch"
    BY <1>7 DEF DispatchToEndpoint, DispatchInternally, At
  <2>2. Kind[Job(r)] \in Kinds
    BY <2>1, OwnJob, OutboxAssumption
  <2>3. \E p \in {Dispatched(r), Caught(r), "effect", "effect_check"} : run' = Goto(r, p)
    BY <1>7, <2>2 DEF DispatchToEndpoint, DispatchInternally, Kinds
  <2> QED BY <1>5, <2>1, <2>3 DEF Dispatched, Caught, Points
<1>8. ASSUME NEW r \in Runs,
             CheckEffect(r) \/ SyncRanking(r) \/ PersistEffect(r) \/ PersistDispatch(r)
      PROVE  Owned'
  <2>1. row' = row /\ run[r].pc \in {"effect_check", "sync", "effect", "ledger"}
    BY <1>8 DEF CheckEffect, SyncRanking, PersistEffect, PersistDispatch, At
  <2>2. \E p \in {Dispatched(r), Caught(r), "sync", "effect", "ledger"} : run' = Goto(r, p)
    BY <1>8 DEF CheckEffect, SyncRanking, PersistEffect, PersistDispatch
  <2> QED BY <1>5, <2>1, <2>2 DEF Dispatched, Caught, Points
<1>9. ASSUME NEW r \in Runs, MarkProcessed(r) PROVE Owned'
  <2>1. run[r].pc = "mark_processed" /\ Job(r) \in Jobs
    BY <1>9, OwnJob DEF MarkProcessed, At
  <2>2. row[Job(r)].status = "processing"
    BY <2>1, OwnJob DEF Owned, HeldRow
  <2>3. /\ row' = row \/ row' = CompletedRow(Job(r))
        /\ run' = Goto(r, "mark_completed") \/ run' = Goto(r, "mark_failed")
        /\ \A i \in Jobs : i # Job(r) => row'[i] = row[i]
    BY <1>9, <2>1, UpdateFacts DEF MarkProcessed
  <2>4. row'[Job(r)].status \in {"processing", "completed"}
    BY <2>1, <2>2, <2>3, RowFacts, OutboxAssumption DEF TypeOK
  <2> QED BY <2>1, <2>3, <2>4, GotoOwned DEF Points
<1>10. ASSUME NEW r \in Runs, MarkCompleted(r) PROVE Owned'
  <2>1. run[r].pc = "mark_completed" /\ Job(r) \in Jobs
    BY <1>10, OwnJob DEF MarkCompleted, Owned
  <2>2. row[Job(r)].status \in {"processing", "completed"}
    BY <2>1, OwnJob DEF Owned, HeldRow
  <2>3. /\ row' = row \/ row' = CompletedRow(Job(r))
        /\ run' = NextJob(r) \/ run' = Goto(r, "mark_failed")
        /\ \A i \in Jobs : i # Job(r) => row'[i] = row[i]
    BY <1>10, <2>1, UpdateFacts DEF MarkCompleted, At
  <2>4. row'[Job(r)].status \in {"processing", "completed"}
    BY <2>1, <2>2, <2>3, RowFacts, OutboxAssumption DEF TypeOK
  <2> QED BY <2>1, <2>3, <2>4, GotoOwned, LeaveOwned DEF Points
<1>11. ASSUME NEW r \in Runs, MarkFailed(r) \/ ReleaseClaim(r) PROVE Owned'
  <2>1. run[r].pc \in {"mark_failed", "release"} /\ Job(r) \in Jobs
    BY <1>11, OwnJob DEF MarkFailed, ReleaseClaim, At
  <2>2. /\ run' = NextJob(r) \/ run' = Abort(r)
        /\ \A i \in Jobs : i # Job(r) => row'[i] = row[i]
    BY <1>11, <2>1, UpdateFacts DEF MarkFailed, ReleaseClaim
  <2> QED BY <2>2, LeaveOwned
<1>12. ASSUME NEW r \in Runs, Crash(r) PROVE Owned'
  BY <1>12, LeaveOwned DEF Crash
<1>13. ASSUME NEW batch \in SUBSET Jobs, Requeue(batch) PROVE Owned'
  <2>1. run' = run /\ \A i \in Jobs : row'[i] # row[i] => row[i].status = "dead_letter"
    BY <1>13 DEF Requeue, TypeOK
  <2> QED BY <1>1, <2>1, HoldsJobs DEF Owned, HeldRow
<1> QED
  BY <1>0, <1>2, <1>3, <1>4, <1>6, <1>7, <1>8, <1>9, <1>10, <1>11, <1>12, <1>13 DEF Next, Step

LEMMA OwnedInit == Init => Owned
BY DEF Init, Owned, Holds, Job, NoRun, HeldRow

\* No two live runs work on the same job, and a held row is 'processing' until its
\* outcome is written (the invariant ClaimExclusive of the runs), for any number of
\* processor runs, crashes and failing statements.
THEOREM ClaimsAreExclusive == Spec => []ClaimExclusive
<1>1. Init => TypeOK /\ Shape /\ Owned
  BY ShapeInit, OwnedInit
<1>2. TypeOK /\ Shape /\ Owned /\ [Next]_vars => TypeOK' /\ Shape' /\ Owned'
  BY TypeStep, OwnedStep
<1>3. Owned => ClaimExclusive
  BY DEF Owned, ClaimExclusive, HeldRow
<1> QED BY <1>1, <1>2, <1>3, PTL DEF Spec

(***************************************************************************)
(* The retry budget.  attempt_count is raised by the claim and lowered     *)
(* only by a run that has not dispatched the job in production: while such *)
(* a dispatch is still ahead, one attempt is in reserve.                   *)
(***************************************************************************)
Reserved(r, j) ==
  j \in run[r].todo \/ run[r].pc \in {"check", "dispatch"} \/ run[r].mode # "production"

Budget ==
  /\ \A j \in Jobs :
       /\ row[j].attempts <= MaxAttempts
       /\ tries[j] <= row[j].attempts
       /\ row[j].status \in {"pending", "failed"} => row[j].attempts < MaxAttempts
       /\ row[j].status = "absent" => row[j].attempts = 0
  /\ \A r \in Runs : \A j \in Holds(r) : Reserved(r, j) => tries[j] < row[j].attempts

\* A step of a run that changes at most the row of its own job, and leaves it no
\* reserve it had not.
LEMMA BudgetKept ==
  ASSUME TypeOK, Shape, Owned, Budget, NEW r \in Runs, NEW k, k = Job(r),
         \A j \in Jobs : j # k => row'[j] = row[j] /\ tries'[j] = tries[j],
         \A s \in Runs : s # r => run'[s] = run[s],
         \A j \in Holds(r)' : j \in Holds(r) /\ (j # k /\ Reserved(r, j)' => Reserved(r, j)),
         k \in Jobs =>
           /\ row'[k].attempts <= MaxAttempts
           /\ tries'[k] <= row'[k].attempts
           /\ row'[k].status \in {"pending", "failed"} => row'[k].attempts < MaxAttempts
           /\ row'[k].status # "absent"
           /\ k \in Holds(r)' /\ Reserved(r, k)' => tries'[k] < row'[k].attempts
  PROVE  Budget'
<1>1. ASSUME NEW s \in Runs, NEW j \in Holds(s)', Reserved(s, j)'
      PROVE  tries'[j] < row'[j].attempts
  <2>1. CASE s = r /\ j = k
    <3>1. k \in Holds(r)' /\ Reserved(r, k)'
      BY <1>1, <2>1
    <3>2. k \in Jobs
      BY <3>1, HoldsJobs
    <3> QED BY <2>1, <3>1, <3>2
  <2>2. CASE s = r /\ j # k
    BY <1>1, <2>2, HoldsJobs DEF Budget
  <2>3. CASE s # r
    <3>1. Holds(s)' = Holds(s) /\ Reserved(s, j)
      BY <1>1, <2>3 DEF Holds, Job, Reserved
    <3>2. j \in Jobs /\ j \in Holds(s)
      BY <3>1, HoldsJobs
    <3>3. j # k
      <4>1. CASE run[r].pc \in {"idle", "next"}
        BY <3>2, <4>1 DEF Shape, RunShape, Job, NoRun, NoJob, Jobs
      <4> QED BY <2>3, <3>2, <4>1, OwnJob
    <3> QED BY <3>1, <3>2, <3>3 DEF Budget
  <2> QED BY <2>1, <2>2, <2>3
<1>2. ASSUME NEW j \in Jobs
      PROVE  /\ row'[j].attempts <= MaxAttempts
             /\ tries'[j] <= row'[j].attempts
             /\ row'[j].status \in {"pending", "failed"} => row'[j].attempts < MaxAttempts
             /\ row'[j].status = "absent" => row'[j].attempts = 0
  BY <1>2 DEF Budget
<1> QED BY <1>1, <1>2 DEF Budget

LEMMA GotoBudget ==
  ASSUME TypeOK, Shape, Owned, Budget, NEW r \in Runs, run[r].pc \notin {"idle", "next"},
         NEW p \in Points \ {"check"}, p = "dispatch" => run[r].pc = "check",
         run' = Goto(r, p), tries' = tries,
         NEW k, k = Job(r),
         \A j \in Jobs : j # k => row'[j] = row[j],
         row'[k].attempts = row[k].attempts,
         row'[k].status \in {row[k].status, "completed"}
  PROVE  Budget'
<1>1. /\ run'[r].pc = p /\ run'[r].cur = run[r].cur /\ run'[r].todo = run[r].todo
      /\ run'[r].mode = run[r].mode /\ \A s \in Runs : s # r => run'[s] = run[s]
  BY GotoFacts DEF TypeOK
<1>2. Holds(r)' = Holds(r)
  BY <1>1 DEF Holds, Job
<1>3. \A j : Reserved(r, j)' => Reserved(r, j)
  BY <1>1 DEF Reserved
<1>4. k \in Jobs /\ k \in Holds(r)
  BY OwnJob
<1>5. row[k].status # "absent"
  BY <1>4 DEF Owned, HeldRow
<1>6. /\ row'[k].attempts <= MaxAttempts
      /\ tries'[k] <= row'[k].attempts
      /\ row'[k].status \in {"pending", "failed"} => row'[k].attempts < MaxAttempts
      /\ row'[k].status # "absent"
      /\ k \in Holds(r)' /\ Reserved(r, k)' => tries'[k] < row'[k].attempts
  BY <1>3, <1>4, <1>5 DEF Budget
<1> QED BY <1>1, <1>2, <1>3, <1>6, BudgetKept

LEMMA LeaveBudget ==
  ASSUME TypeOK, Shape, Owned, Budget, NEW r \in Runs,
         run' = NextJob(r) \/ run' = Abort(r), tries' = tries,
         NEW k, k = Job(r),
         \A j \in Jobs : j # k => row'[j] = row[j],
         k \in Jobs =>
           /\ row'[k].attempts <= MaxAttempts
           /\ tries[k] <= row'[k].attempts
           /\ row'[k].status \in {"pending", "failed"} => row'[k].attempts < MaxAttempts
           /\ row'[k].status # "absent"
  PROVE  Budget'
<1>1. /\ run'[r].cur = NoJob /\ run'[r].todo \subseteq run[r].todo
      /\ \A s \in Runs : s # r => run'[s] = run[s]
  BY NextJobFacts, AbortFacts DEF NoRun, TypeOK
<1>2. Holds(r)' \subseteq run[r].todo
  BY <1>1 DEF Holds, Job
<1>3. \A j \in Holds(r)' : j \in Holds(r) /\ Reserved(r, j)
  BY <1>2 DEF Holds, Reserved
<1>4. k \notin Holds(r)'
  <2>1. CASE run[r].pc \in {"idle", "next"}
    <3>1. k = NoJob
      BY <2>1 DEF Shape, RunShape, Job, NoRun
    <3> QED BY <1>3, <3>1, HoldsJobs DEF NoJob, Jobs
  <2>2. CASE run[r].pc \notin {"idle", "next"}
    BY <1>2, <2>2, OwnJob
  <2> QED BY <2>1, <2>2
<1> QED BY <1>1, <1>3, <1>4, BudgetKept

LEMMA BudgetStep == TypeOK /\ Shape /\ Owned /\ Budget /\ [Next]_vars => Budget'
<1> SUFFICES ASSUME TypeOK, Shape, Owned, Budget, [Next]_vars PROVE Budget'
  OBVIOUS
<1>0. ASSUME UNCHANGED vars PROVE Budget'
  BY <1>0 DEF Budget, vars, Reserved, Holds, Job
<1>1. ASSUME NEW j \in Jobs, Enqueue(j) PROVE Budget'
  <2>1. run' = run /\ tries' = tries /\ row[j].status = "absent"
    BY <1>1 DEF Enqueue
  <2>2. /\ row'[j].status = "pending" /\ row'[j].attempts = 0
        /\ \A i \in Jobs : i # j => row'[i] = row[i]
    BY <1>1 DEF Enqueue, TypeOK
  <2>3. \A r \in Runs : j \notin Holds(r)
    BY <2>1 DEF Owned, HeldRow
  <2>4. \A r \in Runs : Holds(r)' = Holds(r) /\ \A i : Reserved(r, i)' = Reserved(r, i)
    BY <2>1 DEF Holds, Job, Reserved
  <2> QED BY <2>1, <2>2, <2>3, <2>4, HoldsJobs, OutboxAssumption DEF Budget
<1>2. ASSUME NEW j \in Jobs, Elapse(j) PROVE Budget'
  <2>1. run' = run /\ tries' = tries
    BY <1>2 DEF Elapse
  <2>2. \A i \in Jobs : row'[i].status = row[i].status /\ row'[i].attempts = row[i].attempts
    BY <1>2 DEF Elapse, TypeOK, Row
  <2>3. \A r \in Runs : Holds(r)' = Holds(r) /\ \A i : Reserved(r, i)' = Reserved(r, i)
    BY <2>1 DEF Holds, Job, Reserved
  <2> QED BY <2>1, <2>2, <2>3, HoldsJobs DEF Budget
<1>3. ASSUME NEW r \in Runs, NEW mode \in Modes, NEW via \in Vias, Claim(r, mode, via)
      PROVE  Budget'
  <2>1. /\ Batch \in SUBSET Jobs
        /\ \A j \in Batch : row[j].status \in {"pending", "failed"}
    BY DEF Batch, Claimable
  <2>2. \A s \in Runs : Holds(s) \cap Batch = {}
    BY <2>1 DEF Owned, HeldRow
  <2>3. row' = Claimed(Batch) /\ tries' = tries
    BY <1>3 DEF Claim
  <2>4. /\ \A j \in Batch : row'[j].status = "processing" /\ row'[j].attempts = row[j].attempts + 1
        /\ \A j \in Jobs \ Batch : row'[j] = row[j]
    BY <2>1, <2>3, ClaimedFacts DEF TypeOK
  <2>5. \A j \in Jobs : row[j].attempts \in Nat /\ tries[j] \in Nat
    BY DEF TypeOK, Row
  <2>6. \A j \in Batch : row'[j].attempts <= MaxAttempts /\ tries[j] < row'[j].attempts
    BY <2>1, <2>4, <2>5, OutboxAssumption DEF Budget
  <2>7. \A j \in Jobs :
          /\ row'[j].attempts <= MaxAttempts
          /\ tries'[j] <= row'[j].attempts
          /\ row'[j].status \in {"pending", "failed"} => row'[j].attempts < MaxAttempts
          /\ row'[j].status = "absent" => row'[j].attempts = 0
    <3> SUFFICES ASSUME NEW j \in Jobs
                 PROVE  /\ row'[j].attempts <= MaxAttempts
                        /\ tries[j] <= row'[j].attempts
                        /\ row'[j].status \in {"pending", "failed"} => row'[j].attempts < MaxAttempts
                        /\ row'[j].status = "absent" => row'[j].attempts = 0
      BY <2>3
    <3>1. CASE j \in Batch
      BY <2>4, <2>5, <2>6, <3>1
    <3>2. CASE j \notin Batch
      BY <2>4, <3>2 DEF Budget
    <3> QED BY <3>1, <3>2
  <2>8. \A s \in Runs : \A j \in Holds(s)' : Reserved(s, j)' =>
          j \in Batch \/ (j \in Holds(s) /\ Reserved(s, j))
    <3>1. CASE run' = run
      BY <3>1 DEF Holds, Job, Reserved
    <3>2. CASE run' = [run EXCEPT ![r] = [pc |-> "next", mode |-> mode, via |-> via,
                                          todo |-> Batch, cur |-> NoJob]]
      <4>1. /\ run'[r].todo = Batch /\ run'[r].cur = NoJob
            /\ \A s \in Runs : s # r => run'[s] = run[s]
        BY <3>2 DEF TypeOK
      <4> QED BY <4>1 DEF Holds, Job, Reserved
    <3> QED BY <1>3, <3>1, <3>2 DEF Claim
  <2>9. ASSUME NEW s \in Runs, NEW j \in Holds(s)', Reserved(s, j)'
        PROVE  tries'[j] < row'[j].attempts
    <3>1. CASE j \in Batch
      BY <2>3, <2>6, <3>1
    <3>2. CASE j \notin Batch
      <4>1. j \in Holds(s) /\ Reserved(s, j) /\ j \in Jobs
        BY <2>8, <2>9, <3>2, HoldsJobs
      <4> QED BY <2>3, <2>4, <3>2, <4>1 DEF Budget
    <3> QED BY <3>1, <3>2
  <2>10. \A s \in Runs : \A j \in Holds(s)' : Reserved(s, j)' => tries'[j] < row'[j].attempts
    BY <2>9
  <2> QED BY <2>7, <2>10 DEF Budget
<1>4. ASSUME NEW r \in Runs, TakeJob(r) PROVE Budget'
  <2>1. row' = row /\ tries' = tries /\ Job(r) = NoJob
    BY <1>4 DEF TakeJob, At, Shape, RunShape, Job
  <2>2. NoJob \notin Jobs
    BY DEF NoJob, Jobs
  <2>3. CASE run' = Abort(r)
    BY <2>1, <2>2, <2>3, LeaveBudget
  <2>4. ASSUME NEW j \in run[r].todo,
               run' = [run EXCEPT ![r].pc = "check", ![r].cur = j, ![r].todo = @ \ {j}]
        PROVE  Budget'
    <3>1. /\ run'[r].pc = "check" /\ run'[r].cur = j /\ run'[r].todo = run[r].todo \ {j}
          /\ run'[r].mode = run[r].mode
          /\ \A s \in Runs : s # r => run'[s] = run[s]
      BY <2>4 DEF TypeOK, Run
    <3>2. j # NoJob
      BY <2>2, <2>4 DEF TypeOK, Run
    <3>3. \A i \in Holds(r)' : i \in Holds(r) /\ Reserved(r, i)
      BY <2>1, <3>1, <3>2 DEF Holds, Job, Reserved
    <3> QED BY <2>1, <2>2, <3>1, <3>3, BudgetKept
  <2> QED BY <1>4, <2>3, <2>4 DEF TakeJob
<1>5. ASSUME NEW r \in Runs, CheckProcessed(r) PROVE Budget'
  <2>1. row' = row /\ tries' = tries /\ run[r].pc = "check"
    BY <1>5 DEF CheckProcessed, At
  <2>2. Job(r) \in Jobs /\ Job(r) \in Holds(r)
    BY <2>1, OwnJob
  <2>3. CASE run' = Goto(r, AfterCheck(r))
    <3>1. AfterCheck(r) \in Points \ {"check"}
      BY DEF AfterCheck, Points
    <3> QED BY <2>1, <2>3, <3>1, GotoBudget
  <2>4. CASE run' = Abort(r)
    <3>1. row[Job(r)].status # "absent"
      BY <2>2 DEF Owned, HeldRow
    <3> QED BY <2>1, <2>2, <2>4, <3>1, LeaveBudget DEF Budget
  <2> QED BY <1>5, <2>3, <2>4 DEF CheckProcessed
<1>6. ASSUME NEW r \in Runs, DispatchToEndpoint(r) \/ DispatchInternally(r) PROVE Budget'
  <2>0. PICK k : k = Job(r)
    OBVIOUS
  <2>1. row' = row /\ run[r].pc = "dispatch" /\ tries' = Tried(r)
    BY <1>6 DEF DispatchToEndpoint, DispatchInternally, At
  <2>2. k \in Jobs /\ k \in Holds(r) /\ k \notin run[r].todo
    BY <2>0, <2>1, OwnJob
  <2>3. Kind[k] \in Kinds
    BY <2>2, OutboxAssumption
  <2>4. \E p \in {Dispatched(r), Caught(r), "effect", "effect_check"} : run' = Goto(r, p)
    BY <1>6, <2>0, <2>3 DEF DispatchToEndpoint, DispatchInternally, Kinds
  <2>5. PICK p \in Points \ {"check", "dispatch"} : run' = Goto(r, p)
    BY <2>4 DEF Dispatched, Caught, Points
  <2>6. CASE run[r].mode # "production"
    <3>1. tries' = tries
      BY <2>1, <2>6 DEF Tried
    <3> QED BY <2>1, <2>5, <3>1, GotoBudget
  <2>7. CASE run[r].mode = "production"
    <3>1. tries' = [tries EXCEPT ![k] = @ + 1]
      BY <2>0, <2>1, <2>7 DEF Tried
    <3>2. tries'[k] = tries[k] + 1 /\ \A j \in Jobs : j # k => tries'[j] = tries[j]
      BY <2>2, <3>1 DEF TypeOK
    <3>3. /\ run'[r].pc = p /\ run'[r].cur = run[r].cur /\ run'[r].todo = run[r].todo
          /\ run'[r].mode = run[r].mode /\ \A s \in Runs : s # r => run'[s] = run[s]
      BY <2>5, GotoFacts DEF TypeOK
    <3>4. Holds(r)' = Holds(r)
      BY <3>3 DEF Holds, Job
    <3>5. \A j : Reserved(r, j)' => j \in run[r].todo
      BY <2>5, <2>7, <3>3 DEF Reserved
    <3>6. tries[k] < row[k].attempts /\ row[k].attempts \in Nat /\ tries[k] \in Nat
      BY <2>1, <2>2 DEF Budget, Reserved, TypeOK, Row
    <3>7. tries'[k] <= row'[k].attempts
      BY <2>1, <3>2, <3>6
    <3>8. /\ row'[k].attempts <= MaxAttempts
          /\ row'[k].status \in {"pending", "failed"} => row'[k].attempts < MaxAttempts
          /\ row'[k].status # "absent"
      BY <2>1, <2>2 DEF Budget, Owned, HeldRow
    <3>9. \A j \in Holds(r)' : j \in Holds(r) /\ (j # k /\ Reserved(r, j)' => Reserved(r, j))
      BY <3>4, <3>5 DEF Reserved
    <3>10. ~ Reserved(r, k)'
      BY <2>2, <3>5
    <3> QED BY <2>0, <2>1, <3>2, <3>3, <3>7, <3>8, <3>9, <3>10, BudgetKept
  <2> QED BY <2>6, <2>7
<1>7. ASSUME NEW r \in Runs,
             CheckEffect(r) \/ SyncRanking(r) \/ PersistEffect(r) \/ PersistDispatch(r)
      PROVE  Budget'
  <2>1. row' = row /\ tries' = tries /\ run[r].pc \in {"effect_check", "sync", "effect", "ledger"}
    BY <1>7 DEF CheckEffect, SyncRanking, PersistEffect, PersistDispatch, At
  <2>2. \E p \in {Dispatched(r), Caught(r), "sync", "effect", "ledger"} : run' = Goto(r, p)
    BY <1>7 DEF CheckEffect, SyncRanking, PersistEffect, PersistDispatch
  <2>3. PICK p \in Points \ {"check", "dispatch"} : run' = Goto(r, p)
    BY <2>2 DEF Dispatched, Caught, Points
  <2> QED BY <2>1, <2>3, GotoBudget
<1>8. ASSUME NEW r \in Runs, MarkProcessed(r) \/ MarkCompleted(r) PROVE Budget'
  <2>1. /\ run[r].pc \in {"mark_processed", "mark_completed"} /\ tries' = tries
        /\ Job(r) \in Jobs /\ Job(r) \in Holds(r)
    BY <1>8, OwnJob DEF MarkProcessed, MarkCompleted, At, Owned
  <2>2. /\ row' = row \/ row' = CompletedRow(Job(r))
        /\ run' \in {Goto(r, "mark_completed"), Goto(r, "mark_failed"), NextJob(r)}
        /\ \A i \in Jobs : i # Job(r) => row'[i] = row[i]
    BY <1>8, <2>1, UpdateFacts DEF MarkProcessed, MarkCompleted, At
  <2>3. /\ row'[Job(r)].attempts = row[Job(r)].attempts
        /\ row'[Job(r)].status \in {row[Job(r)].status, "completed"}
    BY <2>1, <2>2, RowFacts, OutboxAssumption DEF TypeOK
  <2>4. row[Job(r)].status \notin {"absent", "pending", "failed"}
    BY <2>1 DEF Owned, HeldRow
  <2>5. CASE run' = NextJob(r)
    BY <2>1, <2>2, <2>3, <2>4, <2>5, LeaveBudget DEF Budget
  <2>6. CASE run' = Goto(r, "mark_completed") \/ run' = Goto(r, "mark_failed")
    BY <2>1, <2>2, <2>3, <2>6, GotoBudget DEF Points
  <2> QED BY <2>2, <2>5, <2>6
<1>9. ASSUME NEW r \in Runs, MarkFailed(r) PROVE Budget'
  <2>1. run[r].pc = "mark_failed" /\ tries' = tries /\ Job(r) \in Jobs /\ Job(r) \in Holds(r)
    BY <1>9, OwnJob DEF MarkFailed, At
  <2>2. PICK due \in BOOLEAN : Update(FailedRow(Job(r), due), NextJob(r), Abort(r))
    BY <1>9 DEF MarkFailed
  <2>3. /\ row' = row \/ row' = FailedRow(Job(r), due)
        /\ run' = NextJob(r) \/ run' = Abort(r)
        /\ \A i \in Jobs : i # Job(r) => row'[i] = row[i]
    BY <2>1, <2>2, UpdateFacts
  <2>4. row[Job(r)].attempts \in Nat /\ row[Job(r)].status # "absent"
    BY <2>1 DEF TypeOK, Row, Owned, HeldRow
  <2>5. /\ row'[Job(r)].attempts = row[Job(r)].attempts
        /\ row'[Job(r)].status \in {"pending", "failed"} => row'[Job(r)].attempts < MaxAttempts
        /\ row'[Job(r)].status # "absent"
    <3>1. CASE row' = row
      BY <2>1, <2>4, <3>1 DEF Budget
    <3>2. CASE row' = FailedRow(Job(r), due)
      BY <2>1, <2>4, <3>2, RowFacts, OutboxAssumption DEF TypeOK
    <3> QED BY <2>3, <3>1, <3>2
  <2> QED BY <2>1, <2>3, <2>5, LeaveBudget DEF Budget
<1>10. ASSUME NEW r \in Runs, ReleaseClaim(r) PROVE Budget'
  <2>1. /\ run[r].pc = "release" /\ tries' = tries /\ Job(r) \in Jobs /\ Job(r) \in Holds(r)
        /\ run[r].mode # "production"
    BY <1>10, OwnJob DEF ReleaseClaim, At, Shape, RunShape
  <2>2. /\ row' = row \/ row' = ReleasedRow(Job(r))
        /\ run' = NextJob(r) \/ run' = Abort(r)
        /\ \A i \in Jobs : i # Job(r) => row'[i] = row[i]
    BY <1>10, <2>1, UpdateFacts DEF ReleaseClaim
  <2>3. /\ row[Job(r)].status = "processing"
        /\ tries[Job(r)] < row[Job(r)].attempts /\ row[Job(r)].attempts <= MaxAttempts
        /\ row[Job(r)].attempts \in Nat /\ tries[Job(r)] \in Nat
    BY <2>1 DEF Owned, HeldRow, Budget, Reserved, TypeOK, Row
  <2>4. \/ row'[Job(r)] = row[Job(r)]
        \/ /\ row'[Job(r)].status = "pending"
           /\ row'[Job(r)].attempts = row[Job(r)].attempts - 1
    <3>1. /\ ReleasedRow(Job(r))[Job(r)].status = "pending"
          /\ ReleasedRow(Job(r))[Job(r)].attempts
               = IF row[Job(r)].attempts > 0 THEN row[Job(r)].attempts - 1 ELSE 0
      BY <2>1, <2>3, RowFacts, OutboxAssumption DEF TypeOK
    <3>2. row[Job(r)].attempts > 0
      BY <2>3
    <3> QED BY <2>2, <3>1, <3>2
  <2>5. /\ row'[Job(r)].attempts <= MaxAttempts
        /\ tries[Job(r)] <= row'[Job(r)].attempts
        /\ row'[Job(r)].status \in {"pending", "failed"} => row'[Job(r)].attempts < MaxAttempts
        /\ row'[Job(r)].status # "absent"
    BY <2>3, <2>4, OutboxAssumption
  <2> QED BY <2>1, <2>2, <2>5, LeaveBudget
<1>11. ASSUME NEW r \in Runs, Crash(r) PROVE Budget'
  <2>1. row' = row /\ tries' = tries /\ run' = Abort(r) /\ run[r].pc # "idle"
    BY <1>11 DEF Crash, At
  <2>2. Job(r) \in Jobs => row[Job(r)].status # "absent"
    BY DEF Owned, HeldRow, Holds, NoJob, Jobs
  <2> QED BY <2>1, <2>2, LeaveBudget DEF Budget
<1>12. ASSUME NEW batch \in SUBSET Jobs, Requeue(batch) PROVE Budget'
  <2>1. /\ run' = run
        /\ \A j \in batch : row[j].status = "dead_letter"
        /\ \A j \in batch : row'[j].attempts = 0 /\ row'[j].status = "pending" /\ tries'[j] = 0
        /\ \A j \in Jobs \ batch : row'[j] = row[j] /\ tries'[j] = tries[j]
    BY <1>12 DEF Requeue, TypeOK
  <2>2. \A r \in Runs : Holds(r) \cap batch = {}
    BY <2>1 DEF Owned, HeldRow
  <2>3. \A r \in Runs : Holds(r)' = Holds(r) /\ \A i : Reserved(r, i)' = Reserved(r, i)
    BY <2>1 DEF Holds, Job, Reserved
  <2>4. ASSUME NEW j \in Jobs
        PROVE  /\ row'[j].attempts <= MaxAttempts
               /\ tries'[j] <= row'[j].attempts
               /\ row'[j].status \in {"pending", "failed"} => row'[j].attempts < MaxAttempts
               /\ row'[j].status = "absent" => row'[j].attempts = 0
    <3>1. CASE j \in batch
      BY <2>1, <3>1, OutboxAssumption
    <3>2. CASE j \notin batch
      BY <2>1, <3>2 DEF Budget
    <3> QED BY <3>1, <3>2
  <2> QED BY <2>1, <2>2, <2>3, <2>4, HoldsJobs DEF Budget
<1> QED
  BY <1>0, <1>1, <1>2, <1>3, <1>4, <1>5, <1>6, <1>7, <1>8, <1>9, <1>10, <1>11, <1>12 DEF Next, Step

LEMMA BudgetInit == Init => Budget
BY OutboxAssumption DEF Init, Budget, AbsentRow, Holds, Job, NoRun

\* Between two requeues no job is dispatched in production more than MaxAttempts
\* times (the invariant RetryBudget of the runs): crashes, probes that give their
\* claim back and failing statements can cost attempts, never add one.
THEOREM RetriesAreBounded == Spec => []RetryBudget
<1>1. Init => TypeOK /\ Shape /\ Owned /\ Budget
  BY ShapeInit, OwnedInit, BudgetInit
<1>2. TypeOK /\ Shape /\ Owned /\ Budget /\ [Next]_vars
        => TypeOK' /\ Shape' /\ Owned' /\ Budget'
  BY TypeStep, OwnedStep, BudgetStep
<1>3. TypeOK /\ Budget => RetryBudget
  <2> SUFFICES ASSUME TypeOK, Budget, NEW j \in Jobs
               PROVE  row[j].attempts <= MaxAttempts /\ tries[j] <= MaxAttempts
    BY DEF RetryBudget
  <2>1. tries[j] \in Nat /\ row[j].attempts \in Nat
    BY DEF TypeOK, Row
  <2> QED BY <2>1, OutboxAssumption DEF Budget
<1> QED BY <1>1, <1>2, <1>3, PTL DEF Spec

(***************************************************************************)
(* Completion follows the effect.  Each point of the loop body carries     *)
(* what the statements before it have left behind.                         *)
(***************************************************************************)
Trail(r) ==
  /\ run[r].pc = "sync" => Job(r) \notin effects
  /\ run[r].pc = "effect" /\ Kind[Job(r)] = "ranking" => Job(r) \in synced
  /\ run[r].pc = "ledger" => Job(r) \in effects
  /\ run[r].pc \in {"mark_processed", "mark_completed"} => Job(r) \in delivered \cup ledger

Recorded == CompletedWasHandled /\ \A r \in Runs : Trail(r)

\* The tables of effects only grow, and by the job in hand, which is nobody else's:
\* it is enough to look at the run that moves and at the rows.
LEMMA RecordedKept ==
  ASSUME TypeOK, Shape, Owned, Recorded, NEW r \in Runs, NEW k, k = Job(r),
         \A s \in Runs : s # r => run'[s] = run[s],
         effects' \in {effects, effects \cup {k}},
         effects' = effects \/ run[r].pc \notin {"idle", "next"},
         ledger \subseteq ledger', synced \subseteq synced', delivered \subseteq delivered',
         ledger' \subseteq effects',
         k \in effects' \ effects /\ Kind[k] = "ranking" => k \in synced',
         \A j \in Jobs : row'[j].status = "completed" =>
            row[j].status = "completed" \/ j \in delivered' \cup ledger',
         Trail(r)'
  PROVE  Recorded'
<1>1. ASSUME NEW s \in Runs, s # r PROVE Trail(s)'
  <2>1. Trail(s)
    BY DEF Recorded
  <2>2. run'[s] = run[s]
    BY <1>1
  <2>3. run[s].pc = "sync" => Job(s) \notin effects'
    <3> SUFFICES ASSUME run[s].pc = "sync", effects' # effects PROVE Job(s) \notin effects'
      BY <2>1 DEF Trail
    <3>1. Job(s) \in Holds(s) /\ k \notin Holds(s)
      BY <1>1, OwnJob
    <3> QED BY <2>1, <3>1 DEF Trail
  <2> QED BY <2>1, <2>2, <2>3 DEF Trail, Job
<1>2. \A j \in Jobs : row'[j].status = "completed" => j \in delivered' \cup ledger'
  BY DEF Recorded, CompletedWasHandled
<1>3. \A j \in effects' : Kind[j] = "ranking" => j \in synced'
  BY DEF Recorded, CompletedWasHandled
<1> QED BY <1>1, <1>2, <1>3 DEF Recorded, CompletedWasHandled

\* Steps of a run that touch neither the effects nor the rows.
LEMMA RecordedQuiet ==
  ASSUME TypeOK, Shape, Owned, Recorded, NEW r \in Runs, UNCHANGED handleVars,
         \A s \in Runs : s # r => run'[s] = run[s],
         \A j \in Jobs : row'[j].status = "completed" =>
            row[j].status = "completed" \/ j \in delivered \cup ledger,
         Trail(r)'
  PROVE  Recorded'
<1>1. ledger \subseteq effects
  BY DEF Recorded, CompletedWasHandled
<1>2. UNCHANGED <<effects, ledger, synced, delivered>>
  BY DEF handleVars
<1> QED BY <1>1, <1>2, RecordedKept

LEMMA RecordedStep == TypeOK /\ Shape /\ Owned /\ Recorded /\ [Next]_vars => Recorded'
<1> SUFFICES ASSUME TypeOK, Shape, Owned, Recorded, [Next]_vars PROVE Recorded'
  OBVIOUS
<1>0. ASSUME UNCHANGED vars PROVE Recorded'
  BY <1>0 DEF Recorded, CompletedWasHandled, Trail, vars, Job
<1>1. ASSUME UNCHANGED <<run, handleVars>>,
             \A j \in Jobs : row'[j].status = "completed" => row[j].status = "completed"
      PROVE  Recorded'
  BY <1>1 DEF Recorded, CompletedWasHandled, Trail, handleVars, Job
<1>2. ASSUME NEW j \in Jobs, Enqueue(j) \/ Elapse(j) PROVE Recorded'
  <2>1. \A i \in Jobs : row'[i].status = "completed" => row[i].status = "completed"
    BY <1>2 DEF Enqueue, Elapse, TypeOK, Row
  <2> QED BY <1>1, <1>2, <2>1 DEF Enqueue, Elapse
<1>3. ASSUME NEW r \in Runs, NEW mode \in Modes, NEW via \in Vias, Claim(r, mode, via)
      PROVE  Recorded'
  <2>1. Batch \in SUBSET Jobs
    BY DEF Batch
  <2>2. \A j \in Jobs : row'[j].status = "completed" => row[j].status = "completed"
    BY <1>3, <2>1, ClaimedFacts DEF Claim, TypeOK
  <2>3. UNCHANGED handleVars
    BY <1>3 DEF Claim
  <2>4. CASE run' = run
    BY <1>1, <2>2, <2>3, <2>4
  <2>5. CASE run' = [run EXCEPT ![r] = [pc |-> "next", mode |-> mode, via |-> via,
                                        todo |-> Batch, cur |-> NoJob]]
    <3>1. run'[r].pc = "next" /\ \A s \in Runs : s # r => run'[s] = run[s]
      BY <2>5 DEF TypeOK
    <3>2. Trail(r)'
      BY <3>1 DEF Trail
    <3> QED BY <2>2, <2>3, <3>1, <3>2, RecordedQuiet
  <2> QED BY <1>3, <2>4, <2>5 DEF Claim
<1>4. ASSUME NEW r \in Runs, run' = NextJob(r) \/ run' = Abort(r), UNCHANGED handleVars,
             \A j \in Jobs : row'[j].status = "completed" =>
                row[j].status = "completed" \/ j \in delivered \cup ledger
      PROVE  Recorded'
  <2>1. run'[r].pc \in {"idle", "next"} /\ \A s \in Runs : s # r => run'[s] = run[s]
    BY <1>4, NextJobFacts, AbortFacts DEF TypeOK, NoRun
  <2>2. Trail(r)'
    BY <2>1 DEF Trail
  <2> QED BY <1>4, <2>1, <2>2, RecordedQuiet
<1>5. ASSUME NEW r \in Runs, TakeJob(r) PROVE Recorded'
  <2>1. row' = row /\ UNCHANGED handleVars
    BY <1>5 DEF TakeJob
  <2>2. ASSUME NEW j \in run[r].todo,
               run' = [run EXCEPT ![r].pc = "check", ![r].cur = j, ![r].todo = @ \ {j}]
        PROVE  Recorded'
    <3>1. run'[r].pc = "check" /\ \A s \in Runs : s # r => run'[s] = run[s]
      BY <2>2 DEF TypeOK, Run
    <3>2. Trail(r)'
      BY <3>1 DEF Trail
    <3> QED BY <2>1, <3>1, <3>2, RecordedQuiet
  <2> QED BY <1>4, <1>5, <2>1, <2>2 DEF TakeJob
<1>6. ASSUME NEW r \in Runs, NEW p \in Points, run' = Goto(r, p), UNCHANGED handleVars,
             p \notin {"sync", "effect", "ledger", "mark_processed", "mark_completed"},
             \A j \in Jobs : row'[j].status = "completed" =>
                row[j].status = "completed" \/ j \in delivered \cup ledger
      PROVE  Recorded'
  <2>1. run'[r].pc = p /\ \A s \in Runs : s # r => run'[s] = run[s]
    BY <1>6, GotoFacts DEF TypeOK
  <2>2. Trail(r)'
    BY <1>6, <2>1 DEF Trail
  <2> QED BY <1>6, <2>1, <2>2, RecordedQuiet
<1>7. ASSUME NEW r \in Runs, CheckProcessed(r) PROVE Recorded'
  <2>1. row' = row /\ UNCHANGED handleVars
    BY <1>7 DEF CheckProcessed
  <2>2. /\ AfterCheck(r) \in Points
        /\ AfterCheck(r) \notin {"sync", "effect", "ledger", "mark_processed", "mark_completed"}
    BY DEF AfterCheck, Points
  <2> QED BY <1>4, <1>6, <1>7, <2>1, <2>2 DEF CheckProcessed
<1>8. ASSUME NEW r \in Runs, DispatchToEndpoint(r) PROVE Recorded'
  <2>1. row' = row /\ UNCHANGED <<effects, ledger, synced>> /\ delivered \subseteq delivered'
    BY <1>8 DEF DispatchToEndpoint
  <2>2. PICK p \in {Dispatched(r), Caught(r)} :
          run' = Goto(r, p) /\ (p = "mark_processed" => Job(r) \in delivered')
    BY <1>8 DEF DispatchToEndpoint, Dispatched, Caught
  <2>3. p \in {"mark_processed", "mark_failed", "release"}
    BY <2>2 DEF Dispatched, Caught
  <2>4. /\ run'[r].pc = p /\ run'[r].cur = run[r].cur
        /\ \A s \in Runs : s # r => run'[s] = run[s]
    BY <2>2, <2>3, GotoFacts DEF TypeOK, Points
  <2>5. Trail(r)'
    BY <2>2, <2>3, <2>4 DEF Trail, Job
  <2>6. ledger \subseteq effects
    BY DEF Recorded, CompletedWasHandled
  <2> QED BY <2>1, <2>4, <2>5, <2>6, RecordedKept
<1>9. ASSUME NEW r \in Runs, DispatchInternally(r) PROVE Recorded'
  <2>1. row' = row /\ UNCHANGED handleVars /\ run[r].pc = "dispatch"
    BY <1>9 DEF DispatchInternally, At
  <2>2. Kind[Job(r)] \in Kinds
    BY <2>1, OwnJob, OutboxAssumption
  <2>3. \/ run' = Goto(r, Caught(r)) \/ run' = Goto(r, "effect_check")
        \/ run' = Goto(r, "effect") /\ Kind[Job(r)] = "recorded"
    BY <1>9, <2>2 DEF DispatchInternally, Kinds
  <2>4. CASE run' = Goto(r, Caught(r)) \/ run' = Goto(r, "effect_check")
    BY <1>6, <2>1, <2>4 DEF Caught, Points
  <2>5. CASE run' = Goto(r, "effect") /\ Kind[Job(r)] = "recorded"
    <3>1. /\ run'[r].pc = "effect" /\ run'[r].cur = run[r].cur
          /\ \A s \in Runs : s # r => run'[s] = run[s]
      BY <2>5, GotoFacts DEF TypeOK, Points
    <3>2. Trail(r)'
      BY <2>5, <3>1 DEF Trail, Job
    <3> QED BY <2>1, <3>1, <3>2, RecordedQuiet
  <2> QED BY <2>3, <2>4, <2>5
<1>10. ASSUME NEW r \in Runs, CheckEffect(r) PROVE Recorded'
  <2>1. row' = row /\ UNCHANGED handleVars
    BY <1>10 DEF CheckEffect
  <2>2. CASE run' = Goto(r, Caught(r))
    BY <1>6, <2>1, <2>2 DEF Caught, Points
  <2>3. CASE run' = Goto(r, IF Job(r) \in effects THEN "ledger" ELSE "sync")
    <3>1. PICK p \in {"ledger", "sync"} :
            run' = Goto(r, p) /\ (p = "ledger" <=> Job(r) \in effects)
      BY <2>3
    <3>2. /\ run'[r].pc = p /\ run'[r].cur = run[r].cur
          /\ \A s \in Runs : s # r => run'[s] = run[s]
      BY <3>1, GotoFacts DEF TypeOK, Points
    <3>3. Trail(r)'
      BY <2>1, <3>1, <3>2 DEF Trail, Job, handleVars
    <3> QED BY <2>1, <3>2, <3>3, RecordedQuiet
  <2> QED BY <1>10, <2>2, <2>3 DEF CheckEffect
<1>11. ASSUME NEW r \in Runs, SyncRanking(r) PROVE Recorded'
  <2>1. row' = row /\ UNCHANGED <<effects, ledger, delivered>> /\ synced \subseteq synced'
    BY <1>11 DEF SyncRanking
  <2>2. PICK p \in {"effect", Caught(r)} :
          run' = Goto(r, p) /\ (p = "effect" => Job(r) \in synced')
    BY <1>11 DEF SyncRanking, Caught
  <2>3. p \in {"effect", "mark_failed", "release"}
    BY <2>2 DEF Caught
  <2>4. /\ run'[r].pc = p /\ run'[r].cur = run[r].cur
        /\ \A s \in Runs : s # r => run'[s] = run[s]
    BY <2>2, <2>3, GotoFacts DEF TypeOK, Points
  <2>5. Trail(r)'
    BY <2>2, <2>3, <2>4 DEF Trail, Job
  <2>6. ledger \subseteq effects
    BY DEF Recorded, CompletedWasHandled
  <2> QED BY <2>1, <2>4, <2>5, <2>6, RecordedKept
<1>12. ASSUME NEW r \in Runs, PersistEffect(r) PROVE Recorded'
  <2>1. /\ row' = row /\ UNCHANGED <<ledger, synced, delivered>> /\ run[r].pc = "effect"
        /\ effects' \in {effects, effects \cup {Job(r)}}
    BY <1>12 DEF PersistEffect, At
  <2>2. PICK p \in {"ledger", Caught(r)} :
          run' = Goto(r, p) /\ (p = "ledger" => Job(r) \in effects')
    BY <1>12 DEF PersistEffect, Caught
  <2>3. p \in {"ledger", "mark_failed", "release"}
    BY <2>2 DEF Caught
  <2>4. /\ run'[r].pc = p /\ run'[r].cur = run[r].cur
        /\ \A s \in Runs : s # r => run'[s] = run[s]
    BY <2>2, <2>3, GotoFacts DEF TypeOK, Points
  <2>5. Trail(r)'
    BY <2>2, <2>3, <2>4 DEF Trail, Job
  <2>6. ledger' \subseteq effects' /\ (Kind[Job(r)] = "ranking" => Job(r) \in synced')
    BY <2>1 DEF Recorded, CompletedWasHandled, Trail
  <2> QED BY <2>1, <2>4, <2>5, <2>6, RecordedKept
<1>13. ASSUME NEW r \in Runs, PersistDispatch(r) PROVE Recorded'
  <2>1. /\ row' = row /\ UNCHANGED <<effects, synced, delivered>> /\ run[r].pc = "ledger"
        /\ ledger' \in {ledger, ledger \cup {Job(r)}}
    BY <1>13 DEF PersistDispatch, At
  <2>2. PICK p \in {Dispatched(r), Caught(r)} :
          run' = Goto(r, p) /\ (p = "mark_processed" => Job(r) \in ledger')
    BY <1>13 DEF PersistDispatch, Dispatched, Caught
  <2>3. p \in {"mark_processed", "mark_failed", "release"}
    BY <2>2 DEF Dispatched, Caught
  <2>4. /\ run'[r].pc = p /\ run'[r].cur = run[r].cur
        /\ \A s \in Runs : s # r => run'[s] = run[s]
    BY <2>2, <2>3, GotoFacts DEF TypeOK, Points
  <2>5. Trail(r)'
    BY <2>2, <2>3, <2>4 DEF Trail, Job
  <2>6. ledger' \subseteq effects'
    BY <2>1 DEF Recorded, CompletedWasHandled, Trail
  <2> QED BY <2>1, <2>4, <2>5, <2>6, RecordedKept
<1>14. ASSUME NEW r \in Runs, MarkProcessed(r) \/ MarkCompleted(r) PROVE Recorded'
  <2>1. /\ run[r].pc \in {"mark_processed", "mark_completed"} /\ UNCHANGED handleVars
        /\ Job(r) \in Jobs
    BY <1>14, OwnJob DEF MarkProcessed, MarkCompleted, At, Owned
  <2>2. /\ row' = row \/ row' = CompletedRow(Job(r))
        /\ run' \in {Goto(r, "mark_completed"), Goto(r, "mark_failed"), NextJob(r)}
        /\ \A i \in Jobs : i # Job(r) => row'[i] = row[i]
    BY <1>14, <2>1, UpdateFacts DEF MarkProcessed, MarkCompleted, At
  <2>3. Job(r) \in delivered \cup ledger
    BY <2>1 DEF Recorded, Trail
  <2>4. \A j \in Jobs : row'[j].status = "completed" =>
          row[j].status = "completed" \/ j \in delivered \cup ledger
    BY <2>2, <2>3
  <2>5. CASE run' = Goto(r, "mark_completed")
    <3>1. /\ run'[r].pc = "mark_completed" /\ run'[r].cur = run[r].cur
          /\ \A s \in Runs : s # r => run'[s] = run[s]
      BY <2>5, GotoFacts DEF TypeOK, Points
    <3>2. Trail(r)'
      BY <2>1, <2>3, <3>1 DEF Trail, Job, handleVars
    <3> QED BY <2>1, <2>4, <3>1, <3>2, RecordedQuiet
  <2> QED BY <1>4, <1>6, <2>1, <2>2, <2>4, <2>5 DEF Points
<1>15. ASSUME NEW r \in Runs, MarkFailed(r) \/ ReleaseClaim(r) PROVE Recorded'
  <2>1. Job(r) \in Jobs /\ UNCHANGED handleVars
    BY <1>15, OwnJob DEF MarkFailed, ReleaseClaim, At
  <2>2. PICK due \in BOOLEAN : \E new \in {FailedRow(Job(r), due), ReleasedRow(Job(r))} :
          Update(new, NextJob(r), Abort(r))
    BY <1>15 DEF MarkFailed, ReleaseClaim
  <2> PICK new \in {FailedRow(Job(r), due), ReleasedRow(Job(r))} :
          Update(new, NextJob(r), Abort(r))
    BY <2>2
  <2>3. /\ row' = row \/ row' = new
        /\ run' = NextJob(r) \/ run' = Abort(r)
        /\ \A i \in Jobs : i # Job(r) => row'[i] = row[i]
    BY <2>1, <2>2, UpdateFacts
  <2>4. new[Job(r)].status = "completed" => row[Job(r)].status = "completed"
    <3>1. FailedRow(Job(r), due)[Job(r)].status \in {"dead_letter", "failed"}
      BY <2>1, RowFacts, OutboxAssumption DEF TypeOK
    <3>2. ReleasedRow(Job(r))[Job(r)].status \in {"pending", row[Job(r)].status}
      BY <2>1, RowFacts, OutboxAssumption DEF TypeOK
    <3> QED BY <2>2, <3>1, <3>2
  <2> QED BY <1>4, <2>1, <2>3, <2>4
<1>16. ASSUME NEW r \in Runs, Crash(r) PROVE Recorded'
  BY <1>4, <1>16 DEF Crash
<1>17. ASSUME NEW batch \in SUBSET Jobs, Requeue(batch) PROVE Recorded'
  <2>1. \A j \in Jobs : row'[j].status = "completed" => row[j].status = "completed"
    BY <1>17 DEF Requeue
  <2> QED BY <1>1, <1>17, <2>1 DEF Requeue
<1> QED
  BY <1>0, <1>2, <1>3, <1>5, <1>7, <1>8, <1>9, <1>10, <1>11, <1>12, <1>13, <1>14, <1>15,
     <1>16, <1>17 DEF Next, Step

LEMMA RecordedInit == Init => Recorded
BY DEF Init, Recorded, CompletedWasHandled, Trail, AbsentRow, NoRun

LEMMA Reachable == Spec => [](TypeOK /\ Shape /\ Owned /\ Recorded)
<1>1. Init => TypeOK /\ Shape /\ Owned /\ Recorded
  BY ShapeInit, OwnedInit, RecordedInit
<1>2. TypeOK /\ Shape /\ Owned /\ Recorded /\ [Next]_vars
        => TypeOK' /\ Shape' /\ Owned' /\ Recorded'
  BY TypeStep, OwnedStep, RecordedStep
<1> QED BY <1>1, <1>2, PTL DEF Spec

\* A completed job was accepted by the endpoint or recorded by its handler, and the
\* dispatch ledger never runs ahead of the effect it stands for (the invariant
\* CompletedWasHandled of the runs).
THEOREM CompletionFollowsTheEffect == Spec => []CompletedWasHandled
<1>1. Recorded => CompletedWasHandled
  BY DEF Recorded
<1> QED BY <1>1, Reachable, PTL

\* The ranking sync never runs for a job whose effect is on record (the invariant
\* SyncOnlyUnrecorded of the runs): the check-then-act of the handler is safe
\* because the claim is exclusive.
THEOREM SyncIsNotRepeated == Spec => []SyncOnlyUnrecorded
<1>1. Recorded => SyncOnlyUnrecorded
  BY DEF Recorded, Trail, SyncOnlyUnrecorded, At
<1> QED BY <1>1, Reachable, PTL

\* A dead letter is left only by a requeue, which leaves one audit row (the action
\* property DeadLetterLeftByRequeue of the runs).
THEOREM DeadLettersAreAudited == Spec => DeadLetterLeftByRequeue
<1>1. TypeOK /\ Shape /\ Owned /\ [Next]_vars =>
        [\A j \in Jobs :
           /\ row[j].status = "dead_letter" /\ row'[j].status # "dead_letter"
                => audit'[j] = audit[j] + 1
           /\ audit'[j] # audit[j] => row[j].status = "dead_letter"]_vars
  <2> SUFFICES ASSUME TypeOK, Shape, Owned, Next, NEW j \in Jobs
               PROVE  /\ row[j].status = "dead_letter" /\ row'[j].status # "dead_letter"
                            => audit'[j] = audit[j] + 1
                      /\ audit'[j] # audit[j] => row[j].status = "dead_letter"
    OBVIOUS
  <2>1. ASSUME NEW i \in Jobs, Enqueue(i) \/ Elapse(i)
        PROVE  audit' = audit /\ (row[j].status = "dead_letter" => row'[j].status = "dead_letter")
    BY <2>1 DEF Enqueue, Elapse, TypeOK, Row
  <2>2. ASSUME NEW r \in Runs, NEW mode \in Modes, NEW via \in Vias, Claim(r, mode, via)
        PROVE  audit' = audit /\ (row[j].status = "dead_letter" => row'[j].status = "dead_letter")
    <3>1. Batch \in SUBSET Jobs /\ (row[j].status = "dead_letter" => j \notin Batch)
      BY DEF Batch, Claimable
    <3> QED BY <2>2, <3>1, ClaimedFacts DEF Claim, TypeOK
  <2>3. ASSUME NEW r \in Runs,
               MarkProcessed(r) \/ MarkCompleted(r) \/ MarkFailed(r) \/ ReleaseClaim(r)
        PROVE  audit' = audit /\ (row[j].status = "dead_letter" => row'[j].status = "dead_letter")
    <3>1. /\ run[r].pc \in {"mark_processed", "mark_completed", "mark_failed", "release"}
          /\ audit' = audit
      BY <2>3 DEF MarkProcessed, MarkCompleted, MarkFailed, ReleaseClaim, At, Owned
    <3>2. Job(r) \in Jobs /\ row[Job(r)].status # "dead_letter"
      BY <3>1, OwnJob DEF Owned, HeldRow
    <3>3. \E due \in BOOLEAN : \E ok, err :
            \E new \in {CompletedRow(Job(r)), FailedRow(Job(r), due), ReleasedRow(Job(r))} :
               Update(new, ok, err)
      BY <2>3 DEF MarkProcessed, MarkCompleted, MarkFailed, ReleaseClaim
    <3>4. j # Job(r) => row'[j] = row[j]
      BY <3>2, <3>3, UpdateFacts
    <3> QED BY <3>1, <3>2, <3>4
  <2>4. ASSUME NEW r \in Runs,
               \/ TakeJob(r) \/ CheckProcessed(r) \/ DispatchToEndpoint(r) \/ DispatchInternally(r)
               \/ CheckEffect(r) \/ SyncRanking(r) \/ PersistEffect(r) \/ PersistDispatch(r)
               \/ Crash(r)
        PROVE  audit' = audit /\ row' = row
    BY <2>4 DEF TakeJob, CheckProcessed, DispatchToEndpoint, DispatchInternally, CheckEffect,
                SyncRanking, PersistEffect, PersistDispatch, Crash
  <2>5. ASSUME NEW batch \in SUBSET Jobs, Requeue(batch)
        PROVE  /\ row[j].status = "dead_letter" /\ row'[j].status # "dead_letter"
                    => audit'[j] = audit[j] + 1
               /\ audit'[j] # audit[j] => row[j].status = "dead_letter"
    BY <2>5 DEF Requeue
  <2> QED BY <2>1, <2>2, <2>3, <2>4, <2>5 DEF Next, Step
<1> QED BY <1>1, Reachable, PTL DEF Spec, DeadLetterLeftByRequeue

(***************************************************************************)
(* No row is left behind but by a killed process or a failed statement.    *)
(***************************************************************************)
Attended == faults = 0 /\ crashes = 0 =>
              \A j \in Jobs : row[j].status = "processing" => \E r \in Runs : j \in Holds(r)

\* Who lets go of nothing leaves nothing behind.
LEMMA GotoAttended ==
  ASSUME TypeOK, Attended, NEW r \in Runs, NEW p \in Points, run' = Goto(r, p),
         faults' = 0 /\ crashes' = 0 => faults = 0 /\ crashes = 0,
         \A j \in Jobs : row'[j].status = "processing" => row[j].status = "processing"
  PROVE  Attended'
<1>1. \A s \in Runs : Holds(s)' = Holds(s)
  BY GotoFacts DEF TypeOK, Holds, Job
<1> QED BY <1>1 DEF Attended

\* Nor does who lets go of a job that is not 'processing' any more.
LEMMA NextAttended ==
  ASSUME TypeOK, Attended, NEW r \in Runs, run' = NextJob(r), Job(r) \in Jobs,
         faults' = faults, crashes' = crashes,
         row'[Job(r)].status # "processing",
         \A j \in Jobs : j # Job(r) => row'[j] = row[j]
  PROVE  Attended'
<1> SUFFICES ASSUME faults = 0, crashes = 0, NEW j \in Jobs, row'[j].status = "processing"
             PROVE  \E s \in Runs : j \in Holds(s)'
  BY DEF Attended
<1>1. j # Job(r) /\ row[j].status = "processing"
  OBVIOUS
<1>2. PICK s \in Runs : j \in Holds(s)
  BY <1>1 DEF Attended
<1>3. run'[r].todo = run[r].todo /\ (s # r => run'[s] = run[s])
  BY NextJobFacts DEF TypeOK
<1> QED BY <1>1, <1>2, <1>3 DEF Holds, Job

LEMMA AttendedStep ==
  TypeOK /\ Shape /\ Owned /\ Attended /\ [Next]_vars => Attended'
<1> SUFFICES ASSUME TypeOK, Shape, Owned, Attended, [Next]_vars PROVE Attended'
  OBVIOUS
<1>0. /\ run \in [Runs -> Run] /\ row \in [Jobs -> Row]
      /\ faults \in Nat /\ crashes \in Nat
  BY OutboxAssumption DEF TypeOK
<1>1. ASSUME run' = run, faults' = faults, crashes' = crashes,
             \A j \in Jobs : row'[j].status = "processing" => row[j].status = "processing"
      PROVE  Attended'
  BY <1>1 DEF Attended, Holds, Job
<1>2. ASSUME faults' = faults + 1 PROVE Attended'
  BY <1>0, <1>2 DEF Attended
<1>3. ASSUME NEW j \in Jobs, Enqueue(j) \/ Elapse(j) PROVE Attended'
  <2>1. /\ run' = run /\ faults' = faults /\ crashes' = crashes
        /\ \A i \in Jobs : row'[i].status = "processing" => row[i].status = "processing"
    BY <1>0, <1>3 DEF Enqueue, Elapse, budgetVars, Row
  <2> QED BY <1>1, <2>1
<1>4. ASSUME NEW r \in Runs, NEW mode \in Modes, NEW via \in Vias, Claim(r, mode, via)
      PROVE  Attended'
  <2>1. Batch \in SUBSET Jobs
    BY DEF Batch
  <2>2. CASE faults' = faults + 1
    BY <1>2, <2>2
  <2>3. CASE /\ row' = Claimed(Batch) /\ UNCHANGED faults
             /\ run' = [run EXCEPT ![r] = [pc |-> "next", mode |-> mode, via |-> via,
                                           todo |-> Batch, cur |-> NoJob]]
    <3>1. SUFFICES ASSUME faults = 0, crashes = 0, NEW j \in Jobs, row'[j].status = "processing"
                   PROVE  \E s \in Runs : j \in Holds(s)'
      BY <1>4, <2>3 DEF Attended, Claim
    <3>2. CASE j \in Batch
      BY <1>0, <2>3, <3>2 DEF Holds
    <3>3. CASE j \notin Batch
      <4>1. row[j].status = "processing"
        BY <1>0, <2>1, <2>3, <3>1, <3>3, ClaimedFacts
      <4>2. PICK s \in Runs : j \in Holds(s)
        BY <3>1, <4>1 DEF Attended
      <4>3. Holds(r) = {}
        BY <1>4 DEF Claim, At, Shape, RunShape, NoRun, Holds, Job
      <4>4. s # r
        BY <4>2, <4>3
      <4> QED BY <1>0, <2>3, <4>2, <4>4 DEF Holds, Job
    <3> QED BY <3>2, <3>3
  <2> QED BY <1>4, <2>2, <2>3 DEF Claim
<1>5. ASSUME NEW r \in Runs, TakeJob(r) PROVE Attended'
  <2>1. run[r].pc = "next" /\ Job(r) = NoJob
    BY <1>5 DEF TakeJob, At, Shape, RunShape, Job
  <2>2. \A s \in Runs : Holds(s) \subseteq Holds(s)'
    <3>1. CASE run[r].todo = {} /\ run' = Abort(r)
      BY <1>0, <2>1, <3>1, AbortFacts DEF Holds, Job
    <3>2. ASSUME NEW j \in run[r].todo,
                 run' = [run EXCEPT ![r].pc = "check", ![r].cur = j, ![r].todo = @ \ {j}]
          PROVE  \A s \in Runs : Holds(s) \subseteq Holds(s)'
      <4>1. PICK x : x = [run[r] EXCEPT !.pc = "check", !.cur = j, !.todo = @ \ {j}]
        OBVIOUS
      <4>2. x.cur = j /\ x.todo = run[r].todo \ {j}
        BY <1>0, <4>1 DEF Run
      <4>3. run' = [run EXCEPT ![r] = x]
        BY <3>2, <4>1
      <4>4. j # NoJob
        BY <1>0 DEF Run, NoJob, Jobs
      <4> QED BY <1>0, <2>1, <4>2, <4>3, <4>4 DEF Holds, Job
    <3> QED BY <1>5, <3>1, <3>2 DEF TakeJob
  <2> QED BY <1>5, <2>2 DEF TakeJob, Attended, budgetVars
<1>6. ASSUME NEW r \in Runs, CheckProcessed(r) PROVE Attended'
  <2>1. AfterCheck(r) \in Points
    BY DEF AfterCheck, Points
  <2>2. CASE run' = Goto(r, AfterCheck(r)) /\ faults' = faults
    BY <1>6, <2>1, <2>2, GotoAttended DEF CheckProcessed, budgetVars
  <2> QED BY <1>2, <1>6, <2>2 DEF CheckProcessed
<1>7. ASSUME NEW r \in Runs,
             \/ DispatchToEndpoint(r) \/ DispatchInternally(r) \/ CheckEffect(r)
             \/ SyncRanking(r) \/ PersistEffect(r) \/ PersistDispatch(r)
      PROVE  Attended'
  <2>1. Caught(r) \in Points /\ Dispatched(r) \in Points
    BY DEF Caught, Dispatched, Points
  <2>2. \E p \in Points : run' = Goto(r, p)
    <3>1. CASE DispatchInternally(r)
      <4>1. (CASE Kind[Job(r)] = "unsupported" -> Caught(r)
               [] Kind[Job(r)] = "recorded"    -> "effect"
               [] Kind[Job(r)] = "ranking"     -> "effect_check") \in Points
        <5>1. Job(r) \in Jobs
          BY <3>1, OwnJob DEF DispatchInternally, At
        <5>2. Kind[Job(r)] \in {"unsupported", "recorded", "ranking"}
          BY <5>1, OutboxAssumption DEF Kinds
        <5> QED BY <2>1, <5>2 DEF Points
      <4> QED BY <2>1, <3>1, <4>1 DEF DispatchInternally
    <3>2. CASE CheckEffect(r)
      <4>1. (IF Job(r) \in effects THEN "ledger" ELSE "sync") \in Points
        BY DEF Points
      <4> QED BY <2>1, <3>2, <4>1 DEF CheckEffect
    <3>3. CASE DispatchToEndpoint(r)
      BY <2>1, <3>3 DEF DispatchToEndpoint
    <3>4. CASE SyncRanking(r)
      BY <2>1, <3>4 DEF SyncRanking, Points
    <3>5. CASE PersistEffect(r)
      BY <2>1, <3>5 DEF PersistEffect, Points
    <3>6. CASE PersistDispatch(r)
      BY <2>1, <3>6 DEF PersistDispatch
    <3> QED BY <1>7, <3>1, <3>2, <3>3, <3>4, <3>5, <3>6
  <2>3. /\ row' = row /\ crashes' = crashes /\ faults' \in {faults, faults + 1}
    BY <1>7 DEF DispatchToEndpoint, DispatchInternally, CheckEffect, SyncRanking,
       PersistEffect, PersistDispatch, budgetVars
  <2> QED BY <1>0, <2>2, <2>3, GotoAttended
<1>8. ASSUME NEW r \in Runs,
             MarkProcessed(r) \/ MarkCompleted(r) \/ MarkFailed(r) \/ ReleaseClaim(r)
      PROVE  Attended'
  <2>1. CASE faults' = faults + 1
    BY <1>2, <2>1
  <2>2. CASE faults' = faults
    <3>1. crashes' = crashes /\ run[r].pc \notin {"idle", "next"}
      BY <1>8 DEF MarkProcessed, MarkCompleted, MarkFailed, ReleaseClaim, At, budgetVars
    <3>2. Job(r) \in Jobs
      BY <3>1, OwnJob
    <3>3. /\ row' \in {CompletedRow(Job(r)), ReleasedRow(Job(r))}
               \cup {FailedRow(Job(r), due) : due \in BOOLEAN}
          /\ run' \in {NextJob(r), Goto(r, "mark_completed")}
      BY <1>0, <1>8, <2>2 DEF MarkProcessed, MarkCompleted, MarkFailed, ReleaseClaim, Update
    <3>4. /\ row'[Job(r)].status # "processing"
          /\ \A j \in Jobs : j # Job(r) => row'[j] = row[j]
      <4>0. MaxAttempts \in Nat
        BY OutboxAssumption
      <4>1. CASE row' = CompletedRow(Job(r))
        BY <1>0, <3>2, <4>0, <4>1, RowFacts
      <4>2. CASE row' = ReleasedRow(Job(r))
        BY <1>0, <3>2, <4>0, <4>2, RowFacts
      <4>3. ASSUME NEW due \in BOOLEAN, row' = FailedRow(Job(r), due)
            PROVE  /\ row'[Job(r)].status # "processing"
                   /\ \A j \in Jobs : j # Job(r) => row'[j] = row[j]
        BY <1>0, <3>2, <4>0, <4>3, RowFacts
      <4> QED BY <3>3, <4>1, <4>2, <4>3
    <3>5. CASE run' = NextJob(r)
      BY <2>2, <3>1, <3>2, <3>4, <3>5, NextAttended
    <3>6. CASE run' = Goto(r, "mark_completed")
      <4>1. \A j \in Jobs : row'[j].status = "processing" => row[j].status = "processing"
        BY <3>4
      <4> QED BY <2>2, <3>1, <3>6, <4>1, GotoAttended DEF Points
    <3> QED BY <3>3, <3>5, <3>6
  <2> QED BY <1>8, <2>1, <2>2
          DEF MarkProcessed, MarkCompleted, MarkFailed, ReleaseClaim, Update
<1>9. ASSUME NEW r \in Runs, Crash(r) PROVE Attended'
  BY <1>0, <1>9 DEF Crash, Attended
<1>10. ASSUME NEW batch \in SUBSET Jobs, Requeue(batch) PROVE Attended'
  <2>1. \A j \in Jobs : row'[j].status = "processing" => row[j].status = "processing"
    BY <1>10 DEF Requeue
  <2> QED BY <1>1, <1>10, <2>1 DEF Requeue
<1>11. CASE UNCHANGED vars
  BY <1>1, <1>11 DEF vars, budgetVars
<1> QED BY <1>3, <1>4, <1>5, <1>6, <1>7, <1>8, <1>9, <1>10, <1>11 DEF Next, Step

\* A row is orphaned only by a killed run or a failed statement.
OrphansHaveACause == (\E j \in Jobs : Orphaned(j)) => faults > 0 \/ crashes > 0

\* As long as no process is killed and no statement fails a claimed job is in the hands
\* of a run: no outcome of a dispatch, no probe and no other run's claim leaves a
\* row in 'processing', where claimPending never looks (the safety half of
\* SettlesOrOrphaned).
THEOREM OnlyFaultsOrphan == Spec => []OrphansHaveACause
<1>1. Init => Attended
  BY DEF Init, Attended, AbsentRow
<1>2. (TypeOK /\ Shape /\ Owned) /\ Attended /\ [Next]_vars => Attended'
  BY AttendedStep
<1>3. TypeOK /\ Attended => OrphansHaveACause
  <2> SUFFICES ASSUME TypeOK, Attended, NEW j \in Jobs, Orphaned(j), faults = 0, crashes = 0
               PROVE  FALSE
    BY OutboxAssumption DEF OrphansHaveACause, TypeOK
  <2> QED BY DEF Attended, Orphaned
<1> QED BY <1>1, <1>2, <1>3, Reachable, PTL DEF Spec

-------------------------------------------------------------------------------
(* The refinement: the outbox implements OutboxQueue.  Every step of the     *)
(* processor runs, of the producers and of the operators is a step of the    *)
(* abstract queue, or leaves it alone, until a statement fails.              *)

(***************************************************************************)
(* While no statement has failed, the point a run has reached tells the    *)
(* status of its row also where Owned leaves it open.                      *)
(***************************************************************************)
Smooth ==
  faults = 0 =>
    \A r \in Runs :
      /\ run[r].pc = "mark_completed" => row[Job(r)].status = "completed"
      /\ run[r].pc = "mark_failed" => row[Job(r)].status = "processing"

\* A step of a run leaves the rows of the others' jobs alone.
LEMMA SmoothKept ==
  ASSUME TypeOK, Shape, Owned, Smooth, faults' = faults, NEW r \in Runs,
         \A s \in Runs : s # r => run'[s] = run[s],
         \A s \in Runs \ {r} : run[s].pc \in {"mark_completed", "mark_failed"} =>
            row'[Job(s)].status = row[Job(s)].status,
         faults = 0 /\ run'[r].pc = "mark_completed" => row'[run'[r].cur].status = "completed",
         faults = 0 /\ run'[r].pc = "mark_failed" => row'[run'[r].cur].status = "processing"
  PROVE  Smooth'
BY DEF Smooth, Job

\* A run inside the loop body holds a 'processing' row but at the two points Smooth is about.
LEMMA RowInHand ==
  ASSUME TypeOK, Shape, Owned, NEW r \in Runs,
         run[r].pc \notin {"idle", "next", "mark_completed", "mark_failed"}
  PROVE  Job(r) \in Jobs /\ row[Job(r)].status = "processing"
BY OwnJob DEF Owned, HeldRow

LEMMA SmoothStep == TypeOK /\ Shape /\ Owned /\ Smooth /\ [Next]_vars => Smooth'
<1> SUFFICES ASSUME TypeOK, Shape, Owned, Smooth, [Next]_vars, faults' = 0 PROVE Smooth'
  BY DEF Smooth
<1> USE OutboxAssumption
<1>0. faults = 0 /\ faults' = faults /\ run \in [Runs -> Run] /\ row \in [Jobs -> Row]
  <2>1. faults \in Nat
    BY DEF TypeOK
  <2>2. faults' = faults \/ faults' = faults + 1
    BY DEF Next, Step, Enqueue, Elapse, Claim, TakeJob, CheckProcessed, DispatchToEndpoint,
           DispatchInternally, CheckEffect, SyncRanking, PersistEffect, PersistDispatch,
           MarkProcessed, MarkCompleted, MarkFailed, ReleaseClaim, Crash, Requeue, Update, vars
  <2> QED BY <2>1, <2>2 DEF TypeOK
<1>1. CASE UNCHANGED vars
  BY <1>1 DEF vars, Smooth, Job
\* The rows of jobs at the two points are 'processing' or 'completed'.
<1>2. \A r \in Runs : run[r].pc \in {"mark_completed", "mark_failed"} =>
        /\ Job(r) \in Jobs
        /\ row[Job(r)].status \in {"processing", "completed"}
        /\ \A s \in Runs : s # r /\ run[s].pc \notin {"idle", "next"} => Job(s) # Job(r)
  <2> SUFFICES ASSUME NEW r \in Runs, run[r].pc \in {"mark_completed", "mark_failed"}
               PROVE  /\ Job(r) \in Jobs
                      /\ row[Job(r)].status \in {"processing", "completed"}
                      /\ \A s \in Runs : s # r /\ run[s].pc \notin {"idle", "next"}
                           => Job(s) # Job(r)
    OBVIOUS
  <2>1. Job(r) \in Jobs /\ Job(r) \in Holds(r) /\ \A s \in Runs : s # r => Job(r) \notin Holds(s)
    BY OwnJob
  <2>2. \A s \in Runs : run[s].pc \notin {"idle", "next"} => Job(s) \in Holds(s)
    BY OwnJob
  <2> QED BY <2>1, <2>2 DEF Owned, HeldRow
<1>3. ASSUME run' = run,
             \A j \in Jobs : row[j].status \in {"processing", "completed"}
                => row'[j].status = row[j].status
      PROVE  Smooth'
  BY <1>0, <1>2, <1>3 DEF Smooth, Job
<1>4. ASSUME NEW j \in Jobs, Enqueue(j) \/ Elapse(j) PROVE Smooth'
  <2>1. run' = run /\ \A i \in Jobs : row[i].status \in {"processing", "completed"}
                        => row'[i].status = row[i].status
    BY <1>0, <1>4 DEF Enqueue, Elapse, Row
  <2> QED BY <1>3, <2>1
<1>5. ASSUME NEW batch \in SUBSET Jobs, Requeue(batch) PROVE Smooth'
  <2>1. run' = run /\ \A i \in Jobs : row[i].status \in {"processing", "completed"}
                        => row'[i].status = row[i].status
    BY <1>0, <1>5 DEF Requeue, Row
  <2> QED BY <1>3, <2>1
<1>6. ASSUME NEW r \in Runs, NEW mode \in Modes, NEW via \in Vias, Claim(r, mode, via)
      PROVE  Smooth'
  <2>1. Batch \in SUBSET Jobs /\ \A j \in Batch : row[j].status \notin {"processing", "completed"}
    BY DEF Batch, Claimable
  <2>2. row' = Claimed(Batch)
        /\ run' = [run EXCEPT ![r] = [pc |-> "next", mode |-> mode, via |-> via,
                                      todo |-> Batch, cur |-> NoJob]]
    BY <1>0, <1>6 DEF Claim
  <2>3. run'[r].pc = "next" /\ \A s \in Runs : s # r => run'[s] = run[s]
    BY <1>0, <2>2
  <2>4. \A j \in Jobs : row[j].status \in {"processing", "completed"} => row'[j] = row[j]
    BY <1>0, <2>1, <2>2, ClaimedFacts
  <2> QED BY <1>0, <1>2, <2>3, <2>4, SmoothKept
\* A run ends its job, or itself, and writes at most the row in its hands.
<1>7. ASSUME NEW r \in Runs, run' = NextJob(r) \/ run' = Abort(r),
             run[r].pc \notin {"idle", "next"} \/ row' = row,
             \A j \in Jobs : j # Job(r) => row'[j] = row[j]
      PROVE  Smooth'
  <2>1. run'[r].pc \in {"idle", "next"} /\ \A s \in Runs : s # r => run'[s] = run[s]
    BY <1>0, <1>7, NextJobFacts, AbortFacts DEF NoRun
  <2>2. \A s \in Runs \ {r} : run[s].pc \in {"mark_completed", "mark_failed"} =>
          row'[Job(s)].status = row[Job(s)].status
    BY <1>2, <1>7
  <2> QED BY <1>0, <2>1, <2>2, SmoothKept
\* A run moves on inside the loop body.
<1>8. ASSUME NEW r \in Runs, NEW p \in Points, run' = Goto(r, p), run[r].pc \notin {"idle", "next"},
             \A j \in Jobs : j # Job(r) => row'[j] = row[j],
             p = "mark_completed" => row'[Job(r)].status = "completed",
             p = "mark_failed" => row'[Job(r)].status = "processing"
      PROVE  Smooth'
  <2>1. run'[r].pc = p /\ run'[r].cur = Job(r) /\ \A s \in Runs : s # r => run'[s] = run[s]
    BY <1>0, <1>8, GotoFacts DEF Job
  <2>2. \A s \in Runs \ {r} : run[s].pc \in {"mark_completed", "mark_failed"} =>
          row'[Job(s)].status = row[Job(s)].status
    BY <1>2, <1>8
  <2> QED BY <1>0, <1>8, <2>1, <2>2, SmoothKept
<1>9. ASSUME NEW r \in Runs, TakeJob(r) PROVE Smooth'
  <2>1. run'[r].pc \in {"idle", "check"} /\ row' = row /\ \A s \in Runs : s # r => run'[s] = run[s]
    <3>1. CASE run[r].todo = {}
      BY <1>0, <1>9, <3>1, AbortFacts DEF TakeJob, NoRun
    <3>2. CASE run[r].todo # {}
      <4>1. PICK j \in run[r].todo :
              run' = [run EXCEPT ![r].pc = "check", ![r].cur = j, ![r].todo = @ \ {j}]
        BY <1>9, <3>2 DEF TakeJob
      <4>2. row' = row
        BY <1>9 DEF TakeJob
      <4> QED BY <1>0, <4>1, <4>2 DEF Run
    <3> QED BY <3>1, <3>2
  <2>2. \A s \in Runs \ {r} : run[s].pc \in {"mark_completed", "mark_failed"} =>
          row'[Job(s)].status = row[Job(s)].status
    BY <2>1
  <2>3. run'[r].pc \notin {"mark_completed", "mark_failed"}
    BY <2>1
  <2> QED BY <1>0, <2>1, <2>2, <2>3, SmoothKept
<1>10. ASSUME NEW r \in Runs, CheckProcessed(r) PROVE Smooth'
  <2>1. run' = Goto(r, AfterCheck(r)) /\ row' = row /\ run[r].pc = "check"
    BY <1>0, <1>10 DEF CheckProcessed, At
  <2>2. AfterCheck(r) \in Points \ {"mark_completed", "mark_failed"}
    BY DEF AfterCheck, Points
  <2> QED BY <1>8, <2>1, <2>2
<1>11. ASSUME NEW r \in Runs, \/ DispatchToEndpoint(r) \/ DispatchInternally(r) \/ CheckEffect(r)
                              \/ SyncRanking(r) \/ PersistEffect(r) \/ PersistDispatch(r)
       PROVE  Smooth'
  <2>1. run[r].pc \in {"dispatch", "effect_check", "sync", "effect", "ledger"} /\ row' = row
    BY <1>11 DEF DispatchToEndpoint, DispatchInternally, CheckEffect, SyncRanking,
                 PersistEffect, PersistDispatch, At
  <2>2. row[Job(r)].status = "processing"
    BY <2>1, RowInHand
  <2>3. Kind[Job(r)] \in Kinds
    BY <2>1, RowInHand DEF Kinds
  <2>4. PICK p \in Points \ {"mark_completed"} : run' = Goto(r, p)
    <3>1. CASE DispatchToEndpoint(r)
      BY <3>1 DEF DispatchToEndpoint, Dispatched, Caught, Points
    <3>2. CASE DispatchInternally(r)
      BY <2>3, <3>2 DEF DispatchInternally, Caught, Points, Kinds
    <3>3. CASE CheckEffect(r) \/ SyncRanking(r)
      BY <3>3 DEF CheckEffect, SyncRanking, Caught, Points
    <3>4. CASE PersistEffect(r) \/ PersistDispatch(r)
      BY <3>4 DEF PersistEffect, PersistDispatch, Dispatched, Caught, Points
    <3> QED BY <1>11, <3>1, <3>2, <3>3, <3>4
  <2> QED BY <1>8, <2>1, <2>2, <2>4
<1>12. ASSUME NEW r \in Runs, MarkProcessed(r) PROVE Smooth'
  <2>1. run[r].pc = "mark_processed" /\ row' = CompletedRow(Job(r)) /\ run' = Goto(r, "mark_completed")
    BY <1>0, <1>12 DEF MarkProcessed, Update, At
  <2>2. Job(r) \in Jobs
    BY <2>1, RowInHand
  <2>3. row'[Job(r)].status = "completed" /\ \A j \in Jobs : j # Job(r) => row'[j] = row[j]
    BY <1>0, <2>1, <2>2 DEF CompletedRow, Row
  <2> QED BY <1>8, <2>1, <2>3 DEF Points
<1>13. ASSUME NEW r \in Runs, MarkCompleted(r) \/ MarkFailed(r) \/ ReleaseClaim(r) PROVE Smooth'
  <2>1. run[r].pc \in {"mark_completed", "mark_failed", "release"}
    BY <1>13 DEF MarkCompleted, MarkFailed, ReleaseClaim, At, Owned
  <2>2. Job(r) \in Jobs
    BY <2>1, OwnJob
  <2>3. run' = NextJob(r)
    BY <1>0, <1>13 DEF MarkCompleted, MarkFailed, ReleaseClaim, Update
  <2>4. \E due \in BOOLEAN :
          row' \in {CompletedRow(Job(r)), FailedRow(Job(r), due), ReleasedRow(Job(r))}
    <3>1. CASE MarkFailed(r)
      <4>1. PICK due \in BOOLEAN : Update(FailedRow(Job(r), due), NextJob(r), Abort(r))
        BY <3>1 DEF MarkFailed
      <4>2. row' = FailedRow(Job(r), due)
        BY <1>0, <4>1 DEF Update
      <4> QED BY <4>1, <4>2
    <3>2. CASE MarkCompleted(r) \/ ReleaseClaim(r)
      <4>1. row' = CompletedRow(Job(r)) \/ row' = ReleasedRow(Job(r))
        BY <1>0, <3>2 DEF MarkCompleted, ReleaseClaim, Update
      <4>2. row' \in {CompletedRow(Job(r)), FailedRow(Job(r), TRUE), ReleasedRow(Job(r))}
        BY <4>1
      <4> QED BY <4>2
    <3> QED BY <1>13, <3>1, <3>2
  <2>5. \A j \in Jobs : j # Job(r) => row'[j] = row[j]
    BY <1>0, <2>2, <2>4, RowFacts
  <2> QED BY <1>7, <2>1, <2>3, <2>5
<1>14. ASSUME NEW r \in Runs, Crash(r) PROVE Smooth'
  <2>1. run' = Abort(r) /\ row' = row
    BY <1>14 DEF Crash
  <2> QED BY <1>7, <2>1
<1> QED BY <1>1, <1>4, <1>5, <1>6, <1>9, <1>10, <1>11, <1>12, <1>13, <1>14 DEF Next, Step
LEMMA SmoothInit == Init => Smooth
BY DEF Init, Smooth, NoRun

(***************************************************************************)
(* One step.  What the mapping sees of a step are the statuses.            *)
(***************************************************************************)
LEMMA PhaseFacts ==
  ASSUME TypeOK, NEW j \in Jobs
  PROVE  /\ Phase(j) = "absent" <=> row[j].status = "absent"
         /\ Phase(j) = "ready" <=> row[j].status \in {"pending", "failed"}
         /\ Phase(j) = "taken" <=> row[j].status = "processing"
         /\ Phase(j) = "done" <=> row[j].status = "completed"
         /\ Phase(j) = "dead" <=> row[j].status = "dead_letter"
BY DEF Phase, TypeOK, Row, Statuses

\* Rows whose status does not change keep their phase.
LEMMA PhaseKept ==
  ASSUME NEW j \in Jobs, row'[j].status = row[j].status
  PROVE  Phase(j)' = Phase(j)
BY DEF Phase

\* The rows of S go from one status to another, the others keep theirs.
LEMMA MoveFacts ==
  ASSUME TypeOK, TypeOK', NEW S \in SUBSET Jobs, NEW from, NEW to,
         \A j \in S : Phase(j) = from /\ Phase(j)' = to,
         \A j \in Jobs \ S : row'[j].status = row[j].status
  PROVE  Queue!Move(S, {from}, to)
<1>1. \A j \in Jobs : Phase(j)' = IF j \in S THEN to ELSE Phase(j)
  BY PhaseKept
<1> QED BY <1>1 DEF Queue!Move
\* A step that changes no status, records no effect and revives nothing is a stutter.
LEMMA StutterFacts ==
  ASSUME \A j \in Jobs : row'[j].status = row[j].status,
         UNCHANGED <<delivered, ledger, audit, faults>>
  PROVE  UNCHANGED Queue!qvars
<1>1. \A j \in Jobs : Phase(j)' = Phase(j)
  BY PhaseKept
<1> QED BY <1>1 DEF Queue!qvars

\* Recording an effect of a 'processing' row is Handle.
LEMMA HandleFacts ==
  ASSUME TypeOK, NEW k \in Jobs, row[k].status = "processing", row' = row,
         \/ delivered' \in {delivered, delivered \cup {k}} /\ ledger' = ledger
         \/ ledger' \in {ledger, ledger \cup {k}} /\ delivered' = delivered,
         audit' = audit, faults' = faults
  PROVE  [Queue!QNext]_(Queue!qvars)
<1>1. \A j \in Jobs : Phase(j)' = Phase(j)
  BY PhaseKept
<1>2. Phase(k) = "taken"
  BY PhaseFacts
<1>3. CASE delivered' \cup ledger' = delivered \cup ledger
  BY <1>1, <1>3 DEF Queue!qvars
<1>4. CASE delivered' \cup ledger' = (delivered \cup ledger) \cup {k}
  <2>1. Queue!Handle(k)
    BY <1>1, <1>2, <1>4 DEF Queue!Handle
  <2> QED BY <2>1 DEF Queue!QNext
<1> QED BY <1>3, <1>4

\* A 'processing' row whose job has been handled becomes 'completed': Finish.
LEMMA FinishFacts ==
  ASSUME TypeOK, TypeOK', NEW k \in Jobs, k \in delivered \cup ledger,
         row[k].status = "processing", row'[k].status = "completed",
         \A j \in Jobs \ {k} : row'[j].status = row[j].status,
         UNCHANGED <<delivered, ledger, audit, faults>>
  PROVE  Queue!QNext
<1>1. Phase(k) = "taken" /\ Phase(k)' = "done"
  BY PhaseFacts DEF Phase
<1>2. Queue!Move({k}, {"taken"}, "done")
  BY <1>1, MoveFacts
<1>3. Queue!Finish(k)
  BY <1>2 DEF Queue!Finish
<1> QED BY <1>3 DEF Queue!QNext

\* A 'processing' row is given back, for another attempt or none: Return, GiveUp.
LEMMA LetGoFacts ==
  ASSUME TypeOK, TypeOK', NEW k \in Jobs, row[k].status = "processing",
         row'[k].status \in {"pending", "failed", "dead_letter"},
         \A j \in Jobs \ {k} : row'[j].status = row[j].status,
         UNCHANGED <<delivered, ledger, audit, faults>>
  PROVE  Queue!QNext
<1>1. Phase(k) = "taken" /\ Phase(k)' \in {"ready", "dead"}
  BY PhaseFacts DEF Phase
<1>2. CASE Phase(k)' = "ready"
  <2>1. Queue!Move({k}, {"taken"}, "ready")
    BY <1>1, <1>2, MoveFacts
  <2>2. Queue!Return(k)
    BY <2>1 DEF Queue!Return
  <2> QED BY <2>2 DEF Queue!QNext
<1>3. CASE Phase(k)' = "dead"
  <2>1. Queue!Move({k}, {"taken"}, "dead")
    BY <1>1, <1>3, MoveFacts
  <2>2. Queue!GiveUp(k)
    BY <2>1 DEF Queue!GiveUp
  <2> QED BY <2>2 DEF Queue!QNext
<1> QED BY <1>1, <1>2, <1>3

LEMMA QueueStep ==
  TypeOK /\ TypeOK' /\ Shape /\ Owned /\ Recorded /\ Smooth /\ [Next]_vars
    => [Queue!QNext]_(Queue!qvars)
<1> SUFFICES ASSUME TypeOK, TypeOK', Shape, Owned, Recorded, Smooth, [Next]_vars
             PROVE  [Queue!QNext]_(Queue!qvars)
  OBVIOUS
<1> USE OutboxAssumption
<1>0. run \in [Runs -> Run] /\ row \in [Jobs -> Row] /\ row' \in [Jobs -> Row]
  BY DEF TypeOK
\* Once a statement has failed the queue promises nothing more.
<1>1. CASE faults' # 0
  <2>1. faults' > 0
    BY <1>1 DEF TypeOK
  <2> QED BY <2>1 DEF Queue!QNext
<1>2. CASE UNCHANGED vars
  BY <1>2, StutterFacts DEF vars
<1>3. ASSUME faults' = 0, Next PROVE [Queue!QNext]_(Queue!qvars)
  <2>0. faults = 0 /\ faults' = faults
    <3>1. faults \in Nat
      BY DEF TypeOK
    <3>2. faults' = faults \/ faults' = faults + 1
      BY <1>3 DEF Next, Step, Enqueue, Elapse, Claim, TakeJob, CheckProcessed,
         DispatchToEndpoint, DispatchInternally, CheckEffect, SyncRanking, PersistEffect,
         PersistDispatch, MarkProcessed, MarkCompleted, MarkFailed, ReleaseClaim, Crash,
         Requeue, Update
    <3> QED BY <1>3, <3>1, <3>2
  <2>1. ASSUME NEW j \in Jobs, Enqueue(j) PROVE [Queue!QNext]_(Queue!qvars)
    <3>1. row[j].status = "absent" /\ row'[j].status = "pending"
          /\ (\A i \in Jobs \ {j} : row'[i].status = row[i].status)
      BY <1>0, <2>1 DEF Enqueue
    <3>2. Phase(j) = "absent" /\ Phase(j)' = "ready"
      BY <3>1, PhaseFacts DEF Phase
    <3>3. Queue!Move({j}, {"absent"}, "ready")
      BY <3>1, <3>2, MoveFacts
    <3>4. Queue!Put(j)
      BY <2>1, <3>3 DEF Queue!Put, Enqueue, handleVars
    <3> QED BY <2>0, <3>4 DEF Queue!QNext
  <2>2. ASSUME NEW j \in Jobs, Elapse(j) PROVE [Queue!QNext]_(Queue!qvars)
    <3>1. \A i \in Jobs : row'[i].status = row[i].status
      BY <1>0, <2>2 DEF Elapse, Row
    <3> QED BY <2>2, <3>1, StutterFacts DEF Elapse, handleVars
  <2>3. ASSUME NEW r \in Runs, NEW mode \in Modes, NEW via \in Vias, Claim(r, mode, via)
        PROVE  [Queue!QNext]_(Queue!qvars)
    <3>1. Batch \in SUBSET Jobs /\ \A j \in Batch : row[j].status \in {"pending", "failed"}
      BY DEF Batch, Claimable
    <3>2. row' = Claimed(Batch) /\ UNCHANGED <<handleVars, audit>>
      BY <2>3 DEF Claim
    <3>3. \A j \in Batch : Phase(j) = "ready" /\ Phase(j)' = "taken"
      BY <1>0, <3>1, <3>2, ClaimedFacts, PhaseFacts DEF Phase
    <3>4. \A j \in Jobs \ Batch : row'[j].status = row[j].status
      BY <1>0, <3>1, <3>2, ClaimedFacts
    <3>5. Queue!Move(Batch, {"ready"}, "taken")
      BY <3>1, <3>3, <3>4, MoveFacts
    <3>6. Queue!Take(Batch)
      BY <3>2, <3>5 DEF Queue!Take, handleVars
    <3> QED BY <2>0, <3>1, <3>6 DEF Queue!QNext
  <2>4. ASSUME NEW r \in Runs,
               \/ TakeJob(r) \/ CheckProcessed(r) \/ DispatchInternally(r) \/ CheckEffect(r)
               \/ SyncRanking(r) \/ PersistEffect(r) \/ Crash(r)
        PROVE  [Queue!QNext]_(Queue!qvars)
    <3>1. UNCHANGED <<row, delivered, ledger, audit>>
      BY <2>4 DEF TakeJob, CheckProcessed, DispatchInternally, CheckEffect, SyncRanking,
                  PersistEffect, Crash, handleVars
    <3> QED BY <2>0, <3>1, StutterFacts
  <2>5. ASSUME NEW r \in Runs, DispatchToEndpoint(r) \/ PersistDispatch(r)
        PROVE  [Queue!QNext]_(Queue!qvars)
    <3>1. Job(r) \in Jobs /\ row[Job(r)].status = "processing"
      BY <2>5, RowInHand DEF DispatchToEndpoint, PersistDispatch, At
    <3>2. UNCHANGED <<row, audit>>
      BY <2>5 DEF DispatchToEndpoint, PersistDispatch
    <3>3. \/ delivered' \in {delivered, delivered \cup {Job(r)}} /\ ledger' = ledger
          \/ ledger' \in {ledger, ledger \cup {Job(r)}} /\ delivered' = delivered
      BY <2>5 DEF DispatchToEndpoint, PersistDispatch
    <3> QED BY <2>0, <3>1, <3>2, <3>3, HandleFacts
  <2>6. ASSUME NEW r \in Runs, MarkProcessed(r) PROVE [Queue!QNext]_(Queue!qvars)
    <3>1. run[r].pc = "mark_processed" /\ row' = CompletedRow(Job(r)) /\ UNCHANGED <<handleVars, audit>>
      BY <2>0, <2>6 DEF MarkProcessed, Update, At
    <3>2. Job(r) \in Jobs /\ row[Job(r)].status = "processing"
      BY <3>1, RowInHand
    <3>3. row'[Job(r)].status = "completed" /\ \A j \in Jobs \ {Job(r)} : row'[j].status = row[j].status
      BY <1>0, <3>1, <3>2 DEF CompletedRow, Row
    <3>4. Job(r) \in delivered \cup ledger
      BY <3>1 DEF Recorded, Trail
    <3> QED BY <2>0, <3>1, <3>2, <3>3, <3>4, FinishFacts DEF handleVars
  <2>7. ASSUME NEW r \in Runs, MarkCompleted(r) PROVE [Queue!QNext]_(Queue!qvars)
    <3>1. run[r].pc = "mark_completed" /\ row' = CompletedRow(Job(r)) /\ UNCHANGED <<handleVars, audit>>
      BY <2>0, <2>7 DEF MarkCompleted, Update, Owned
    <3>2. Job(r) \in Jobs /\ row[Job(r)].status = "completed"
      BY <2>0, <3>1, OwnJob DEF Smooth
    <3>3. \A j \in Jobs : row'[j].status = row[j].status
      BY <1>0, <3>1, <3>2 DEF CompletedRow, Row
    <3> QED BY <2>0, <3>1, <3>3, StutterFacts DEF handleVars
  <2>8. ASSUME NEW r \in Runs, MarkFailed(r) PROVE [Queue!QNext]_(Queue!qvars)
    <3>1. PICK due \in BOOLEAN : row' = FailedRow(Job(r), due)
      BY <2>0, <2>8 DEF MarkFailed, Update
    <3>2. Job(r) \in Jobs /\ row[Job(r)].status = "processing"
      BY <2>0, <2>8, OwnJob DEF Smooth, MarkFailed, At
    <3>3. row'[Job(r)].status \in {"failed", "dead_letter"}
          /\ \A j \in Jobs \ {Job(r)} : row'[j].status = row[j].status
      BY <1>0, <3>1, <3>2 DEF FailedRow, Row
    <3>4. UNCHANGED <<handleVars, audit>>
      BY <2>8 DEF MarkFailed
    <3> QED BY <2>0, <3>2, <3>3, <3>4, LetGoFacts DEF handleVars
  <2>9. ASSUME NEW r \in Runs, ReleaseClaim(r) PROVE [Queue!QNext]_(Queue!qvars)
    <3>1. run[r].pc = "release" /\ row' = ReleasedRow(Job(r)) /\ UNCHANGED <<handleVars, audit>>
      BY <2>0, <2>9 DEF ReleaseClaim, Update, At
    <3>2. Job(r) \in Jobs /\ row[Job(r)].status = "processing"
      BY <3>1, RowInHand
    <3>3. row'[Job(r)].status = "pending"
          /\ \A j \in Jobs \ {Job(r)} : row'[j].status = row[j].status
      BY <1>0, <3>1, <3>2 DEF ReleasedRow, Row
    <3> QED BY <2>0, <3>1, <3>2, <3>3, LetGoFacts DEF handleVars
  <2>10. ASSUME NEW batch \in SUBSET Jobs, Requeue(batch) PROVE [Queue!QNext]_(Queue!qvars)
    <3>1. \A j \in batch : row[j].status = "dead_letter" /\ row'[j].status = "pending"
      BY <1>0, <2>10 DEF Requeue
    <3>2. \A j \in Jobs \ batch : row'[j].status = row[j].status
      BY <1>0, <2>10 DEF Requeue
    <3>3. \A j \in batch : Phase(j) = "dead" /\ Phase(j)' = "ready"
      BY <3>1, PhaseFacts DEF Phase
    <3>4. Queue!Move(batch, {"dead"}, "ready")
      BY <3>2, <3>3, MoveFacts
    <3>5. Queue!Revive(batch)
      BY <2>10, <3>4 DEF Queue!Revive, Requeue, handleVars
    <3> QED BY <2>0, <3>5 DEF Queue!QNext
  <2> QED BY <1>3, <2>1, <2>2, <2>3, <2>4, <2>5, <2>6, <2>7, <2>8, <2>9, <2>10 DEF Next, Step
<1> QED BY <1>1, <1>2, <1>3 DEF vars

\* Until one of its statements fails the table is the queue OutboxQueue describes, for any
\* number of runs, jobs, crashes and requeues (the property QueueSpec of the runs).
THEOREM OutboxIsAQueue == Spec => QueueSpec
<1>1. Init => Queue!QInit
  BY DEF Init, Queue!QInit, Phase, AbsentRow
<1>2. Spec => []Smooth
  <2>1. TypeOK /\ Shape /\ Owned /\ Recorded /\ Smooth /\ [Next]_vars => Smooth'
    BY SmoothStep
  <2> QED BY <2>1, SmoothInit, Reachable, PTL DEF Spec
<1> QED BY <1>1, <1>2, QueueStep, Reachable, PTL DEF Spec, QueueSpec, Queue!Spec
=============================================================================
