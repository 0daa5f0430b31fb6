---------------------------- MODULE ProfileInstall ----------------------------
(***************************************************************************)
(* The installation of a profile (apps/control-plane/src/profile-routes.ts)*)
(* and what it drives: for every required package, in the profile's order, *)
(* it creates a plan, applies it and verifies it, keeps a row for the plan *)
(* in its own run, goes on with the next package whatever fails, and at    *)
(* last closes the run with its counts.  Requests of the lifecycle service *)
(* are idempotent under keys made from the correlation id, so a run with   *)
(* the correlation id of an earlier one replays what that one has done.    *)
(*                                                                         *)
(* One profile is modelled, several runs of it in flight together.  A plan *)
(* is made under the policy and the enforcement state of its moment; the   *)
(* state may change at any later time.  Every statement that others can    *)
(* see is a step; any of them may throw, and any run may be cut off.       *)
(***************************************************************************)
EXTENDS PolicyPreflight, Sequences

CONSTANTS
  Runs,          \* run ids
  Packages,      \* packages of the catalog
  Permissions,   \* package -> its declared permissions, or Undeclared
  Undeclared,    \* declared_permissions is null
  Correlations,  \* correlation ids the clients give
  NoCorrelation, \* ... or do not give
  Inputs,        \* what a run may be asked: [mode, policy, correlation]
  MaxEntries,    \* MAX_PROFILE_PACKAGES
  Scenarios      \* bounds: [bundles, inputs, runs, failures, cuts, changes] of a behaviour

\* A package of a profile, at its place in the order of installation.
Listings == [package : Packages, order : Nat, required : BOOLEAN]

ASSUME ProfileAssumption ==
  /\ NoCorrelation \notin Correlations
  /\ Runs \cap Correlations = {}
  /\ MaxEntries \in Nat
  /\ Inputs # {}
  /\ \A in \in Inputs : /\ in.mode \in {"plan_only", "apply_verify"}
                        /\ in.correlation \in Correlations \cup {NoCorrelation}
  /\ Scenarios \subseteq [bundles : SUBSET SUBSET Listings, inputs : SUBSET Inputs, runs : Nat,
                           failures : Nat, cuts : Nat, changes : Nat]
  /\ \A s \in Scenarios : \A bundle \in s.bundles : IsFiniteSet(bundle)

VARIABLES
  profile,      \* its packages: [package, order, required]; {} before it is created
  enforcement,  \* package -> state of its enforcement projection
  plans,        \* install_plans, numbered as they are made
  planKeys,     \* idempotency records of createPlan
  opKeys,       \* idempotency records of apply and verify
  files,        \* packages with an entry in the scope files
  started,      \* history: packages a verification has started a runtime for
  runs,         \* run -> its row in profile_install_runs
  rows,         \* run -> [plan |-> status], its rows in profile_install_run_plans
  outbox,       \* dedupe keys in ingestion_outbox
  job,          \* run -> the local variables of installProfile
  broken,       \* history: runs cut off, or whose plan row could not be added
  lost,         \* history: plans a fault cut off from their idempotency record
  apart,        \* history: no two runs have been in flight together
  bounds        \* what is left of the scenario's bounds

vars == <<profile, enforcement, plans, planKeys, opKeys, files, started, runs, rows,
          outbox, job, broken, lost, apart, bounds>>
lifecycle == <<plans, planKeys, opKeys, files, started, outbox>>
record    == <<runs, rows>>
history   == <<broken, lost, apart>>

Ops  == {"apply", "verify"}
Plan == [package : Packages, policy : {in.policy : in \in Inputs},
         blocked : BOOLEAN, apply : Nat, verify : Nat, done : SUBSET Ops]

NoRun == [status |-> "none", total |-> 0, succeeded |-> 0, failed |-> 0, skipped |-> 0]
NoJob == [pc |-> "idle", in |-> CHOOSE in \in Inputs : TRUE, at |-> 1, plan |-> 0,
          made |-> 0, op |-> "apply", number |-> 0, ok |-> FALSE, blocked |-> FALSE,
          planless |-> 0, optional |-> 0,
          counts |-> [succeeded |-> 0, failed |-> 0, skipped |-> 0]]

InFlight(r) == job[r].pc \notin {"idle", "done"}
At(r, pc)   == job[r].pc = pc
Goto(r, pc) == job' = [job EXCEPT ![r].pc = pc]

\* The profile's packages by install_order, and the one a run is at.
Entry(k) == CHOOSE e \in profile : Cardinality({f \in profile : f.order < e.order}) = k - 1
Here(r)  == Entry(job[r].at)

\* correlationBase, the part of every key that a rerun shares.
Base(r) == IF job[r].in.correlation = NoCorrelation THEN r ELSE job[r].in.correlation

\* The run's turn for this package is over.
NextPackage(r, j) == job' = [job EXCEPT ![r] = [j EXCEPT !.pc = "next", !.at = @ + 1,
                                                          !.plan = 0, !.made = 0]]

-------------------------------------------------------------------------------
Init ==
  /\ \E s \in Scenarios : bounds = s
  /\ profile = {}
  /\ enforcement = [p \in Packages |-> "none"]
  /\ plans = <<>> /\ planKeys = {} /\ opKeys = {}
  /\ files = {} /\ started = {}
  /\ runs = [r \in Runs |-> NoRun]
  /\ rows = [r \in Runs |-> <<>>]
  /\ outbox = {}
  /\ job = [r \in Runs |-> NoJob]
  /\ broken = {} /\ lost = {} /\ apart = TRUE

\* normalizeProfilePackages: what is refused before anything is written.
Normalized(bundle) ==
  /\ bundle # {} /\ Cardinality(bundle) <= MaxEntries
  /\ \A e, f \in bundle : e.order = f.order => e = f

\* UNIQUE (profile_internal_id, package_id) rolls the transaction back.
UniquePackages(bundle) == \A e, f \in bundle : e.package = f.package => e = f

\* The profile and its packages are written in one transaction; an import is the same.
CreateProfile ==
  /\ profile = {}
  /\ \E bundle \in bounds.bundles :
       /\ Normalized(bundle) /\ UniquePackages(bundle)
       /\ profile' = bundle
  /\ UNCHANGED <<enforcement, lifecycle, record, job, history, bounds>>

\* The security governance writes the enforcement projection of a package.
Enforce(p) ==
  /\ bounds.changes > 0
  /\ \E state \in {"flagged", "policy_blocked_temp"} :
       enforcement' = [enforcement EXCEPT ![p] = state]
  /\ bounds' = [bounds EXCEPT !.changes = @ - 1]
  /\ UNCHANGED <<profile, lifecycle, record, job, history>>

\* installProfile: the profile is read and the input normalized.
Begin(r) ==
  /\ At(r, "idle") /\ profile # {}
  /\ bounds.runs > 0
  /\ bounds' = [bounds EXCEPT !.runs = @ - 1]
  /\ \E in \in bounds.inputs : job' = [job EXCEPT ![r].pc = "create", ![r].in = in]
  /\ apart' = (apart /\ \A q \in Runs : ~InFlight(q))
  /\ UNCHANGED <<profile, enforcement, lifecycle, record, broken, lost>>

CreateInstallRun(r) ==
  /\ At(r, "create")
  /\ runs' = [runs EXCEPT ![r] = [NoRun EXCEPT !.status = "pending",
                                               !.total = Cardinality(profile)]]
  /\ Goto(r, "next")
  /\ UNCHANGED <<profile, enforcement, lifecycle, rows, history, bounds>>

\* The head of the loop: an optional package is skipped, one without declared
\* permissions fails without a plan.
TakePackage(r) ==
  /\ At(r, "next")
  /\ \/ job[r].at > Cardinality(profile) /\ Goto(r, "read")
     \/ /\ job[r].at <= Cardinality(profile)
        /\ \/ /\ ~Here(r).required
              /\ NextPackage(r, [job[r] EXCEPT !.optional = @ + 1])
           \/ /\ Here(r).required /\ Permissions[Here(r).package] = Undeclared
              /\ NextPackage(r, [job[r] EXCEPT !.planless = @ + 1])
           \/ /\ Here(r).required /\ Permissions[Here(r).package] # Undeclared
              /\ Goto(r, "lookup")
  /\ UNCHANGED <<profile, enforcement, lifecycle, record, history, bounds>>

-------------------------------------------------------------------------------
(* createPlan *)

\* Mutant: the request hash leaves the policy out.
SamePackage(k, r) == k.package = Here(r).package

\* buildLifecycleRequestHash: package, permissions and policy.
SameRequest(k, r) == k.package = Here(r).package /\ k.policy = job[r].in.policy

KeyOf(k, r) == k.base = Base(r) /\ k.package = Here(r).package

\* Mutant: a key that came with another request counts as unknown.
LookupSameRequest(r) ==
  /\ At(r, "lookup")
  /\ \/ /\ ~\E k \in planKeys : KeyOf(k, r) /\ SameRequest(k, r)
        /\ Goto(r, "preflight")
     \/ \E k \in planKeys :
          /\ KeyOf(k, r) /\ SameRequest(k, r)
          /\ job' = [job EXCEPT ![r].plan = k.plan, ![r].pc = "add"]
  /\ UNCHANGED <<profile, enforcement, lifecycle, record, history, bounds>>

\* A known key is replayed, or refused when it came with another request.
LookupPlan(r) ==
  /\ At(r, "lookup")
  /\ \/ /\ ~\E k \in planKeys : KeyOf(k, r)
        /\ Goto(r, "preflight")
     \/ \E k \in planKeys :
          /\ KeyOf(k, r)
          /\ job' = [job EXCEPT ![r].plan = IF SameRequest(k, r) THEN k.plan ELSE 0,
                                ![r].pc = IF SameRequest(k, r) THEN "add" ELSE "catch"]
  /\ UNCHANGED <<profile, enforcement, lifecycle, record, history, bounds>>

\* The enforcement projection is read and the policy evaluated.
PreflightPlan(r) ==
  LET p == Here(r).package
      outcome == Preflight(job[r].in.policy, p, Permissions[p], enforcement[p], FALSE)
  IN /\ At(r, "preflight")
     /\ job' = [job EXCEPT ![r].pc = "insert", ![r].blocked = (outcome = "policy_blocked")]
     /\ UNCHANGED <<profile, enforcement, lifecycle, record, history, bounds>>

\* Plan, actions and audit row in one transaction.
InsertPlan(r) ==
  /\ At(r, "insert")
  /\ plans' = Append(plans, [package |-> Here(r).package, policy |-> job[r].in.policy,
                             blocked |-> job[r].blocked, apply |-> 0, verify |-> 0,
                             done |-> {}])
  /\ job' = [job EXCEPT ![r].pc = "announce", ![r].made = Len(plans')]
  /\ UNCHANGED <<profile, enforcement, planKeys, opKeys, files, started, outbox, record,
                 history, bounds>>

PublishPlan(r) ==
  /\ At(r, "announce")
  /\ outbox' = outbox \cup {<<"install.plan.created", job[r].made>>}
  /\ Goto(r, "key")
  /\ UNCHANGED <<profile, enforcement, plans, planKeys, opKeys, files, started, record,
                 history, bounds>>

\* The upsert of the idempotency record: over the same request only.
PutPlanKey(r) ==
  LET mine == [base |-> Base(r), package |-> Here(r).package,
               policy |-> job[r].in.policy, plan |-> job[r].made]
      same == {k \in planKeys : KeyOf(k, r)}
  IN /\ At(r, "key")
     /\ \/ /\ \A k \in same : SameRequest(k, r)
           /\ planKeys' = (planKeys \ same) \cup {mine}
           /\ job' = [job EXCEPT ![r].pc = "add", ![r].plan = job[r].made]
        \/ /\ \E k \in same : ~SameRequest(k, r)
           /\ Goto(r, "catch") /\ UNCHANGED planKeys
     /\ UNCHANGED <<profile, enforcement, plans, opKeys, files, started, outbox, record,
                    history, bounds>>

-------------------------------------------------------------------------------
(* The run's row of the plan *)

Row(r, plan, status) ==
  [rows EXCEPT ![r] = [q \in DOMAIN rows[r] \cup {plan} |->
                         IF q = plan THEN status ELSE rows[r][q]]]

\* addInstallRunPlanByPlanId: planned, and for plan_only that is all.
AddRow(r) ==
  /\ At(r, "add")
  /\ rows' = Row(r, job[r].plan, "planned")
  /\ IF job[r].in.mode = "plan_only"
     THEN NextPackage(r, job[r])
     ELSE job' = [job EXCEPT ![r].pc = "ask", ![r].op = "apply"]
  /\ UNCHANGED <<profile, enforcement, lifecycle, runs, history, bounds>>

\* Mutant: a failed verification leaves the row as the apply left it.
UpdateRowOnSuccess(r) ==
  /\ At(r, "row")
  /\ rows' = IF job[r].ok
             THEN Row(r, job[r].plan, IF job[r].op = "apply" THEN "applied" ELSE "verified")
             ELSE rows
  /\ IF job[r].ok /\ job[r].op = "apply"
     THEN job' = [job EXCEPT ![r].pc = "ask", ![r].op = "verify"]
     ELSE NextPackage(r, job[r])
  /\ UNCHANGED <<profile, enforcement, lifecycle, runs, history, bounds>>

\* updateInstallRunPlanStatusByPlanId with the outcome of the operation.
UpdateRow(r) ==
  /\ At(r, "row")
  /\ rows' = Row(r, job[r].plan,
                 CASE ~job[r].ok                           -> "failed"
                   [] job[r].ok /\ job[r].op = "apply"     -> "applied"
                   [] job[r].ok /\ job[r].op = "verify"    -> "verified")
  /\ IF job[r].ok /\ job[r].op = "apply"
     THEN job' = [job EXCEPT ![r].pc = "ask", ![r].op = "verify"]
     ELSE NextPackage(r, job[r])
  /\ UNCHANGED <<profile, enforcement, lifecycle, runs, history, bounds>>

\* Mutant: an error that comes before the plan leaves the run.
CatchPlanned(r) ==
  LET plan == job[r].plan
  IN /\ At(r, "catch")
     /\ \/ /\ plan = 0
           /\ Goto(r, "done") /\ UNCHANGED rows
        \/ /\ plan # 0
           /\ rows' = Row(r, plan, "failed")
           /\ NextPackage(r, job[r])
     /\ UNCHANGED <<profile, enforcement, lifecycle, runs, history, bounds>>

\* The catch block: with a plan its row becomes failed - and when there is no row the
\* update throws out of installProfile - without one the package counts as failed.
Catch(r) ==
  LET plan == job[r].plan
  IN /\ At(r, "catch")
     /\ \/ /\ plan = 0
           /\ NextPackage(r, [job[r] EXCEPT !.planless = @ + 1])
           /\ UNCHANGED <<rows, broken>>
        \/ /\ plan # 0 /\ plan \in DOMAIN rows[r]
           /\ rows' = Row(r, plan, "failed")
           /\ NextPackage(r, job[r])
           /\ UNCHANGED broken
        \/ /\ plan # 0 /\ plan \notin DOMAIN rows[r]
           /\ broken' = broken \cup {r}
           /\ Goto(r, "done") /\ UNCHANGED rows
     /\ UNCHANGED <<profile, enforcement, lifecycle, runs, lost, apart, bounds>>

-------------------------------------------------------------------------------
(* applyPlan and verifyPlan; what they do to one plan, step by step, is the  *)
(* module InstallLifecycle.                                                   *)

OpKey(r) == <<job[r].op, job[r].plan, Base(r)>>

\* A known key replays the response it stored; otherwise the next attempt number of
\* the plan is read.
LookupOp(r) ==
  LET plan == job[r].plan
      op   == job[r].op
      used == {k \in opKeys : k.key = OpKey(r)}
  IN /\ At(r, "ask")
     /\ \/ \E k \in used : job' = [job EXCEPT ![r].pc = "row", ![r].ok = k.ok]
        \/ /\ used = {}
           /\ job' = [job EXCEPT ![r].pc = "work", ![r].number = plans[plan][op] + 1]
     /\ UNCHANGED <<profile, enforcement, lifecycle, record, history, bounds>>

\* Mutant: the policy the plan was made under is not looked at.
MayRunUngated(r, ok) == TRUE

\* A plan the policy blocked fails; of another both outcomes are possible.
MayRun(r, ok) == plans[job[r].plan].blocked => ~ok

\* What no rollback takes back: applying puts the package into the scope files, a
\* verification starts it under the policy input the plan stored; a failing one may have.
DoOp(r) ==
  LET plan   == job[r].plan
      p      == plans[plan].package
      Effect(set, op, ok) ==
        CASE op # job[r].op \/ (plans[plan].blocked /\ ~ok) -> {set}
          [] op = job[r].op /\ ok                          -> {set \cup {p}}
          [] OTHER                                         -> {set, set \cup {p}}
  IN /\ At(r, "work")
     /\ \E ok \in BOOLEAN :
          /\ MayRun(r, ok)
          /\ files' \in Effect(files, "apply", ok)
          /\ started' \in Effect(started, "verify", ok)
          /\ job' = [job EXCEPT ![r].pc = "commit", ![r].ok = ok]
     /\ UNCHANGED <<profile, enforcement, plans, planKeys, opKeys, outbox, record, history,
                    bounds>>

\* The attempt is recorded, unless its number has been taken: then the statement throws.
CommitOp(r) ==
  LET plan == job[r].plan
      op   == job[r].op
  IN /\ At(r, "commit")
     /\ \/ /\ plans[plan][op] >= job[r].number
           /\ Goto(r, "catch") /\ UNCHANGED plans
        \/ /\ plans[plan][op] < job[r].number
           /\ plans' = [plans EXCEPT ![plan][op] = @ + 1,
                                     ![plan].done = IF job[r].ok THEN @ \cup {op} ELSE @]
           /\ Goto(r, "publish")
     /\ UNCHANGED <<profile, enforcement, planKeys, opKeys, files, started, outbox, record,
                    history, bounds>>

PublishOp(r) ==
  /\ At(r, "publish")
  /\ outbox' = outbox \cup {<<job[r].op, job[r].plan, job[r].number, job[r].ok>>}
  /\ Goto(r, "store")
  /\ UNCHANGED <<profile, enforcement, plans, planKeys, opKeys, files, started, record,
                 history, bounds>>

StoreOp(r) ==
  /\ At(r, "store")
  /\ opKeys' = {k \in opKeys : k.key # OpKey(r)} \cup {[key |-> OpKey(r), ok |-> job[r].ok]}
  /\ Goto(r, "row")
  /\ UNCHANGED <<profile, enforcement, plans, planKeys, files, started, outbox, record,
                 history, bounds>>

-------------------------------------------------------------------------------
(* The end of the run *)

WithStatus(r, status) == Cardinality({q \in DOMAIN rows[r] : rows[r][q] = status})

\* Mutant: the packages that failed before they had a plan are forgotten.
CountRowsOnly(r) ==
  [succeeded |-> WithStatus(r, IF job[r].in.mode = "apply_verify" THEN "verified"
                                                                  ELSE "planned"),
   failed |-> WithStatus(r, "failed"), skipped |-> job[r].optional]

Counts(r) ==
  [succeeded |-> WithStatus(r, IF job[r].in.mode = "apply_verify" THEN "verified"
                                                                  ELSE "planned"),
   failed    |-> WithStatus(r, "failed") + job[r].planless,
   skipped   |-> WithStatus(r, "skipped") + job[r].optional]

ReadRun(r) ==
  /\ At(r, "read")
  /\ job' = [job EXCEPT ![r].pc = "complete", ![r].counts = Counts(r)]
  /\ UNCHANGED <<profile, enforcement, lifecycle, record, history, bounds>>

FinalStatus(c) ==
  CASE c.failed = 0                                            -> "succeeded"
    [] c.failed # 0 /\ c.succeeded = 0 /\ c.skipped = 0        -> "failed"
    [] c.failed # 0 /\ ~(c.succeeded = 0 /\ c.skipped = 0)     -> "partially_failed"

CompleteInstallRun(r) ==
  LET c == job[r].counts
  IN /\ At(r, "complete")
     /\ runs' = [runs EXCEPT ![r] = [@ EXCEPT !.status = FinalStatus(c),
                   !.succeeded = c.succeeded, !.failed = c.failed, !.skipped = c.skipped]]
     /\ Goto(r, "done")
     /\ UNCHANGED <<profile, enforcement, lifecycle, rows, history, bounds>>

-------------------------------------------------------------------------------
(* Faults *)

InTry == {"lookup", "preflight", "insert", "announce", "key", "add", "ask", "work",
          "commit", "publish", "store", "row"}

\* The plan a run has inserted and not yet recorded under its key.
Unkeyed(r) == {n \in {job[r].made} : job[r].pc \in {"announce", "key"}}

\* A statement inside the try block of a package throws.
Throw(r) ==
  /\ job[r].pc \in InTry
  /\ bounds.failures > 0
  /\ bounds' = [bounds EXCEPT !.failures = @ - 1]
  /\ lost' = lost \cup Unkeyed(r)
  /\ Goto(r, "catch")
  /\ UNCHANGED <<profile, enforcement, lifecycle, record, broken, apart>>

\* The process dies with the run in it, or a statement outside the try block throws.
Cut(r) ==
  /\ InFlight(r)
  /\ bounds.cuts > 0
  /\ bounds' = [bounds EXCEPT !.cuts = @ - 1]
  /\ broken' = broken \cup {r}
  /\ lost' = lost \cup Unkeyed(r)
  /\ Goto(r, "done")
  /\ UNCHANGED <<profile, enforcement, lifecycle, record, apart>>

Advance(r) ==
  \/ CreateInstallRun(r) \/ TakePackage(r)
  \/ LookupPlan(r) \/ PreflightPlan(r) \/ InsertPlan(r) \/ PublishPlan(r) \/ PutPlanKey(r)
  \/ AddRow(r) \/ LookupOp(r) \/ DoOp(r) \/ CommitOp(r) \/ PublishOp(r) \/ StoreOp(r)
  \/ UpdateRow(r) \/ Catch(r) \/ ReadRun(r) \/ CompleteInstallRun(r)

Next ==
  \/ CreateProfile
  \/ \E p \in Packages : Enforce(p)
  \/ \E r \in Runs : Begin(r) \/ Advance(r) \/ Throw(r) \/ Cut(r)

Spec == Init /\ [][Next]_vars

\* The event loop gets every run on.
Fairness == \A r \in Runs : WF_vars(Advance(r))

LiveSpec == Spec /\ Fairness

-------------------------------------------------------------------------------
Closed == {"succeeded", "partially_failed", "failed"}
RowStatuses == {"planned", "applied", "verified", "failed"}

TypeOK ==
  /\ profile # {} => /\ Normalized(profile)
                     /\ \A e, f \in profile : e.package = f.package => e = f
  /\ \A n \in 1..Len(plans) : plans[n] \in Plan
  /\ \A k \in planKeys : k.plan \in 1..Len(plans)
  /\ \A r \in Runs :
       /\ DOMAIN rows[r] \subseteq 1..Len(plans)
       /\ \A q \in DOMAIN rows[r] : rows[r][q] \in RowStatuses
       /\ runs[r].status \in Closed \cup {"none", "pending"}
       /\ job[r].made \in 0..Len(plans) /\ job[r].plan \in 0..Len(plans)
  /\ files \subseteq Packages /\ started \subseteq Packages

\* A closed run accounts for every package of the profile once, and says succeeded
\* exactly when none failed and every required package has its row in the state the
\* mode asks for, whatever threw, replayed or conflicted on the way.
CountsAreTrue ==
  \A r \in Runs : runs[r].status \in Closed =>
    LET row == runs[r]
        goal == IF job[r].in.mode = "apply_verify" THEN "verified" ELSE "planned"
    IN /\ row.succeeded + row.failed + row.skipped = row.total
       /\ row.status = "succeeded" <=>
            \A e \in profile : e.required =>
              \E q \in DOMAIN rows[r] : plans[q].package = e.package /\ rows[r][q] = goal

\* A row says verified only of a plan that has been applied and verified, by whichever
\* run, both announced, and every row's plan was made for a required package of the
\* profile under the run's policy.
RowsAreTrue ==
  \A r \in Runs : \A q \in DOMAIN rows[r] :
    /\ rows[r][q] = "verified" =>
         \A op \in Ops : /\ op \in plans[q].done
                        /\ \E n \in 1..plans[q][op] : <<op, q, n, TRUE>> \in outbox
    /\ plans[q].policy = job[r].in.policy
    /\ \E e \in profile : e.required /\ e.package = plans[q].package

\* A plan the policy blocked when it was made is never carried out, by no run and no
\* replay: an entry in the scope files, or a runtime started, has an allowed plan.
BlockedPlansDoNothing ==
  /\ \A n \in 1..Len(plans) : plans[n].blocked => plans[n].done = {}
  /\ \A p \in files \cup started :
       \E n \in 1..Len(plans) : plans[n].package = p /\ ~plans[n].blocked

\* While no two runs are in flight together, every plan is the plan of its correlation
\* id and package: the one record of that key names it, unless a fault came in between.
OnePlanPerKey ==
  apart => \A n \in 1..Len(plans) :
    \/ n \in lost
    \/ \E r \in Runs : n \in Unkeyed(r)
    \/ \E k \in planKeys : k.plan = n

\* A run that is neither cut off nor left without the row of its plan is closed.
EveryRunCloses ==
  \A r \in Runs : runs[r].status = "pending" ~> runs[r].status \in Closed \/ r \in broken
===============================================================================
