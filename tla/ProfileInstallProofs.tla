------------------------- MODULE ProfileInstallProofs -------------------------
(***************************************************************************)
(* What ProfileInstall promises, proved for any profile, any catalog, any  *)
(* number of runs in flight together, correlation ids, policies, faults    *)
(* and changes of the enforcement.                                         *)
(***************************************************************************)
EXTENDS ProfileInstall, FiniteSetTheorems, SequenceTheorems, TLAPS

-------------------------------------------------------------------------------
(* Types *)

Policies == {in.policy : in \in Inputs}
Bases    == Runs \cup Correlations
PlanKey  == [base : Bases, package : Packages, policy : Policies, plan : Nat]
OpRecord == [key : Ops \X Nat \X Bases, ok : BOOLEAN]
Tally    == [succeeded : Nat, failed : Nat, skipped : Nat]
InPlan   == {"ask", "work", "commit", "publish", "store", "row"}
Pcs      == InTry \cup {"idle", "create", "next", "catch", "read", "complete", "done"}
Job      == [pc : Pcs, in : Inputs, at : Nat, plan : Nat, made : Nat, op : Ops, number : Nat,
             ok : BOOLEAN, blocked : BOOLEAN, planless : Nat, optional : Nat, counts : Tally]
Run      == [status : Closed \cup {"none", "pending"}, total : Nat, succeeded : Nat,
             failed : Nat, skipped : Nat]

ProfileTypeOK ==
  /\ profile \in SUBSET Listings /\ IsFiniteSet(profile)
  /\ profile # {} => Normalized(profile) /\ UniquePackages(profile)
  /\ plans \in Seq(Plan)
  /\ planKeys \subseteq PlanKey
  /\ opKeys \subseteq OpRecord
  /\ files \subseteq Packages /\ started \subseteq Packages
  /\ runs \in [Runs -> Run]
  /\ rows = [r \in Runs |-> rows[r]]
  /\ job \in [Runs -> Job]
  /\ apart \in BOOLEAN
  /\ bounds \in [bundles : {s.bundles : s \in Scenarios}, inputs : SUBSET Inputs, runs : Nat,
                 failures : Nat, cuts : Nat, changes : Nat]

-------------------------------------------------------------------------------
(* The inductive invariant *)

Goal(r) == IF job[r].in.mode = "apply_verify" THEN "verified" ELSE "planned"

\* Plan n is one for package p under policy q.
Made(n, p, q) == n \in 1..Len(plans) /\ plans[n].package = p /\ plans[n].policy = q

\* An operation of plan n succeeded, is recorded and was announced.
Succeeded(op, n) ==
  op \in plans[n].done /\ \E k \in 1..plans[n][op] : <<op, n, k, TRUE>> \in outbox

\* Where a run is in the profile.
Placed(r) ==
  LET pc == job[r].pc
  IN /\ pc # "idle" => profile # {}
     /\ pc \in InTry \cup {"catch"} =>
          job[r].at \in 1..Cardinality(profile) /\ Here(r).required
     /\ pc = "next" => job[r].at \in 1..(Cardinality(profile) + 1)
     /\ pc \in {"read", "complete"} => job[r].at = Cardinality(profile) + 1
     /\ pc \in {"idle", "create"} =>
          /\ rows[r] = <<>> /\ runs[r].status = "none"
          /\ job[r].at = 1 /\ job[r].plan = 0 /\ job[r].planless = 0 /\ job[r].optional = 0
     /\ pc \notin {"idle", "create", "done"} =>
          runs[r].status = "pending" /\ runs[r].total = Cardinality(profile)

\* The plan it has in hand.
InHand(r) ==
  LET pc == job[r].pc
  IN /\ pc \in {"announce", "key"} => Made(job[r].made, Here(r).package, job[r].in.policy)
     /\ pc \in InPlan \cup {"add"} => Made(job[r].plan, Here(r).package, job[r].in.policy)
     /\ pc = "catch" =>
          job[r].plan = 0 \/ Made(job[r].plan, Here(r).package, job[r].in.policy)
     /\ pc \in {"next", "lookup", "preflight", "insert", "announce", "key", "read",
                "complete"} =>
          job[r].plan = 0

\* How far it is with that plan.
Operating(r) ==
  LET pc == job[r].pc
      n  == job[r].plan
  IN pc \in InPlan =>
       /\ job[r].in.mode = "apply_verify"
       /\ job[r].op = "verify" => Succeeded("apply", n)
       /\ pc \in {"work", "commit"} => job[r].number \in 1..(plans[n][job[r].op] + 1)
       /\ pc = "commit" /\ job[r].ok => ~plans[n].blocked
       /\ pc = "publish" => /\ job[r].number \in 1..plans[n][job[r].op]
                            /\ job[r].ok => job[r].op \in plans[n].done
       /\ pc \in {"store", "row"} /\ job[r].ok => Succeeded(job[r].op, n)

\* Its rows say what has been done, for required packages of the profile.
RowsHold(r) ==
  \A q \in DOMAIN rows[r] :
    /\ q \in 1..Len(plans) /\ rows[r][q] \in RowStatuses
    /\ plans[q].policy = job[r].in.policy
    /\ \E e \in profile : e.required /\ e.package = plans[q].package
    /\ rows[r][q] = "verified" => \A op \in Ops : Succeeded(op, q)

\* Package k of the profile has a row.
HasRow(r, k) == \E q \in DOMAIN rows[r] : plans[q].package = Entry(k).package

\* Every package behind the run is in one of its rows or one of its counts.
Accounted(r) ==
  LET n == job[r].plan
  IN /\ \A q \in DOMAIN rows[r] : \E k \in 1..job[r].at :
          /\ k <= Cardinality(profile) /\ Entry(k).required
          /\ Entry(k).package = plans[q].package
          /\ k = job[r].at => q = n
     /\ \A q, s \in DOMAIN rows[r] : plans[q].package = plans[s].package => q = s
     /\ Cardinality(DOMAIN rows[r]) + job[r].planless + job[r].optional
          = IF n \in DOMAIN rows[r] THEN job[r].at ELSE job[r].at - 1
     /\ job[r].pc \in InPlan => n \in DOMAIN rows[r]
     /\ job[r].pc = "add" => n \notin DOMAIN rows[r]
     /\ \A q \in DOMAIN rows[r] \ {n} : rows[r][q] \in {Goal(r), "failed"}
     /\ job[r].planless = 0 <=>
          \A k \in 1..(job[r].at - 1) : Entry(k).required => HasRow(r, k)

\* A run's row is closed by what its plans' rows and its counts say.
Counted(r) ==
  /\ job[r].pc = "complete" => job[r].counts = Counts(r)
  /\ runs[r].status \in Closed =>
       /\ job[r].pc = "done" /\ job[r].at = Cardinality(profile) + 1 /\ job[r].plan = 0
       /\ runs[r].total = Cardinality(profile)
       /\ runs[r].succeeded = Counts(r).succeeded /\ runs[r].failed = Counts(r).failed
       /\ runs[r].skipped = Counts(r).skipped
       /\ runs[r].status = FinalStatus(Counts(r))

RunOK(r) ==
  /\ Placed(r) /\ InHand(r) /\ Operating(r) /\ RowsHold(r) /\ Counted(r)
  /\ job[r].pc # "done" \/ runs[r].status \in Closed => Accounted(r)

\* What the idempotency records replay is so.
KeysHold ==
  /\ \A k \in planKeys : Made(k.plan, k.package, k.policy)
  /\ \A k \in opKeys : /\ k.key[2] \in 1..Len(plans)
                       /\ k.ok => Succeeded(k.key[1], k.key[2])

\* While no two runs are in flight together, a run makes a plan only for a key that
\* has no record.
Alone ==
  apart =>
    /\ \A r, q \in Runs : InFlight(r) /\ InFlight(q) => r = q
    /\ \A r \in Runs : job[r].pc \in {"preflight", "insert", "announce", "key"} =>
         \A k \in planKeys : ~KeyOf(k, r)

ProfileInv ==
  /\ ProfileTypeOK
  /\ \A r \in Runs : RunOK(r)
  /\ KeysHold
  /\ BlockedPlansDoNothing
  /\ Alone
  /\ OnePlanPerKey

-------------------------------------------------------------------------------
(* The profile's order *)

(***************************************************************************)
(* The packages are numbered 1..n by their order: the number of packages   *)
(* before one is an injection into 0..n-1, so it takes every value.        *)
(***************************************************************************)
LEMMA Entries ==
  ASSUME ProfileTypeOK
  PROVE  /\ Cardinality(profile) \in Nat
         /\ \A k \in 1..Cardinality(profile) : Entry(k) \in profile
         /\ \A e \in profile : \E k \in 1..Cardinality(profile) : Entry(k) = e
         /\ \A k, l \in 1..Cardinality(profile) : Entry(k).package = Entry(l).package => k = l
<1> DEFINE n == Cardinality(profile)
           before(e) == {f \in profile : f.order < e.order}
           rank == [e \in profile |-> Cardinality(before(e))]
<1>1. /\ profile \subseteq Listings /\ IsFiniteSet(profile) /\ n \in Nat
      /\ \A e, f \in profile : e.order = f.order => e = f
      /\ \A e, f \in profile : e.package = f.package => e = f
      /\ \A e \in profile : e.order \in Nat
  BY FS_CardinalityType DEF ProfileTypeOK, Normalized, UniquePackages, Listings
<1>2. ASSUME NEW e \in profile
      PROVE  IsFiniteSet(before(e)) /\ Cardinality(before(e)) \in 0..(n - 1)
  <2>1. before(e) \subseteq profile \ {e}
    BY <1>1
  <2>2. IsFiniteSet(profile \ {e}) /\ Cardinality(profile \ {e}) = n - 1
    BY <1>1, FS_RemoveElement
  <2>3. /\ IsFiniteSet(before(e)) /\ Cardinality(before(e)) <= n - 1
        /\ Cardinality(before(e)) \in Nat
    BY <2>1, <2>2, FS_Subset, FS_CardinalityType
  <2> QED BY <1>1, <2>3
<1>3. ASSUME NEW e \in profile, NEW f \in profile, e.order < f.order
      PROVE  rank[e] # rank[f]
  <2>1. before(e) \subseteq before(f)
    BY <1>1, <1>3
  <2>2. e \in before(f) /\ e \notin before(e)
    BY <1>1, <1>3
  <2>3. IsFiniteSet(before(f))
    BY <1>2
  <2> HIDE DEF before
  <2>4. Cardinality(before(e)) # Cardinality(before(f))
    BY <2>1, <2>2, <2>3, FS_Subset
  <2> QED BY <2>4
<1>4. \A e, f \in profile : rank[e] = rank[f] => e = f
  <2> SUFFICES ASSUME NEW e \in profile, NEW f \in profile, rank[e] = rank[f] PROVE e = f
    OBVIOUS
  <2>1. e.order \in Nat /\ f.order \in Nat
    BY <1>1
  <2> HIDE DEF rank
  <2>2. ~(e.order < f.order) /\ ~(f.order < e.order)
    BY <1>3
  <2> QED BY <1>1, <2>1, <2>2
<1>5. rank \in Injection(profile, 0..(n - 1))
  BY <1>2, <1>4 DEF Injection, IsInjective
<1>6. rank \in Surjection(profile, 0..(n - 1))
  <2>1. IsFiniteSet(0..(n - 1)) /\ Cardinality(0..(n - 1)) = n
    BY <1>1, FS_Interval
  <2> HIDE DEF rank
  <2> QED BY <1>5, <2>1, FS_Injection
<1>7. ASSUME NEW k \in 1..n
      PROVE  Entry(k) \in profile /\ rank[Entry(k)] = k - 1
  <2>1. k - 1 \in 0..(n - 1)
    BY <1>1
  <2>2. PICK e \in profile : rank[e] = k - 1
    BY <1>6, <2>1 DEF Surjection
  <2>3. \E f \in profile : Cardinality({g \in profile : g.order < f.order}) = k - 1
    BY <2>2
  <2>4. Entry(k) \in profile /\ Cardinality({g \in profile : g.order < Entry(k).order}) = k - 1
    BY <2>3 DEF Entry
  <2> QED BY <2>4
<1>8. ASSUME NEW e \in profile PROVE \E k \in 1..n : Entry(k) = e
  <2>1. rank[e] \in 0..(n - 1)
    BY <1>2
  <2>2. rank[e] + 1 \in 1..n /\ (rank[e] + 1) - 1 = rank[e]
    BY <1>1, <2>1
  <2> HIDE DEF rank
  <2>3. Entry(rank[e] + 1) = e
    BY <1>4, <1>7, <2>2
  <2> QED BY <2>2, <2>3
<1>9. ASSUME NEW k \in 1..n, NEW l \in 1..n, Entry(k).package = Entry(l).package
      PROVE  k = l
  <2> HIDE DEF rank
  <2>1. k - 1 = l - 1
    BY <1>1, <1>7, <1>9
  <2> QED BY <2>1
<1> QED BY <1>1, <1>7, <1>8, <1>9

-------------------------------------------------------------------------------
(* Turns *)

\* Only run r's local variables and rows change, and the profile is there to stay.
Turn(r) ==
  /\ job' \in [Runs -> Job]
  /\ profile' = profile
  /\ \A q \in Runs \ {r} : job'[q] = job[q] /\ rows'[q] = rows[q] /\ runs'[q] = runs[q]

\* Plans are not taken back, nor what has been done for them.
Grow ==
  /\ Len(plans) \in Nat /\ Len(plans') \in Nat /\ Len(plans) <= Len(plans')
  /\ outbox \subseteq outbox'
  /\ \A n \in 1..Len(plans) :
       /\ plans'[n].package = plans[n].package /\ plans'[n].policy = plans[n].policy
       /\ plans'[n].blocked = plans[n].blocked /\ plans[n].done \subseteq plans'[n].done
       /\ \A op \in Ops : /\ plans[n][op] \in Nat /\ plans'[n][op] \in Nat
                          /\ plans[n][op] <= plans'[n][op]

LEMMA GotoTurn ==
  ASSUME job \in [Runs -> Job], NEW r \in Runs, NEW pc \in Pcs, Goto(r, pc)
  PROVE  /\ job' \in [Runs -> Job] /\ \A q \in Runs \ {r} : job'[q] = job[q]
         /\ job'[r].pc = pc /\ job'[r].in = job[r].in /\ job'[r].at = job[r].at
         /\ job'[r].plan = job[r].plan /\ job'[r].made = job[r].made
         /\ job'[r].op = job[r].op /\ job'[r].number = job[r].number
         /\ job'[r].ok = job[r].ok /\ job'[r].blocked = job[r].blocked
         /\ job'[r].planless = job[r].planless /\ job'[r].optional = job[r].optional
         /\ job'[r].counts = job[r].counts
BY DEF Goto, Job

LEMMA NextTurn ==
  ASSUME job \in [Runs -> Job], NEW r \in Runs, NEW j \in Job, NextPackage(r, j)
  PROVE  /\ job' \in [Runs -> Job] /\ \A q \in Runs \ {r} : job'[q] = job[q]
         /\ job'[r].pc = "next" /\ job'[r].in = j.in /\ job'[r].at = j.at + 1
         /\ job'[r].plan = 0 /\ job'[r].planless = j.planless
         /\ job'[r].optional = j.optional
<1>a. j.at + 1 \in Nat
  BY DEF Job
<1>b. [j EXCEPT !.pc = "next", !.at = @ + 1, !.plan = 0, !.made = 0] \in Job
  BY <1>a DEF Job, Pcs
<1>1. PICK x \in Job : x = [j EXCEPT !.pc = "next", !.at = @ + 1, !.plan = 0, !.made = 0]
  BY <1>b
<1>2. job' = [job EXCEPT ![r] = x]
  BY <1>1 DEF NextPackage
<1>3. /\ x.pc = "next" /\ x.in = j.in /\ x.at = j.at + 1 /\ x.plan = 0
      /\ x.planless = j.planless /\ x.optional = j.optional
  BY <1>1 DEF Job
<1> QED BY <1>2, <1>3

\* A step that does not touch the plans.
LEMMA Ungrown ==
  ASSUME plans \in Seq(Plan), UNCHANGED plans, outbox \subseteq outbox'
  PROVE  Grow
<1>1. \A n \in 1..Len(plans) : plans[n] \in Plan
  OBVIOUS
<1>2. \A p \in Plan : \A op \in Ops : p[op] \in Nat
  BY DEF Plan, Ops
<1>3. \A n \in 1..Len(plans) : \A op \in Ops : plans[n][op] \in Nat
  BY <1>1, <1>2
<1> QED BY <1>3 DEF Grow

LEMMA StillMade ==
  ASSUME Grow, NEW n, NEW p, NEW q, Made(n, p, q)
  PROVE  Made(n, p, q)'
BY DEF Grow, Made

LEMMA StillSucceeded ==
  ASSUME Grow, NEW op \in Ops, NEW n \in 1..Len(plans), Succeeded(op, n)
  PROVE  Succeeded(op, n)'
<1>1. PICK k \in 1..plans[n][op] : <<op, n, k, TRUE>> \in outbox
  BY DEF Succeeded
<1>2. k \in 1..plans'[n][op] /\ <<op, n, k, TRUE>> \in outbox'
  BY <1>1 DEF Grow
<1>3. op \in plans'[n].done
  BY DEF Grow, Succeeded
<1> QED BY <1>2, <1>3 DEF Succeeded

-------------------------------------------------------------------------------
(* The runs that do not move *)

\* The run stays at its package, with its rows.
Stays(q) ==
  /\ profile' = profile
  /\ job'[q].in = job[q].in /\ job'[q].at = job[q].at
  /\ job'[q].planless = job[q].planless /\ job'[q].optional = job[q].optional
  /\ rows'[q] = rows[q]

LEMMA StillHere ==
  ASSUME profile' = profile
  PROVE  /\ \A k : Entry(k)' = Entry(k)
         /\ \A q : job'[q].at = job[q].at => Here(q)' = Here(q)
BY DEF Entry, Here

LEMMA StillRows ==
  ASSUME Grow, NEW q \in Runs, Stays(q), RowsHold(q)
  PROVE  RowsHold(q)'
<1>1. rows'[q] = rows[q] /\ job'[q].in = job[q].in /\ profile' = profile
  BY DEF Stays
<1>2. SUFFICES ASSUME NEW n \in DOMAIN rows[q]
               PROVE  /\ n \in 1..Len(plans') /\ rows[q][n] \in RowStatuses
                      /\ plans'[n].policy = job[q].in.policy
                      /\ \E e \in profile : e.required /\ e.package = plans'[n].package
                      /\ rows[q][n] = "verified" => \A op \in Ops : Succeeded(op, n)'
  BY <1>1 DEF RowsHold
<1>3. /\ n \in 1..Len(plans) /\ rows[q][n] \in RowStatuses
      /\ plans[n].policy = job[q].in.policy
      /\ \E e \in profile : e.required /\ e.package = plans[n].package
      /\ rows[q][n] = "verified" => \A op \in Ops : Succeeded(op, n)
  BY DEF RowsHold
<1>4. /\ n \in 1..Len(plans') /\ plans'[n].policy = plans[n].policy
      /\ plans'[n].package = plans[n].package
  BY <1>3 DEF Grow
<1>5. rows[q][n] = "verified" => \A op \in Ops : Succeeded(op, n)'
  BY <1>3, StillSucceeded
<1> QED BY <1>3, <1>4, <1>5

(***************************************************************************)
(* What a run accounts for stays accounted for while it stays where it is, *)
(* also when it gets the plan of its package in hand.                      *)
(***************************************************************************)
LEMMA StillAccounted ==
  ASSUME Grow, NEW q \in Runs, Stays(q), RowsHold(q), Accounted(q),
         job[q].at \in Nat,
         \/ job'[q].plan = job[q].plan
         \/ job[q].plan = 0 /\ job'[q].plan \notin DOMAIN rows[q],
         job'[q].pc \in InPlan => job'[q].plan \in DOMAIN rows[q],
         job'[q].pc = "add" => job'[q].plan \notin DOMAIN rows[q]
  PROVE  Accounted(q)'
<1> DEFINE m == job'[q].plan
<1>1. /\ rows'[q] = rows[q] /\ job'[q].in = job[q].in /\ profile' = profile
      /\ job'[q].at = job[q].at
      /\ job'[q].planless = job[q].planless /\ job'[q].optional = job[q].optional
  BY DEF Stays
<1>2. \A k : Entry(k)' = Entry(k)
  BY <1>1, StillHere
<1>3. \A n \in DOMAIN rows[q] : n \in 1..Len(plans) /\ plans'[n].package = plans[n].package
  BY DEF RowsHold, Grow
<1>4. 0 \notin DOMAIN rows[q]
  BY <1>3
<1>5. \A k : HasRow(q, k)' <=> HasRow(q, k)
  BY <1>1, <1>2, <1>3 DEF HasRow
<1>6. Goal(q)' = Goal(q)
  BY <1>1 DEF Goal
<1>7. \A n \in DOMAIN rows[q] : \E k \in 1..job[q].at :
          /\ k <= Cardinality(profile) /\ Entry(k).required
          /\ Entry(k).package = plans[n].package
          /\ k = job[q].at => n = m
  BY <1>4 DEF Accounted
<1>8. \A n \in DOMAIN rows'[q] : \E k \in 1..job'[q].at :
          /\ k <= Cardinality(profile') /\ Entry(k)'.required
          /\ Entry(k)'.package = plans'[n].package
          /\ k = job'[q].at => n = m
  BY <1>1, <1>2, <1>3, <1>7
<1>9. \A n, s \in DOMAIN rows'[q] : plans'[n].package = plans'[s].package => n = s
  BY <1>1, <1>3 DEF Accounted
<1>10. m \in DOMAIN rows[q] <=> job[q].plan \in DOMAIN rows[q]
  BY <1>4
<1>11. Cardinality(DOMAIN rows'[q]) + job'[q].planless + job'[q].optional
          = IF m \in DOMAIN rows'[q] THEN job'[q].at ELSE job'[q].at - 1
  BY <1>1, <1>10 DEF Accounted
<1>12. \A n \in DOMAIN rows'[q] \ {m} : rows'[q][n] \in {Goal(q)', "failed"}
  BY <1>1, <1>4, <1>6 DEF Accounted
<1>13. job'[q].planless = 0 <=>
          \A k \in 1..(job'[q].at - 1) : Entry(k)'.required => HasRow(q, k)'
  BY <1>1, <1>2, <1>5 DEF Accounted
<1>14. /\ job'[q].pc \in InPlan => m \in DOMAIN rows'[q]
       /\ job'[q].pc = "add" => m \notin DOMAIN rows'[q]
  BY <1>1
<1> HIDE DEF m
<1> QED
  BY <1>8, <1>9, <1>11, <1>12, <1>13, <1>14 DEF Accounted, m

\* The others stay as they are, whatever one run does.
LEMMA Others ==
  ASSUME ProfileInv, NEW r \in Runs, Turn(r), Grow, NEW q \in Runs, q # r
  PROVE  RunOK(q)'
<1>1. /\ job'[q] = job[q] /\ rows'[q] = rows[q] /\ runs'[q] = runs[q]
      /\ profile' = profile
  BY DEF Turn
<1>2. Stays(q)
  BY <1>1 DEF Stays
<1>3. RunOK(q) /\ job[q] \in Job
  BY DEF ProfileInv, ProfileTypeOK
<1>4. Here(q)' = Here(q)
  BY <1>1, StillHere
<1>5. Placed(q)'
  BY <1>1, <1>3, <1>4 DEF RunOK, Placed
<1>6. InHand(q)'
  <2>1. \A n, p, a : Made(n, p, a) => Made(n, p, a)'
    BY StillMade
  <2> QED BY <1>1, <1>3, <1>4, <2>1 DEF RunOK, InHand
<1>7. Operating(q)'
  <2> SUFFICES ASSUME job[q].pc \in InPlan PROVE Operating(q)'
    BY <1>1 DEF Operating
  <2> DEFINE n == job[q].plan
             op == job[q].op
  <2>1. n \in 1..Len(plans) /\ op \in Ops
    BY <1>3 DEF RunOK, InHand, Made, Job
  <2>2. /\ Succeeded("apply", n) => Succeeded("apply", n)'
        /\ Succeeded(op, n) => Succeeded(op, n)'
    <3>1. "apply" \in Ops
      BY DEF Ops
    <3>2. PICK m \in 1..Len(plans) : m = n
      BY <2>1
    <3>3. PICK o \in Ops : o = op
      BY <2>1
    <3>4. n' = m /\ op' = o
      BY <1>1, <3>2, <3>3
    <3>5. /\ Succeeded("apply", m) => Succeeded("apply", m)'
          /\ Succeeded(o, m) => Succeeded(o, m)'
      BY <3>1, StillSucceeded
    <3> QED BY <3>2, <3>3, <3>4, <3>5 DEF Succeeded
  <2>3. /\ plans'[n].blocked = plans[n].blocked /\ plans[n].done \subseteq plans'[n].done
        /\ plans[n][op] \in Nat /\ plans'[n][op] \in Nat /\ plans[n][op] <= plans'[n][op]
    BY <2>1 DEF Grow
  <2>4. job[q].number \in Nat
    BY <1>3 DEF Job
  <2>5. /\ job[q].number \in 1..(plans[n][op] + 1) => job[q].number \in 1..(plans'[n][op] + 1)
        /\ job[q].number \in 1..plans[n][op] => job[q].number \in 1..plans'[n][op]
    BY <2>3, <2>4
  <2>6. Operating(q)
    BY <1>3 DEF RunOK
  <2>7. n' = n /\ op' = op
    BY <1>1
  <2> QED BY <1>1, <2>2, <2>3, <2>5, <2>6, <2>7 DEF Operating
<1>8. RowsHold(q)'
  BY <1>2, <1>3, StillRows DEF RunOK
<1>9. Counts(q)' = Counts(q)
  BY <1>1 DEF Counts, WithStatus
<1>10. Counted(q)'
  BY <1>1, <1>3, <1>9 DEF RunOK, Counted
<1>11. job'[q].pc # "done" \/ runs'[q].status \in Closed => Accounted(q)'
  <2> SUFFICES ASSUME Accounted(q) PROVE Accounted(q)'
    BY <1>1, <1>3 DEF RunOK
  <2>1. /\ job'[q].pc \in InPlan => job'[q].plan \in DOMAIN rows[q]
        /\ job'[q].pc = "add" => job'[q].plan \notin DOMAIN rows[q]
    BY <1>1 DEF Accounted
  <2> QED BY <1>1, <1>2, <1>3, <2>1, StillAccounted DEF RunOK, Job
<1> QED BY <1>5, <1>6, <1>7, <1>8, <1>10, <1>11 DEF RunOK

-------------------------------------------------------------------------------
(* Steps that make no plan *)

\* Where a run may only be while its key has no record.
Fresh == {"preflight", "insert", "announce", "key"}

LEMMA KeysKept ==
  ASSUME Grow, KeysHold, ProfileTypeOK, planKeys' = planKeys, opKeys' = opKeys
  PROVE  KeysHold'
<1>1. ASSUME NEW k \in planKeys PROVE Made(k.plan, k.package, k.policy)'
  <2>1. Made(k.plan, k.package, k.policy)
    BY DEF KeysHold
  <2> QED BY <2>1, StillMade
<1>2. ASSUME NEW k \in opKeys
      PROVE  /\ k.key[2] \in 1..Len(plans')
             /\ k.ok => Succeeded(k.key[1], k.key[2])'
  <2>1. k \in OpRecord
    BY DEF ProfileTypeOK
  <2>2. k.key[1] \in Ops /\ k.key[2] \in Nat
    BY <2>1 DEF OpRecord
  <2>3. k.key[2] \in 1..Len(plans) /\ (k.ok => Succeeded(k.key[1], k.key[2]))
    BY DEF KeysHold
  <2>4. k.ok => Succeeded(k.key[1], k.key[2])'
    BY <2>2, <2>3, StillSucceeded
  <2> QED BY <2>3, <2>4 DEF Grow
<1> QED BY <1>1, <1>2 DEF KeysHold

LEMMA AloneKept ==
  ASSUME Alone, NEW r \in Runs, Turn(r), planKeys' = planKeys, apart' = apart,
         InFlight(r)' => InFlight(r),
         job'[r].pc \in Fresh =>
           /\ job'[r].at = job[r].at /\ job'[r].in = job[r].in
           /\ apart => \A k \in planKeys : ~KeyOf(k, r)
  PROVE  Alone'
<1> SUFFICES ASSUME apart
             PROVE  /\ \A p, q \in Runs : InFlight(p)' /\ InFlight(q)' => p = q
                    /\ \A q \in Runs : job'[q].pc \in Fresh =>
                         \A k \in planKeys : ~KeyOf(k, q)'
  BY DEF Alone, Fresh
<1>1. \A q \in Runs : InFlight(q)' => InFlight(q)
  BY DEF InFlight, Turn
<1>2. ASSUME NEW q \in Runs, job'[q].pc \in Fresh, NEW k \in planKeys
      PROVE  ~KeyOf(k, q)'
  <2>1. profile' = profile
    BY DEF Turn
  <2>2. job'[q].at = job[q].at /\ job'[q].in = job[q].in /\ ~KeyOf(k, q)
    BY <1>2 DEF Turn, Alone, Fresh
  <2>3. Here(q)' = Here(q)
    BY <2>1, <2>2, StillHere
  <2> QED BY <2>2, <2>3 DEF KeyOf, Base
<1> QED BY <1>1, <1>2 DEF Alone

LEMMA OnePlanKept ==
  ASSUME OnePlanPerKey, NEW r \in Runs, Turn(r), plans' = plans, planKeys' = planKeys,
         apart' => apart, lost \subseteq lost',
         apart => \A n \in Unkeyed(r) : n \in lost' \/ n \in Unkeyed(r)'
  PROVE  OnePlanPerKey'
<1> SUFFICES ASSUME apart, NEW n \in 1..Len(plans)
             PROVE  \/ n \in lost'
                    \/ \E q \in Runs : n \in Unkeyed(q)'
                    \/ \E k \in planKeys : k.plan = n
  BY DEF OnePlanPerKey
<1>1. CASE n \in lost
  BY <1>1
<1>2. CASE \E k \in planKeys : k.plan = n
  BY <1>2
<1>3. CASE \E q \in Runs : n \in Unkeyed(q)
  <2>1. PICK q \in Runs : n \in Unkeyed(q)
    BY <1>3
  <2>2. CASE q = r
    BY <2>1, <2>2
  <2>3. CASE q # r
    <3>1. job'[q] = job[q]
      BY <2>3 DEF Turn
    <3> QED BY <2>1, <3>1 DEF Unkeyed
  <2> QED BY <2>2, <2>3
<1> QED BY <1>1, <1>2, <1>3 DEF OnePlanPerKey

(***************************************************************************)
(* A step of one run that neither makes nor changes a plan or a record.    *)
(***************************************************************************)
LEMMA QuietTurn ==
  ASSUME ProfileInv, NEW r \in Runs, Turn(r),
         UNCHANGED <<enforcement, plans, planKeys, opKeys, files, started, apart>>,
         outbox \subseteq outbox', lost \subseteq lost', ProfileTypeOK',
         InFlight(r)' => InFlight(r),
         job'[r].pc \in Fresh =>
           /\ job'[r].at = job[r].at /\ job'[r].in = job[r].in
           /\ apart => \A k \in planKeys : ~KeyOf(k, r),
         apart => \A n \in Unkeyed(r) : n \in lost' \/ n \in Unkeyed(r)',
         RunOK(r)'
  PROVE  ProfileInv'
<1>1. ProfileTypeOK /\ KeysHold /\ BlockedPlansDoNothing /\ Alone /\ OnePlanPerKey
  BY DEF ProfileInv
<1>2. Grow
  BY <1>1, Ungrown DEF ProfileTypeOK
<1>3. \A q \in Runs : RunOK(q)'
  BY <1>2, Others
<1>4. KeysHold'
  BY <1>1, <1>2, KeysKept
<1>5. BlockedPlansDoNothing'
  BY <1>1 DEF BlockedPlansDoNothing
<1>6. Alone'
  BY <1>1, AloneKept
<1>7. OnePlanPerKey'
  BY <1>1, OnePlanKept
<1> QED BY <1>3, <1>4, <1>5, <1>6, <1>7 DEF ProfileInv

\* The types of such a step.
LEMMA QuietTypes ==
  ASSUME ProfileTypeOK, job' \in [Runs -> Job], runs' \in [Runs -> Run],
         rows' = [r \in Runs |-> rows'[r]],
         UNCHANGED <<profile, plans, planKeys, opKeys, files, started, apart, bounds>>
  PROVE  ProfileTypeOK'
BY DEF ProfileTypeOK, Normalized, UniquePackages

(***************************************************************************)
(* A run that stays where it is keeps its rows and its account.            *)
(***************************************************************************)
LEMMA StaysOK ==
  ASSUME Grow, NEW r \in Runs, Stays(r), RunOK(r), job[r] \in Job, job[r].pc # "done",
         \/ job'[r].plan = job[r].plan
         \/ job[r].plan = 0 /\ job'[r].plan \notin DOMAIN rows[r],
         job'[r].pc \in InPlan => job'[r].plan \in DOMAIN rows[r],
         job'[r].pc = "add" => job'[r].plan \notin DOMAIN rows[r],
         Placed(r)', InHand(r)', Operating(r)', Counted(r)'
  PROVE  RunOK(r)'
<1>1. RowsHold(r)'
  BY StillRows DEF RunOK
<1>2. Accounted(r)'
  <2>1. Accounted(r) /\ RowsHold(r) /\ job[r].at \in Nat
    BY DEF RunOK, Job
  <2> QED BY <2>1, StillAccounted
<1> QED BY <1>1, <1>2 DEF RunOK

(***************************************************************************)
(* Within the turn of a package only what a run has in hand is new.        *)
(***************************************************************************)
LEMMA WithinTurn ==
  ASSUME Grow, NEW r \in Runs, Stays(r), RunOK(r), job[r] \in Job, runs'[r] = runs[r],
         job[r].pc \in InTry \cup {"catch"}, job'[r].pc \in InTry \cup {"catch"},
         \/ job'[r].plan = job[r].plan
         \/ job[r].plan = 0 /\ job'[r].plan \notin DOMAIN rows[r],
         job'[r].pc \in InPlan => job'[r].plan \in DOMAIN rows[r],
         job'[r].pc = "add" => job'[r].plan \notin DOMAIN rows[r],
         InHand(r)', Operating(r)'
  PROVE  RunOK(r)'
<1>1. /\ rows'[r] = rows[r] /\ profile' = profile /\ job'[r].at = job[r].at
      /\ job[r].at \in Nat
  BY DEF Stays, Job
<1>2. Here(r)' = Here(r)
  BY <1>1, StillHere
<1>3. Placed(r)'
  BY <1>1, <1>2 DEF RunOK, Placed, InTry
<1>4. Counted(r)'
  BY DEF RunOK, Counted, InTry, Placed, Closed
<1>5. job[r].pc # "done"
  BY DEF InTry
<1> QED BY <1>3, <1>4, <1>5, StaysOK

\* Without a plan in hand there is no row for the package yet.
LEMMA NotYet ==
  ASSUME ProfileTypeOK, NEW r \in Runs, RowsHold(r), Accounted(r), job[r].plan = 0,
         job[r].at \in 1..Cardinality(profile)
  PROVE  /\ 0 \notin DOMAIN rows[r]
         /\ \A q \in DOMAIN rows[r] : plans[q].package # Here(r).package
         /\ ~HasRow(r, job[r].at)
<1>1. 0 \notin DOMAIN rows[r]
  BY DEF RowsHold
<1>2. ASSUME NEW q \in DOMAIN rows[r], plans[q].package = Entry(job[r].at).package
      PROVE  FALSE
  <2>1. PICK k \in 1..job[r].at : /\ k <= Cardinality(profile)
                                  /\ Entry(k).package = plans[q].package
                                  /\ k = job[r].at => q = job[r].plan
    BY DEF Accounted
  <2>2. k \in 1..Cardinality(profile)
    BY <2>1, Entries
  <2>3. k = job[r].at
    BY <1>2, <2>1, <2>2, Entries
  <2> QED BY <1>1, <2>1, <2>3
<1> QED BY <1>1, <1>2 DEF HasRow, Here

-------------------------------------------------------------------------------
(* Rows *)

LEMMA RowSet ==
  ASSUME rows = [q \in Runs |-> rows[q]], NEW r \in Runs, NEW n \in Nat,
         NEW status \in RowStatuses,
         rows' = Row(r, n, status)
  PROVE  /\ rows' = [q \in Runs |-> rows'[q]]
         /\ \A q \in Runs \ {r} : rows'[q] = rows[q]
         /\ DOMAIN rows'[r] = DOMAIN rows[r] \cup {n}
         /\ rows'[r][n] = status
         /\ \A q \in DOMAIN rows[r] \ {n} : rows'[r][q] = rows[r][q]
<1> DEFINE f == [q \in DOMAIN rows[r] \cup {n} |-> IF q = n THEN status ELSE rows[r][q]]
<1>1. rows' = [rows EXCEPT ![r] = f]
  BY DEF Row
<1>2. /\ DOMAIN f = DOMAIN rows[r] \cup {n} /\ f[n] = status
      /\ \A q \in DOMAIN rows[r] \ {n} : f[q] = rows[r][q]
  OBVIOUS
<1> HIDE DEF f
<1>3. rows' = [q \in Runs |-> IF q = r THEN f ELSE rows[q]]
  BY <1>1
<1>4. rows'[r] = f /\ \A q \in Runs \ {r} : rows'[q] = rows[q]
  BY <1>3
<1>5. rows' = [q \in Runs |-> rows'[q]]
  BY <1>3
<1> QED BY <1>2, <1>4, <1>5

\* A run has as many rows as plans have been made at most.
LEMMA FewRows ==
  ASSUME ProfileTypeOK, NEW r \in Runs, RowsHold(r)
  PROVE  /\ IsFiniteSet(DOMAIN rows[r]) /\ Cardinality(DOMAIN rows[r]) \in Nat
<1>1. DOMAIN rows[r] \subseteq 1..Len(plans)
  BY DEF RowsHold
<1>2. IsFiniteSet(1..Len(plans))
  <2>1. Len(plans) \in Nat
    BY DEF ProfileTypeOK
  <2> QED BY <2>1, FS_Interval
<1> QED BY <1>1, <1>2, FS_Subset, FS_CardinalityType

(***************************************************************************)
(* The row of the package a run is at accounts for this package.           *)
(***************************************************************************)
LEMMA RowIn ==
  ASSUME ProfileTypeOK, NEW r \in Runs, RowsHold(r), Accounted(r),
         NEW n, n = job[r].plan, job[r].at \in 1..Cardinality(profile), Here(r).required,
         Made(n, Here(r).package, job[r].in.policy),
         job[r].planless \in Nat, job[r].optional \in Nat,
         NEW status \in RowStatuses, rows' = Row(r, n, status),
         status = "verified" => \A op \in Ops : Succeeded(op, n),
         plans' = plans, profile' = profile, outbox' = outbox,
         job'[r].in = job[r].in
  PROVE  /\ RowsHold(r)'
         /\ Cardinality(DOMAIN rows'[r]) + job[r].planless + job[r].optional = job[r].at
         /\ \A q \in DOMAIN rows'[r] : \E k \in 1..job[r].at :
               /\ Entry(k).required /\ Entry(k).package = plans[q].package
               /\ k = job[r].at => q = n
         /\ \A q, s \in DOMAIN rows'[r] : plans[q].package = plans[s].package => q = s
         /\ n \in DOMAIN rows'[r] /\ rows'[r][n] = status
         /\ \A q \in DOMAIN rows'[r] \ {n} : rows'[r][q] \in {Goal(r), "failed"}
         /\ job[r].planless = 0 <=>
              \A k \in 1..job[r].at : Entry(k).required => HasRow(r, k)'
<1> DEFINE at == job[r].at
           D  == DOMAIN rows[r]
<1>1. /\ DOMAIN rows'[r] = D \cup {n} /\ rows'[r][n] = status
      /\ \A q \in D \ {n} : rows'[r][q] = rows[r][q]
  <2>1. rows = [q \in Runs |-> rows[q]]
    BY DEF ProfileTypeOK
  <2>2. n \in Nat
    BY DEF Made
  <2>3. /\ DOMAIN rows'[r] = DOMAIN rows[r] \cup {n} /\ rows'[r][n] = status
        /\ \A q \in DOMAIN rows[r] \ {n} : rows'[r][q] = rows[r][q]
    BY <2>1, <2>2, RowSet
  <2> QED BY <2>3
<1>2. /\ n \in 1..Len(plans) /\ plans[n].package = Entry(at).package
      /\ plans[n].policy = job[r].in.policy
  BY DEF Made, Here
<1>3. /\ Cardinality(profile) \in Nat /\ Entry(at) \in profile /\ Entry(at).required
      /\ \A k, l \in 1..Cardinality(profile) : Entry(k).package = Entry(l).package => k = l
  BY Entries DEF Here
<1>4. \A q \in D : \E k \in 1..at : /\ Entry(k).required
                                    /\ Entry(k).package = plans[q].package
                                    /\ k = at => q = n
  BY DEF Accounted
<1>5. ASSUME NEW q \in D, plans[q].package = Entry(at).package PROVE q = n
  <2>1. PICK k \in 1..at : Entry(k).package = plans[q].package /\ (k = at => q = n)
    BY <1>4
  <2>2. k = at
    BY <1>3, <1>5, <2>1
  <2> QED BY <2>1, <2>2
<1>6. \A q, s \in D \cup {n} : plans[q].package = plans[s].package => q = s
  <2>1. \A q, s \in D : plans[q].package = plans[s].package => q = s
    BY DEF Accounted
  <2> HIDE DEF D, at
  <2> QED BY <1>2, <1>5, <2>1
<1>7. \A q \in D \cup {n} : \E k \in 1..at :
         Entry(k).required /\ Entry(k).package = plans[q].package /\ (k = at => q = n)
  BY <1>2, <1>3, <1>4
<1>8. Cardinality(D \cup {n}) + job[r].planless + job[r].optional = at
  <2>1. IsFiniteSet(D) /\ Cardinality(D) \in Nat
    BY FewRows
  <2>2. Cardinality(D) + job[r].planless + job[r].optional = IF n \in D THEN at ELSE at - 1
    BY DEF Accounted
  <2>3. CASE n \in D
    <3>1. D \cup {n} = D
      BY <2>3
    <3> QED BY <2>2, <2>3, <3>1
  <2>4. CASE n \notin D
    <3>1. Cardinality(D \cup {n}) = Cardinality(D) + 1
      BY <2>1, <2>4, FS_AddElement
    <3> HIDE DEF D
    <3> QED BY <2>1, <2>2, <2>4, <3>1
  <2> QED BY <2>3, <2>4
<1>9. RowsHold(r)'
  <2>1. ASSUME NEW q \in D \cup {n}
        PROVE  /\ q \in 1..Len(plans) /\ rows'[r][q] \in RowStatuses
               /\ plans[q].policy = job[r].in.policy
               /\ \E e \in profile : e.required /\ e.package = plans[q].package
               /\ rows'[r][q] = "verified" => \A op \in Ops : Succeeded(op, q)
    <3>1. CASE q = n
      BY <1>1, <1>2, <1>3, <3>1
    <3>2. CASE q # n
      BY <1>1, <3>2 DEF RowsHold
    <3> QED BY <3>1, <3>2
  <2>2. \A op, q : Succeeded(op, q)' <=> Succeeded(op, q)
    BY DEF Succeeded
  <2> QED BY <1>1, <2>1, <2>2 DEF RowsHold
<1>10. \A q \in (D \cup {n}) \ {n} : rows'[r][q] \in {Goal(r), "failed"}
  BY <1>1 DEF Accounted
<1>11. /\ \A k : k = at => HasRow(r, k)'
       /\ \A k \in 1..(at - 1) : HasRow(r, k)' <=> HasRow(r, k)
  <2>1. \A k : HasRow(r, k)' <=> \E q \in D \cup {n} : plans[q].package = Entry(k).package
    BY <1>1, StillHere DEF HasRow
  <2>2. \A k \in 1..(at - 1) : plans[n].package # Entry(k).package
    BY <1>2, <1>3
  <2>3. \A k : HasRow(r, k) <=> \E q \in D : plans[q].package = Entry(k).package
    BY DEF HasRow
  <2> HIDE DEF D, at
  <2> QED BY <1>2, <2>1, <2>2, <2>3
<1>12. job[r].planless = 0 <=> \A k \in 1..at : Entry(k).required => HasRow(r, k)'
  <2>1. job[r].planless = 0 <=> \A k \in 1..(at - 1) : Entry(k).required => HasRow(r, k)
    BY DEF Accounted
  <2>2. \A k \in 1..at : k = at \/ k \in 1..(at - 1)
    BY <1>3
  <2>3. \A k \in 1..(at - 1) : k \in 1..at
    BY <1>3
  <2> HIDE DEF at
  <2> QED BY <1>11, <2>1, <2>2, <2>3
<1> HIDE DEF D, at
<1> QED BY <1>1, <1>6, <1>7, <1>8, <1>9, <1>10, <1>12 DEF at

-------------------------------------------------------------------------------
(* The end of a package's turn *)

(***************************************************************************)
(* The run goes on with a last row for the package: the state its mode     *)
(* asks for, or failed.                                                    *)
(***************************************************************************)
LEMMA PassWithRow ==
  ASSUME ProfileTypeOK, NEW r \in Runs, RunOK(r), job[r].pc \in {"add", "row", "catch"},
         job[r].plan # 0,
         NEW status \in RowStatuses, rows' = Row(r, job[r].plan, status),
         status \in {Goal(r), "failed"},
         status = "verified" => \A op \in Ops : Succeeded(op, job[r].plan),
         NextPackage(r, job[r]), UNCHANGED <<profile, plans, outbox, runs>>
  PROVE  Turn(r) /\ RunOK(r)' /\ rows' = [q \in Runs |-> rows'[q]]
<1> DEFINE n  == job[r].plan
           at == job[r].at
<1>1. /\ job' \in [Runs -> Job] /\ \A q \in Runs \ {r} : job'[q] = job[q]
      /\ job'[r].pc = "next" /\ job'[r].in = job[r].in /\ job'[r].at = at + 1
      /\ job'[r].plan = 0 /\ job'[r].planless = job[r].planless
      /\ job'[r].optional = job[r].optional
  <2>1. job \in [Runs -> Job] /\ job[r] \in Job
    BY DEF ProfileTypeOK
  <2> QED BY <2>1, NextTurn
<1>2. /\ Placed(r) /\ InHand(r) /\ RowsHold(r) /\ Accounted(r) /\ job[r] \in Job
  BY DEF RunOK, ProfileTypeOK
<1>3. /\ at \in 1..Cardinality(profile) /\ Here(r).required /\ profile # {}
      /\ runs[r].status = "pending" /\ runs[r].total = Cardinality(profile)
  BY <1>2 DEF Placed, InTry
<1>4. Made(n, Here(r).package, job[r].in.policy)
  BY <1>2 DEF InHand, InPlan
<1>5. n \in Nat /\ job[r].planless \in Nat /\ job[r].optional \in Nat
  BY <1>2 DEF Job
<1>6. /\ RowsHold(r)'
      /\ Cardinality(DOMAIN rows'[r]) + job[r].planless + job[r].optional = at
      /\ \A q \in DOMAIN rows'[r] : \E k \in 1..at :
            /\ Entry(k).required /\ Entry(k).package = plans[q].package
            /\ k = at => q = n
      /\ \A q, s \in DOMAIN rows'[r] : plans[q].package = plans[s].package => q = s
      /\ n \in DOMAIN rows'[r] /\ rows'[r][n] = status
      /\ \A q \in DOMAIN rows'[r] \ {n} : rows'[r][q] \in {Goal(r), "failed"}
      /\ job[r].planless = 0 <=> \A k \in 1..at : Entry(k).required => HasRow(r, k)'
  BY <1>1, <1>2, <1>3, <1>4, <1>5, RowIn
<1>7. rows' = [q \in Runs |-> rows'[q]] /\ \A q \in Runs \ {r} : rows'[q] = rows[q]
  <2>1. rows = [q \in Runs |-> rows[q]]
    BY DEF ProfileTypeOK
  <2> QED BY <1>5, <2>1, RowSet
<1>8. Turn(r)
  BY <1>1, <1>7 DEF Turn
<1>9. Cardinality(profile) \in Nat
  BY Entries
<1>10. Placed(r)'
  BY <1>1, <1>3, <1>9 DEF Placed, InTry
<1>11. InHand(r)' /\ Operating(r)' /\ Counted(r)'
  BY <1>1, <1>3 DEF InHand, Operating, Counted, InPlan, Closed
<1>12. Accounted(r)'
  <2>1. \A k : Entry(k)' = Entry(k)
    BY StillHere
  <2>2. 0 \notin DOMAIN rows'[r]
    BY <1>6 DEF RowsHold
  <2>3. \A q \in DOMAIN rows'[r] : \E k \in 1..job'[r].at :
            /\ k <= Cardinality(profile') /\ Entry(k)'.required
            /\ Entry(k)'.package = plans'[q].package
            /\ k = job'[r].at => q = job'[r].plan
    <3> SUFFICES ASSUME NEW q \in DOMAIN rows'[r]
                 PROVE  \E k \in 1..(at + 1) :
                          /\ k <= Cardinality(profile) /\ Entry(k).required
                          /\ Entry(k).package = plans[q].package
                          /\ k = at + 1 => q = 0
      BY <1>1, <2>1
    <3>1. PICK k \in 1..at : Entry(k).required /\ Entry(k).package = plans[q].package
      BY <1>6
    <3>2. k \in 1..(at + 1) /\ k <= Cardinality(profile) /\ k # at + 1
      BY <1>3, <1>9
    <3> HIDE DEF at
    <3> QED BY <3>1, <3>2
  <2>4. \A q \in DOMAIN rows'[r] : rows'[r][q] \in {Goal(r), "failed"}
    BY <1>6
  <2>5. Goal(r)' = Goal(r)
    BY <1>1 DEF Goal
  <2>6. job'[r].planless = 0 <=>
          \A k \in 1..(job'[r].at - 1) : Entry(k)'.required => HasRow(r, k)'
    <3>1. job'[r].at - 1 = at
      BY <1>1, <1>3
    <3> QED BY <1>1, <1>6, <2>1, <3>1
  <2>7. Cardinality(DOMAIN rows'[r]) + job'[r].planless + job'[r].optional
          = IF job'[r].plan \in DOMAIN rows'[r] THEN job'[r].at ELSE job'[r].at - 1
    <3>1. job'[r].at - 1 = at
      BY <1>1, <1>3
    <3> QED BY <1>1, <1>6, <2>2, <3>1
  <2>8. \A q, s \in DOMAIN rows'[r] : plans'[q].package = plans'[s].package => q = s
    BY <1>6
  <2>9. \A q \in DOMAIN rows'[r] \ {job'[r].plan} : rows'[r][q] \in {Goal(r)', "failed"}
    BY <2>4, <2>5
  <2>10. job'[r].pc \notin InPlan /\ job'[r].pc # "add"
    BY <1>1 DEF InPlan
  <2> QED BY <2>3, <2>6, <2>7, <2>8, <2>9, <2>10 DEF Accounted
<1> QED BY <1>6, <1>7, <1>8, <1>10, <1>11, <1>12 DEF RunOK

(***************************************************************************)
(* The run goes on to the next operation on its plan, which has a row.     *)
(***************************************************************************)
LEMMA OnWithRow ==
  ASSUME ProfileTypeOK, NEW r \in Runs, RunOK(r), job[r].pc \in {"add", "row"},
         NEW op \in Ops, job' = [job EXCEPT ![r].pc = "ask", ![r].op = op],
         NEW status \in RowStatuses, rows' = Row(r, job[r].plan, status),
         status # "verified", job[r].in.mode = "apply_verify",
         op = "verify" => Succeeded("apply", job[r].plan),
         UNCHANGED <<profile, plans, outbox, runs>>
  PROVE  Turn(r) /\ RunOK(r)' /\ rows' = [q \in Runs |-> rows'[q]]
<1> DEFINE n  == job[r].plan
           at == job[r].at
<1>1. /\ job' \in [Runs -> Job] /\ \A q \in Runs \ {r} : job'[q] = job[q]
      /\ job'[r].pc = "ask" /\ job'[r].in = job[r].in /\ job'[r].at = at
      /\ job'[r].plan = n /\ job'[r].planless = job[r].planless
      /\ job'[r].optional = job[r].optional /\ job'[r].op = op
  <2>1. job \in [Runs -> Job] /\ job[r] \in Job
    BY DEF ProfileTypeOK
  <2>2. PICK x \in Job : x = [job[r] EXCEPT !.pc = "ask", !.op = op]
    BY <2>1 DEF Job, Pcs, InTry
  <2>3. job' = [job EXCEPT ![r] = x]
    BY <2>1, <2>2
  <2>4. /\ x.pc = "ask" /\ x.in = job[r].in /\ x.at = at /\ x.plan = n /\ x.op = op
        /\ x.planless = job[r].planless /\ x.optional = job[r].optional
    BY <2>1, <2>2 DEF Job
  <2> QED BY <2>1, <2>3, <2>4
<1>2. /\ Placed(r) /\ InHand(r) /\ RowsHold(r) /\ Accounted(r) /\ job[r] \in Job
  BY DEF RunOK, ProfileTypeOK
<1>3. /\ at \in 1..Cardinality(profile) /\ Here(r).required /\ profile # {}
      /\ runs[r].status = "pending" /\ runs[r].total = Cardinality(profile)
  BY <1>2 DEF Placed, InTry
<1>4. Made(n, Here(r).package, job[r].in.policy)
  BY <1>2 DEF InHand, InPlan
<1>5. n \in Nat /\ job[r].planless \in Nat /\ job[r].optional \in Nat
  BY <1>2 DEF Job
<1>6. /\ RowsHold(r)'
      /\ Cardinality(DOMAIN rows'[r]) + job[r].planless + job[r].optional = at
      /\ \A q \in DOMAIN rows'[r] : \E k \in 1..at :
            /\ Entry(k).required /\ Entry(k).package = plans[q].package
            /\ k = at => q = n
      /\ \A q, s \in DOMAIN rows'[r] : plans[q].package = plans[s].package => q = s
      /\ n \in DOMAIN rows'[r] /\ rows'[r][n] = status
      /\ \A q \in DOMAIN rows'[r] \ {n} : rows'[r][q] \in {Goal(r), "failed"}
      /\ job[r].planless = 0 <=> \A k \in 1..at : Entry(k).required => HasRow(r, k)'
  BY <1>1, <1>2, <1>3, <1>4, <1>5, RowIn
<1>7. rows' = [q \in Runs |-> rows'[q]] /\ \A q \in Runs \ {r} : rows'[q] = rows[q]
  <2>1. rows = [q \in Runs |-> rows[q]]
    BY DEF ProfileTypeOK
  <2> QED BY <1>5, <2>1, RowSet
<1>8. Turn(r)
  BY <1>1, <1>7 DEF Turn
<1>9. Cardinality(profile) \in Nat /\ Here(r)' = Here(r)
  BY <1>1, Entries, StillHere
<1>10. Placed(r)'
  BY <1>1, <1>3, <1>9 DEF Placed, InTry
<1>11. InHand(r)'
  BY <1>1, <1>4, <1>9 DEF InHand, InPlan, Made
<1>12. Operating(r)'
  <2>1. \A o, m : Succeeded(o, m)' <=> Succeeded(o, m)
    BY DEF Succeeded
  <2> QED BY <1>1, <2>1 DEF Operating, InPlan
<1>13. Counted(r)'
  BY <1>1, <1>3 DEF Counted, Closed
<1>14. Accounted(r)'
  <2>1. \A k : Entry(k)' = Entry(k)
    BY StillHere
  <2>2. \A q \in DOMAIN rows'[r] : \E k \in 1..job'[r].at :
            /\ k <= Cardinality(profile') /\ Entry(k)'.required
            /\ Entry(k)'.package = plans'[q].package
            /\ k = job'[r].at => q = job'[r].plan
    <3>1. \A k \in 1..at : k <= Cardinality(profile)
      BY <1>3, <1>9
    <3> QED BY <1>1, <1>6, <2>1, <3>1
  <2>3. Goal(r)' = Goal(r)
    BY <1>1 DEF Goal
  <2>4. /\ \A k \in 1..at : k = at \/ k \in 1..(at - 1)
        /\ \A k \in 1..(at - 1) : k \in 1..at
    BY <1>3
  <2>5. job'[r].planless = 0 <=>
          \A k \in 1..(job'[r].at - 1) : Entry(k)'.required => HasRow(r, k)'
    <3>1. \A k : k = at => HasRow(r, k)'
      BY <1>4, <1>6, <2>1 DEF HasRow, Made, Here
    <3> HIDE DEF at
    <3> QED BY <1>1, <1>6, <2>1, <2>4, <3>1
  <2>6. Cardinality(DOMAIN rows'[r]) + job'[r].planless + job'[r].optional
          = IF job'[r].plan \in DOMAIN rows'[r] THEN job'[r].at ELSE job'[r].at - 1
    BY <1>1, <1>6
  <2>7. \A q, s \in DOMAIN rows'[r] : plans'[q].package = plans'[s].package => q = s
    BY <1>6
  <2>8. \A q \in DOMAIN rows'[r] \ {job'[r].plan} : rows'[r][q] \in {Goal(r)', "failed"}
    BY <1>1, <1>6, <2>3
  <2>9. job'[r].pc # "add" /\ job'[r].plan \in DOMAIN rows'[r]
    BY <1>1, <1>6
  <2> QED BY <2>2, <2>5, <2>6, <2>7, <2>8, <2>9 DEF Accounted
<1> QED BY <1>6, <1>7, <1>8, <1>10, <1>11, <1>12, <1>13, <1>14 DEF RunOK

(***************************************************************************)
(* The run goes on without a row: the package is counted as skipped, or as *)
(* failed before it had a plan.                                            *)
(***************************************************************************)
LEMMA PassWithout ==
  ASSUME ProfileTypeOK, NEW r \in Runs, RunOK(r), job[r].pc \in {"next", "catch"},
         job[r].plan = 0, job[r].at \in 1..Cardinality(profile), NEW j \in Job,
         \/ ~Here(r).required /\ j = [job[r] EXCEPT !.optional = @ + 1]
         \/ Here(r).required /\ j = [job[r] EXCEPT !.planless = @ + 1],
         NextPackage(r, j), UNCHANGED <<profile, plans, outbox, runs, rows>>
  PROVE  Turn(r) /\ RunOK(r)'
<1> DEFINE at == job[r].at
           D  == DOMAIN rows[r]
<1>1. /\ Placed(r) /\ RowsHold(r) /\ Accounted(r) /\ job[r] \in Job
      /\ job \in [Runs -> Job]
  BY DEF RunOK, ProfileTypeOK
<1>2. /\ j.in = job[r].in /\ j.at = at /\ job[r].planless \in Nat /\ job[r].optional \in Nat
      /\ \/ /\ ~Here(r).required /\ j.planless = job[r].planless
            /\ j.optional = job[r].optional + 1
         \/ /\ Here(r).required /\ j.planless = job[r].planless + 1
            /\ j.optional = job[r].optional
  BY <1>1 DEF Job
<1>3. /\ job' \in [Runs -> Job] /\ \A q \in Runs \ {r} : job'[q] = job[q]
      /\ job'[r].pc = "next" /\ job'[r].in = job[r].in /\ job'[r].at = at + 1
      /\ job'[r].plan = 0 /\ job'[r].planless = j.planless
      /\ job'[r].optional = j.optional
  BY <1>1, <1>2, NextTurn
<1>4. /\ runs[r].status = "pending" /\ runs[r].total = Cardinality(profile) /\ profile # {}
  BY <1>1 DEF Placed, InTry
<1>5. Turn(r)
  BY <1>3 DEF Turn
<1>6. Cardinality(profile) \in Nat /\ \A k : Entry(k)' = Entry(k)
  BY Entries, StillHere
<1>7. Placed(r)'
  BY <1>3, <1>4, <1>6 DEF Placed, InTry
<1>8. InHand(r)' /\ Operating(r)' /\ Counted(r)'
  BY <1>3, <1>4 DEF InHand, Operating, Counted, InPlan, Closed
<1>9. RowsHold(r)'
  <2>1. \A op, q : Succeeded(op, q)' <=> Succeeded(op, q)
    BY DEF Succeeded
  <2> QED BY <1>1, <1>3, <2>1 DEF RowsHold
<1>10. 0 \notin D /\ ~HasRow(r, at)
  BY <1>1, NotYet
<1>11. \A k : HasRow(r, k)' <=> HasRow(r, k)
  BY <1>6 DEF HasRow
<1>12. Accounted(r)'
  <2>1. \A q \in D : \E k \in 1..(at + 1) :
            /\ k <= Cardinality(profile) /\ Entry(k).required
            /\ Entry(k).package = plans[q].package
            /\ k = at + 1 => q = 0
    <3> SUFFICES ASSUME NEW q \in D
                 PROVE  \E k \in 1..(at + 1) :
                          /\ k <= Cardinality(profile) /\ Entry(k).required
                          /\ Entry(k).package = plans[q].package
                          /\ k = at + 1 => q = 0
      OBVIOUS
    <3>1. PICK k \in 1..at : /\ k <= Cardinality(profile) /\ Entry(k).required
                             /\ Entry(k).package = plans[q].package
      BY <1>1 DEF Accounted
    <3>2. k \in 1..(at + 1) /\ k # at + 1
      BY <1>6
    <3> HIDE DEF at
    <3> QED BY <3>1, <3>2
  <2>2. \A q, s \in D : plans[q].package = plans[s].package => q = s
    BY <1>1 DEF Accounted
  <2>3. Cardinality(D) \in Nat /\ Cardinality(D) + j.planless + j.optional = at
    <3>1. Cardinality(D) \in Nat
      BY <1>1, FewRows
    <3>2. Cardinality(D) + job[r].planless + job[r].optional = at - 1
      BY <1>1, <1>10 DEF Accounted
    <3> HIDE DEF D
    <3> QED BY <1>2, <1>6, <3>1, <3>2
  <2>4. \A q \in D : rows[r][q] \in {Goal(r), "failed"}
    BY <1>1, <1>10 DEF Accounted
  <2>5. Goal(r)' = Goal(r)
    BY <1>3 DEF Goal
  <2>6. j.planless = 0 <=> \A k \in 1..at : Entry(k).required => HasRow(r, k)
    <3>1. job[r].planless = 0 <=> \A k \in 1..(at - 1) : Entry(k).required => HasRow(r, k)
      BY <1>1 DEF Accounted
    <3>2. /\ \A k \in 1..at : k = at \/ k \in 1..(at - 1)
          /\ \A k \in 1..(at - 1) : k \in 1..at
          /\ at \in 1..at
      BY <1>6
    <3>3. Here(r) = Entry(at)
      BY DEF Here
    <3> HIDE DEF at
    <3>4. CASE ~Here(r).required /\ j.planless = job[r].planless
      BY <3>1, <3>2, <3>3, <3>4
    <3>5. CASE Here(r).required /\ j.planless = job[r].planless + 1
      <4>1. j.planless # 0
        BY <1>2, <3>5
      <4> QED BY <1>10, <3>2, <3>3, <3>5, <4>1 DEF at
    <3> QED BY <1>2, <3>4, <3>5
  <2>7. job'[r].at - 1 = at
    BY <1>3, <1>6
  <2>8. job'[r].pc \notin InPlan /\ job'[r].pc # "add"
    BY <1>3 DEF InPlan
  <2>9. \A q \in DOMAIN rows'[r] : \E k \in 1..job'[r].at :
            /\ k <= Cardinality(profile') /\ Entry(k)'.required
            /\ Entry(k)'.package = plans'[q].package
            /\ k = job'[r].at => q = job'[r].plan
    BY <1>3, <1>6, <2>1
  <2>10. Cardinality(DOMAIN rows'[r]) + job'[r].planless + job'[r].optional
          = IF job'[r].plan \in DOMAIN rows'[r] THEN job'[r].at ELSE job'[r].at - 1
    BY <1>3, <1>10, <2>3, <2>7
  <2>11. \A q \in DOMAIN rows'[r] \ {job'[r].plan} : rows'[r][q] \in {Goal(r)', "failed"}
    BY <2>4, <2>5
  <2>12. job'[r].planless = 0 <=>
          \A k \in 1..(job'[r].at - 1) : Entry(k)'.required => HasRow(r, k)'
    BY <1>3, <1>6, <1>11, <2>6, <2>7
  <2> QED BY <2>2, <2>8, <2>9, <2>10, <2>11, <2>12 DEF Accounted
<1> QED BY <1>5, <1>7, <1>8, <1>9, <1>12 DEF RunOK

-------------------------------------------------------------------------------
(* The steps of a run *)

LEMMA CreateInstallRunStep ==
  ASSUME ProfileInv, NEW r \in Runs, CreateInstallRun(r)
  PROVE  ProfileInv'
<1>1. /\ ProfileTypeOK /\ RunOK(r) /\ job \in [Runs -> Job] /\ job[r] \in Job
      /\ runs \in [Runs -> Run] /\ Cardinality(profile) \in Nat
  BY Entries DEF ProfileInv, ProfileTypeOK
<1>2. At(r, "create") /\ Goto(r, "next")
      /\ UNCHANGED <<profile, enforcement, lifecycle, rows, history, bounds>>
      /\ runs' = [runs EXCEPT ![r] = [NoRun EXCEPT !.status = "pending",
                                                   !.total = Cardinality(profile)]]
  BY DEF CreateInstallRun
<1>3. UNCHANGED <<profile, enforcement, rows, bounds, plans, planKeys, opKeys, files, started,
                  outbox, broken, lost, apart>>
  BY <1>2 DEF lifecycle, history
<1>4. PICK x \in Run : x = [NoRun EXCEPT !.status = "pending", !.total = Cardinality(profile)]
  BY <1>1 DEF Run, NoRun
<1>5. x.status = "pending" /\ x.total = Cardinality(profile)
  BY <1>4 DEF NoRun
<1>6. runs' \in [Runs -> Run] /\ runs'[r] = x /\ \A q \in Runs \ {r} : runs'[q] = runs[q]
  BY <1>1, <1>2, <1>4
<1>7. "next" \in Pcs
  BY DEF Pcs
<1>8. /\ job' \in [Runs -> Job] /\ \A q \in Runs \ {r} : job'[q] = job[q]
      /\ job'[r].pc = "next" /\ job'[r].in = job[r].in /\ job'[r].at = job[r].at
      /\ job'[r].plan = job[r].plan
      /\ job'[r].planless = job[r].planless /\ job'[r].optional = job[r].optional
  BY <1>1, <1>2, <1>7, GotoTurn
<1>9. /\ job[r].at = 1 /\ job[r].plan = 0 /\ profile # {} /\ job[r].pc = "create"
  BY <1>1, <1>2 DEF At, RunOK, Placed
<1>10. Turn(r) /\ Stays(r) /\ Grow
  BY <1>1, <1>3, <1>6, <1>8, Ungrown DEF Turn, Stays, ProfileTypeOK
<1>11. Placed(r)'
  BY <1>1, <1>3, <1>5, <1>6, <1>8, <1>9 DEF Placed, InTry
<1>12. InHand(r)' /\ Operating(r)' /\ Counted(r)'
  BY <1>5, <1>6, <1>8, <1>9 DEF InHand, Operating, Counted, InPlan, Closed
<1>13. RunOK(r)'
  BY <1>1, <1>8, <1>9, <1>10, <1>11, <1>12, StaysOK DEF InPlan
<1>14. ProfileTypeOK'
  <2>1. rows' = [q \in Runs |-> rows'[q]]
    BY <1>1, <1>3 DEF ProfileTypeOK
  <2> QED BY <1>1, <1>3, <1>6, <1>8, <2>1, QuietTypes
<1>15. /\ InFlight(r) /\ job'[r].pc \notin Fresh /\ Unkeyed(r) = {}
  BY <1>8, <1>9 DEF InFlight, Fresh, Unkeyed
<1> QED BY <1>3, <1>10, <1>13, <1>14, <1>15, QuietTurn

LEMMA TakePackageStep ==
  ASSUME ProfileInv, NEW r \in Runs, TakePackage(r)
  PROVE  ProfileInv'
<1>1. /\ ProfileTypeOK /\ RunOK(r) /\ job \in [Runs -> Job] /\ job[r] \in Job
      /\ Cardinality(profile) \in Nat
  BY Entries DEF ProfileInv, ProfileTypeOK
<1>2. UNCHANGED <<profile, enforcement, rows, runs, bounds, plans, planKeys, opKeys, files,
                  started, outbox, broken, lost, apart>>
  BY DEF TakePackage, lifecycle, history, record
<1>3. /\ job[r].pc = "next" /\ job[r].plan = 0 /\ profile # {} /\ runs[r].status = "pending"
      /\ job[r].at \in 1..(Cardinality(profile) + 1) /\ runs[r].total = Cardinality(profile)
  BY <1>1 DEF TakePackage, At, RunOK, Placed, InHand
<1>4. InFlight(r) /\ Unkeyed(r) = {}
  BY <1>3 DEF InFlight, Unkeyed
<1>5. SUFFICES job'[r].pc \notin Fresh /\ Turn(r) /\ RunOK(r)'
  <2>1. ProfileTypeOK'
    <3>1. rows' = [q \in Runs |-> rows'[q]] /\ runs' \in [Runs -> Run]
      BY <1>1, <1>2 DEF ProfileTypeOK
    <3>2. job' \in [Runs -> Job]
      BY <1>5 DEF Turn
    <3> QED BY <1>1, <1>2, <3>1, <3>2, QuietTypes
  <2> QED BY <1>2, <1>4, <1>5, <2>1, QuietTurn
<1>6. ASSUME NEW pc \in {"read", "lookup"}, Goto(r, pc),
             pc = "read" => job[r].at > Cardinality(profile),
             pc = "lookup" => job[r].at <= Cardinality(profile) /\ Here(r).required
      PROVE  job'[r].pc \notin Fresh /\ Turn(r) /\ RunOK(r)'
  <2>1. pc \in Pcs
    BY DEF Pcs, InTry
  <2>2. /\ job' \in [Runs -> Job] /\ \A q \in Runs \ {r} : job'[q] = job[q]
        /\ job'[r].pc = pc /\ job'[r].in = job[r].in /\ job'[r].at = job[r].at
        /\ job'[r].plan = job[r].plan
        /\ job'[r].planless = job[r].planless /\ job'[r].optional = job[r].optional
    BY <1>1, <1>6, <2>1, GotoTurn
  <2>3. Turn(r) /\ Stays(r) /\ Grow
    BY <1>1, <1>2, <2>2, Ungrown DEF Turn, Stays, ProfileTypeOK
  <2>4. Here(r)' = Here(r)
    BY <1>2, <2>2, StillHere
  <2>5. pc = "read" => job[r].at = Cardinality(profile) + 1
    BY <1>1, <1>3, <1>6
  <2>6. pc = "lookup" => job[r].at \in 1..Cardinality(profile)
    BY <1>1, <1>3, <1>6
  <2>7. Placed(r)'
    BY <1>2, <1>3, <1>6, <2>2, <2>4, <2>5, <2>6 DEF Placed, InTry
  <2>8. InHand(r)' /\ Operating(r)' /\ Counted(r)'
    BY <1>2, <1>3, <2>2 DEF InHand, Operating, Counted, InPlan, Closed
  <2>9. RunOK(r)'
    BY <1>1, <1>3, <2>2, <2>3, <2>7, <2>8, StaysOK DEF InPlan
  <2> QED BY <2>2, <2>3, <2>9 DEF Fresh
<1>7. ASSUME NEW j, job[r].at <= Cardinality(profile), NextPackage(r, j),
             \/ ~Here(r).required /\ j = [job[r] EXCEPT !.optional = @ + 1]
             \/ Here(r).required /\ j = [job[r] EXCEPT !.planless = @ + 1]
      PROVE  job'[r].pc \notin Fresh /\ Turn(r) /\ RunOK(r)'
  <2>1. job[r].at \in 1..Cardinality(profile)
    BY <1>1, <1>3, <1>7
  <2>2. job[r].optional + 1 \in Nat /\ job[r].planless + 1 \in Nat
    BY <1>1 DEF Job
  <2>3. j \in Job
    BY <1>1, <1>7, <2>2 DEF Job
  <2>4. Turn(r) /\ RunOK(r)'
    BY <1>1, <1>2, <1>3, <1>7, <2>1, <2>3, PassWithout
  <2>5. job'[r].pc = "next"
    BY <1>1, <1>7, <2>3, NextTurn
  <2> QED BY <2>4, <2>5 DEF Fresh
<1>8. \/ job[r].at > Cardinality(profile) /\ Goto(r, "read")
      \/ /\ job[r].at <= Cardinality(profile) /\ ~Here(r).required
         /\ NextPackage(r, [job[r] EXCEPT !.optional = @ + 1])
      \/ /\ job[r].at <= Cardinality(profile) /\ Here(r).required
         /\ NextPackage(r, [job[r] EXCEPT !.planless = @ + 1])
      \/ job[r].at <= Cardinality(profile) /\ Here(r).required /\ Goto(r, "lookup")
  BY DEF TakePackage
<1> QED BY <1>6, <1>7, <1>8

LEMMA LookupPlanStep ==
  ASSUME ProfileInv, NEW r \in Runs, LookupPlan(r)
  PROVE  ProfileInv'
<1>1. /\ ProfileTypeOK /\ RunOK(r) /\ job \in [Runs -> Job] /\ job[r] \in Job
      /\ KeysHold /\ Accounted(r) /\ RowsHold(r) /\ job[r].pc = "lookup"
  BY DEF ProfileInv, ProfileTypeOK, RunOK, LookupPlan, At
<1>2. UNCHANGED <<profile, enforcement, rows, runs, bounds, plans, planKeys, opKeys, files,
                  started, outbox, broken, lost, apart>>
  BY DEF LookupPlan, lifecycle, history, record
<1>3. job[r].plan = 0 /\ job[r].at \in 1..Cardinality(profile)
  BY <1>1 DEF RunOK, InHand, Placed, InTry
<1>4. PICK plan \in Nat, pc \in {"preflight", "add", "catch"} :
        /\ job' = [job EXCEPT ![r].plan = plan, ![r].pc = pc]
        /\ pc = "preflight" => plan = 0 /\ \A k \in planKeys : ~KeyOf(k, r)
        /\ pc = "catch" => plan = 0
        /\ pc = "add" => Made(plan, Here(r).package, job[r].in.policy)
  <2>1. CASE (~\E k \in planKeys : KeyOf(k, r)) /\ Goto(r, "preflight")
    <3>1. job' = [job EXCEPT ![r].plan = 0, ![r].pc = "preflight"]
      BY <1>1, <1>3, <2>1 DEF Goto, Job
    <3> QED BY <2>1, <3>1
  <2>2. ASSUME NEW k \in planKeys, KeyOf(k, r),
               job' = [job EXCEPT ![r].plan = IF SameRequest(k, r) THEN k.plan ELSE 0,
                                  ![r].pc = IF SameRequest(k, r) THEN "add" ELSE "catch"]
        PROVE  \E plan \in Nat, pc \in {"preflight", "add", "catch"} :
                 /\ job' = [job EXCEPT ![r].plan = plan, ![r].pc = pc]
                 /\ pc = "preflight" => plan = 0 /\ \A kk \in planKeys : ~KeyOf(kk, r)
                 /\ pc = "catch" => plan = 0
                 /\ pc = "add" => Made(plan, Here(r).package, job[r].in.policy)
    <3>1. k.plan \in Nat /\ Made(k.plan, k.package, k.policy)
      BY <1>1 DEF KeysHold, Made
    <3>2. CASE SameRequest(k, r)
      <4>1. Made(k.plan, Here(r).package, job[r].in.policy)
        BY <3>1, <3>2 DEF SameRequest
      <4>2. job' = [job EXCEPT ![r].plan = k.plan, ![r].pc = "add"]
        BY <2>2, <3>2
      <4> QED BY <3>1, <4>1, <4>2
    <3>3. CASE ~SameRequest(k, r)
      <4>1. job' = [job EXCEPT ![r].plan = 0, ![r].pc = "catch"]
        BY <2>2, <3>3
      <4> QED BY <4>1
    <3> QED BY <3>2, <3>3
  <2>3. \/ (~\E k \in planKeys : KeyOf(k, r)) /\ Goto(r, "preflight")
        \/ \E k \in planKeys :
             /\ KeyOf(k, r)
             /\ job' = [job EXCEPT ![r].plan = IF SameRequest(k, r) THEN k.plan ELSE 0,
                                   ![r].pc = IF SameRequest(k, r) THEN "add" ELSE "catch"]
    BY DEF LookupPlan
  <2> QED BY <2>1, <2>2, <2>3
<1>5. PICK x \in Job : x = [job[r] EXCEPT !.plan = plan, !.pc = pc]
  BY <1>1 DEF Job, Pcs, InTry
<1>6. job' = [job EXCEPT ![r] = x]
  BY <1>1, <1>4, <1>5
<1>7. /\ job' \in [Runs -> Job] /\ \A q \in Runs \ {r} : job'[q] = job[q]
      /\ job'[r].pc = pc /\ job'[r].in = job[r].in /\ job'[r].at = job[r].at
      /\ job'[r].plan = plan
      /\ job'[r].planless = job[r].planless /\ job'[r].optional = job[r].optional
  BY <1>1, <1>5, <1>6 DEF Job
<1>8. Turn(r) /\ Stays(r) /\ Grow
  BY <1>1, <1>2, <1>7, Ungrown DEF Turn, Stays, ProfileTypeOK
<1>9. Here(r)' = Here(r)
  BY <1>2, <1>7, StillHere
<1>10. plan \notin DOMAIN rows[r]
  BY <1>1, <1>3, <1>4, NotYet DEF Made
<1>11. InHand(r)' /\ Operating(r)'
  BY <1>2, <1>4, <1>7, <1>9 DEF InHand, Operating, InPlan, Made
<1>12. RunOK(r)'
  <2>1. pc \in InTry \cup {"catch"} /\ pc \notin InPlan /\ job[r].pc \in InTry
    BY <1>1 DEF InTry, InPlan
  <2> QED BY <1>1, <1>2, <1>3, <1>7, <1>8, <1>10, <1>11, <2>1, WithinTurn
<1>13. ProfileTypeOK'
  <2>1. rows' = [q \in Runs |-> rows'[q]] /\ runs' \in [Runs -> Run]
    BY <1>1, <1>2 DEF ProfileTypeOK
  <2> QED BY <1>1, <1>2, <1>7, <2>1, QuietTypes
<1>14. InFlight(r) /\ Unkeyed(r) = {}
  BY <1>1 DEF InFlight, Unkeyed
<1>15. job'[r].pc \in Fresh => \A k \in planKeys : ~KeyOf(k, r)
  BY <1>4, <1>7 DEF Fresh
<1> QED BY <1>2, <1>7, <1>8, <1>12, <1>13, <1>14, <1>15, QuietTurn

(***************************************************************************)
(* The statements within a package's turn that make no plan, no record and *)
(* no row.                                                                 *)
(***************************************************************************)
LEMMA InTurnStep ==
  ASSUME ProfileInv, NEW r \in Runs, job' \in [Runs -> Job],
         \A q \in Runs \ {r} : job'[q] = job[q],
         job[r].pc \in InTry \cup {"catch"}, job'[r].pc \in InTry \cup {"catch"},
         job'[r].in = job[r].in, job'[r].at = job[r].at, job'[r].plan = job[r].plan,
         job'[r].planless = job[r].planless, job'[r].optional = job[r].optional,
         UNCHANGED <<profile, enforcement, rows, runs, bounds, plans, planKeys, opKeys, files,
                     started, lost, apart>>,
         outbox \subseteq outbox',
         job'[r].pc \in InPlan => job[r].pc \in InPlan, job'[r].pc # "add",
         job'[r].pc \in Fresh => job[r].pc \in Fresh,
         apart => \A n \in Unkeyed(r) : n \in Unkeyed(r)',
         InHand(r)', Operating(r)'
  PROVE  ProfileInv'
<1>1. /\ ProfileTypeOK /\ RunOK(r) /\ job[r] \in Job /\ Accounted(r)
  BY DEF ProfileInv, ProfileTypeOK, RunOK, InTry
<1>2. Turn(r) /\ Stays(r) /\ Grow
  BY <1>1, Ungrown DEF Turn, Stays, ProfileTypeOK
<1>3. job'[r].pc \in InPlan => job'[r].plan \in DOMAIN rows[r]
  BY <1>1 DEF Accounted
<1>4. RunOK(r)'
  BY <1>1, <1>2, <1>3, WithinTurn
<1>5. ProfileTypeOK'
  <2>1. rows' = [q \in Runs |-> rows'[q]] /\ runs' \in [Runs -> Run]
    BY <1>1 DEF ProfileTypeOK
  <2> QED BY <1>1, <2>1, QuietTypes
<1>6. InFlight(r)
  BY DEF InFlight, InTry
<1>7. job'[r].pc \in Fresh => (apart => \A k \in planKeys : ~KeyOf(k, r))
  BY DEF ProfileInv, Alone, Fresh
<1>8. lost \subseteq lost'
  OBVIOUS
<1> QED BY <1>2, <1>4, <1>5, <1>6, <1>7, <1>8, QuietTurn

LEMMA PreflightPlanStep ==
  ASSUME ProfileInv, NEW r \in Runs, PreflightPlan(r)
  PROVE  ProfileInv'
<1>1. /\ job \in [Runs -> Job] /\ job[r] \in Job /\ InHand(r) /\ job[r].pc = "preflight"
  BY DEF ProfileInv, ProfileTypeOK, RunOK, PreflightPlan, At
<1>2. UNCHANGED <<profile, enforcement, rows, runs, bounds, plans, planKeys, opKeys, files,
                  started, outbox, broken, lost, apart>>
  BY DEF PreflightPlan, lifecycle, history, record
<1>3. PICK blocked \in BOOLEAN : job' = [job EXCEPT ![r].pc = "insert", ![r].blocked = blocked]
  BY DEF PreflightPlan
<1>4. PICK x \in Job : x = [job[r] EXCEPT !.pc = "insert", !.blocked = blocked]
  BY <1>1 DEF Job, Pcs, InTry
<1>5. job' = [job EXCEPT ![r] = x]
  BY <1>1, <1>3, <1>4
<1>6. /\ job' \in [Runs -> Job] /\ \A q \in Runs \ {r} : job'[q] = job[q]
      /\ job'[r].pc = "insert" /\ job'[r].in = job[r].in /\ job'[r].at = job[r].at
      /\ job'[r].plan = job[r].plan
      /\ job'[r].planless = job[r].planless /\ job'[r].optional = job[r].optional
  BY <1>1, <1>4, <1>5 DEF Job
<1>7. InHand(r)' /\ Operating(r)'
  BY <1>1, <1>6 DEF InHand, Operating, InPlan
<1>8. /\ job[r].pc \in InTry \cup {"catch"} /\ job'[r].pc \in InTry \cup {"catch"}
      /\ job'[r].pc \notin InPlan /\ job'[r].pc # "add" /\ job[r].pc \in Fresh
      /\ Unkeyed(r) = {} /\ outbox \subseteq outbox'
  BY <1>1, <1>2, <1>6 DEF InTry, InPlan, Fresh, Unkeyed
<1> QED BY <1>2, <1>6, <1>7, <1>8, InTurnStep

LEMMA InsertPlanStep ==
  ASSUME ProfileInv, NEW r \in Runs, InsertPlan(r)
  PROVE  ProfileInv'
<1> DEFINE new == [package |-> Here(r).package, policy |-> job[r].in.policy,
                   blocked |-> job[r].blocked, apply |-> 0, verify |-> 0, done |-> {}]
<1>1. /\ ProfileTypeOK /\ RunOK(r) /\ job \in [Runs -> Job] /\ job[r] \in Job
      /\ job[r].pc = "insert" /\ KeysHold /\ BlockedPlansDoNothing /\ Alone /\ OnePlanPerKey
      /\ plans \in Seq(Plan) /\ Len(plans) \in Nat
  BY DEF ProfileInv, ProfileTypeOK, InsertPlan, At
<1>2. /\ UNCHANGED <<profile, enforcement, rows, runs, bounds, planKeys, opKeys, files,
                     started, outbox, broken, lost, apart>>
      /\ plans' = Append(plans, new)
      /\ job' = [job EXCEPT ![r].pc = "announce", ![r].made = Len(plans')]
  BY DEF InsertPlan, history, record
<1>3. /\ job[r].plan = 0 /\ job[r].at \in 1..Cardinality(profile)
  BY <1>1 DEF RunOK, InHand, Placed, InTry
<1>4. new \in Plan
  <2>1. Here(r) \in Listings
    BY <1>1, <1>3, Entries DEF Here, ProfileTypeOK
  <2>2. Here(r).package \in Packages
    BY <2>1 DEF Listings
  <2>3. job[r].in.policy \in {in.policy : in \in Inputs} /\ job[r].blocked \in BOOLEAN
    BY <1>1 DEF Job
  <2> QED BY <2>2, <2>3 DEF Plan
<1>5. /\ plans' \in Seq(Plan) /\ Len(plans') = Len(plans) + 1
      /\ \A n \in 1..Len(plans) : plans'[n] = plans[n]
      /\ plans'[Len(plans) + 1] = new
  <2> HIDE DEF new
  <2> QED BY <1>1, <1>2, <1>4
<1>6. new.package = Here(r).package /\ new.policy = job[r].in.policy /\ new.done = {}
  OBVIOUS
<1> HIDE DEF new
<1>7. Grow
  <2>1. \A p \in Plan : \A op \in Ops : p[op] \in Nat
    BY DEF Plan, Ops
  <2>2. \A n \in 1..Len(plans) : \A op \in Ops : plans[n][op] \in Nat
    BY <1>1, <2>1
  <2> QED BY <1>1, <1>2, <1>5, <2>2 DEF Grow
<1>8. PICK x \in Job : x = [job[r] EXCEPT !.pc = "announce", !.made = Len(plans) + 1]
  <2>1. PICK m \in Nat : m = Len(plans) + 1
    BY <1>1
  <2>2. PICK x \in Job : x = [job[r] EXCEPT !.pc = "announce", !.made = m]
    BY <1>1 DEF Job, Pcs, InTry
  <2> QED BY <2>1, <2>2
<1>9. job' = [job EXCEPT ![r] = x]
  BY <1>1, <1>2, <1>5, <1>8
<1>10. /\ job' \in [Runs -> Job] /\ \A q \in Runs \ {r} : job'[q] = job[q]
       /\ job'[r].pc = "announce" /\ job'[r].in = job[r].in /\ job'[r].at = job[r].at
       /\ job'[r].plan = job[r].plan /\ job'[r].made = Len(plans) + 1
       /\ job'[r].planless = job[r].planless /\ job'[r].optional = job[r].optional
  BY <1>1, <1>8, <1>9 DEF Job
<1>11. Turn(r) /\ Stays(r)
  BY <1>2, <1>10 DEF Turn, Stays
<1>12. Here(r)' = Here(r)
  BY <1>2, <1>10, StillHere
<1>13. InHand(r)' /\ Operating(r)'
  <2>1. /\ Len(plans) + 1 \in 1..Len(plans')
    BY <1>1, <1>5
  <2> QED BY <1>3, <1>5, <1>6, <1>10, <1>12, <2>1 DEF InHand, Operating, InPlan, Made
<1>14. RunOK(r)'
  <2>1. /\ job[r].pc \in InTry \cup {"catch"} /\ job'[r].pc \in InTry \cup {"catch"}
        /\ job'[r].pc \notin InPlan /\ job'[r].pc # "add"
    BY <1>1, <1>10 DEF InTry, InPlan
  <2> QED BY <1>1, <1>2, <1>7, <1>10, <1>11, <1>13, <2>1, WithinTurn
<1>15. \A q \in Runs : RunOK(q)'
  BY <1>7, <1>11, <1>14, Others
<1>16. ProfileTypeOK'
  BY <1>1, <1>2, <1>5, <1>10 DEF ProfileTypeOK, Normalized, UniquePackages
<1>17. KeysHold'
  BY <1>1, <1>2, <1>7, KeysKept
<1>18. BlockedPlansDoNothing'
  <2>1. \A n \in 1..Len(plans') : n \in 1..Len(plans) \/ n = Len(plans) + 1
    BY <1>1, <1>5
  <2>2. \A n \in 1..Len(plans') : plans'[n].blocked => plans'[n].done = {}
    BY <1>1, <1>5, <1>6, <2>1 DEF BlockedPlansDoNothing
  <2>3. \A n \in 1..Len(plans) : n \in 1..Len(plans')
    BY <1>1, <1>5
  <2>4. ASSUME NEW p \in files \cup started
        PROVE  \E n \in 1..Len(plans') : plans'[n].package = p /\ ~plans'[n].blocked
    BY <1>1, <1>5, <2>3 DEF BlockedPlansDoNothing
  <2> QED BY <1>2, <2>2, <2>4 DEF BlockedPlansDoNothing
<1>19. Alone'
  <2>1. InFlight(r) /\ job[r].pc \in Fresh
    BY <1>1 DEF InFlight, Fresh
  <2>2. apart => \A k \in planKeys : ~KeyOf(k, r)
    BY <1>1, <2>1 DEF Alone, Fresh
  <2> QED BY <1>1, <1>2, <1>10, <1>11, <2>1, <2>2, AloneKept
<1>20. OnePlanPerKey'
  <2> SUFFICES ASSUME apart, NEW n \in 1..Len(plans')
               PROVE  \/ n \in lost
                      \/ \E q \in Runs : n \in Unkeyed(q)'
                      \/ \E k \in planKeys : k.plan = n
    BY <1>2 DEF OnePlanPerKey
  <2>1. CASE n = Len(plans) + 1
    BY <1>10, <2>1 DEF Unkeyed
  <2>2. CASE n \in 1..Len(plans)
    <3>1. ASSUME NEW q \in Runs, n \in Unkeyed(q) PROVE n \in Unkeyed(q)'
      <4>1. q # r
        BY <1>1, <3>1 DEF Unkeyed
      <4>2. job'[q] = job[q]
        BY <1>10, <4>1
      <4> QED BY <3>1, <4>2 DEF Unkeyed
    <3> QED BY <1>1, <2>2, <3>1 DEF OnePlanPerKey
  <2> QED BY <1>1, <1>5, <2>1, <2>2
<1> QED BY <1>15, <1>16, <1>17, <1>18, <1>19, <1>20 DEF ProfileInv

LEMMA PublishPlanStep ==
  ASSUME ProfileInv, NEW r \in Runs, PublishPlan(r)
  PROVE  ProfileInv'
<1>1. /\ job \in [Runs -> Job] /\ job[r] \in Job /\ InHand(r) /\ job[r].pc = "announce"
  BY DEF ProfileInv, ProfileTypeOK, RunOK, PublishPlan, At
<1>2. /\ UNCHANGED <<profile, enforcement, rows, runs, bounds, plans, planKeys, opKeys, files,
                     started, broken, lost, apart>>
      /\ outbox \subseteq outbox' /\ Goto(r, "key")
  BY DEF PublishPlan, history, record
<1>3. "key" \in Pcs
  BY DEF Pcs, InTry
<1>4. /\ job' \in [Runs -> Job] /\ \A q \in Runs \ {r} : job'[q] = job[q]
      /\ job'[r].pc = "key" /\ job'[r].in = job[r].in /\ job'[r].at = job[r].at
      /\ job'[r].plan = job[r].plan /\ job'[r].made = job[r].made
      /\ job'[r].planless = job[r].planless /\ job'[r].optional = job[r].optional
  BY <1>1, <1>2, <1>3, GotoTurn
<1>5. Here(r)' = Here(r)
  BY <1>2, <1>4, StillHere
<1>6. InHand(r)' /\ Operating(r)'
  BY <1>1, <1>2, <1>4, <1>5 DEF InHand, Operating, InPlan, Made
<1>7. /\ job[r].pc \in InTry \cup {"catch"} /\ job'[r].pc \in InTry \cup {"catch"}
      /\ job'[r].pc \notin InPlan /\ job'[r].pc # "add" /\ job[r].pc \in Fresh
  BY <1>1, <1>4 DEF InTry, InPlan, Fresh
<1>8. \A n \in Unkeyed(r) : n \in Unkeyed(r)'
  BY <1>1, <1>4 DEF Unkeyed
<1> QED BY <1>2, <1>4, <1>6, <1>7, <1>8, InTurnStep

LEMMA BasesOfRuns ==
  ASSUME NEW r \in Runs, job[r] \in Job
  PROVE  Base(r) \in Bases
<1>1. job[r].in \in Inputs
  BY DEF Job
<1> QED BY <1>1, ProfileAssumption DEF Base, Bases

LEMMA PutPlanKeyStep ==
  ASSUME ProfileInv, NEW r \in Runs, PutPlanKey(r)
  PROVE  ProfileInv'
<1> DEFINE mine == [base |-> Base(r), package |-> Here(r).package,
                    policy |-> job[r].in.policy, plan |-> job[r].made]
           same == {k \in planKeys : KeyOf(k, r)}
<1>1. /\ ProfileTypeOK /\ RunOK(r) /\ job \in [Runs -> Job] /\ job[r] \in Job
      /\ job[r].pc = "key" /\ KeysHold /\ BlockedPlansDoNothing /\ Alone /\ OnePlanPerKey
      /\ InHand(r) /\ Accounted(r) /\ RowsHold(r)
  BY DEF ProfileInv, ProfileTypeOK, PutPlanKey, At, RunOK
<1>2. /\ UNCHANGED <<profile, enforcement, rows, runs, bounds, plans, opKeys, files,
                     started, outbox, broken, lost, apart>>
  BY DEF PutPlanKey, history, record
<1>3. /\ job[r].plan = 0 /\ job[r].at \in 1..Cardinality(profile)
      /\ Made(job[r].made, Here(r).package, job[r].in.policy)
  BY <1>1 DEF RunOK, InHand, Placed, InTry
<1>4. apart => same = {}
  BY <1>1 DEF Alone
<1>5. InFlight(r) /\ job[r].pc \in Fresh
  BY <1>1 DEF InFlight, Fresh
<1>6. CASE (\E k \in same : ~SameRequest(k, r)) /\ Goto(r, "catch") /\ UNCHANGED planKeys
  <2>1. "catch" \in Pcs
    BY DEF Pcs, InTry
  <2>2. /\ job' \in [Runs -> Job] /\ \A q \in Runs \ {r} : job'[q] = job[q]
        /\ job'[r].pc = "catch" /\ job'[r].in = job[r].in /\ job'[r].at = job[r].at
        /\ job'[r].plan = job[r].plan
        /\ job'[r].planless = job[r].planless /\ job'[r].optional = job[r].optional
    BY <1>1, <1>6, <2>1, GotoTurn
  <2>3. InHand(r)' /\ Operating(r)'
    BY <1>3, <2>2 DEF InHand, Operating, InPlan
  <2>4. /\ job[r].pc \in InTry \cup {"catch"} /\ job'[r].pc \in InTry \cup {"catch"}
        /\ job'[r].pc \notin InPlan /\ job'[r].pc # "add"
    BY <1>1, <2>2 DEF InTry, InPlan
  <2>5. ~apart
    BY <1>4, <1>6
  <2>6. outbox \subseteq outbox'
    BY <1>2
  <2> HIDE DEF same, mine
  <2> QED BY <1>2, <1>5, <1>6, <2>2, <2>3, <2>4, <2>5, <2>6, InTurnStep
<1>7. CASE /\ \A k \in same : SameRequest(k, r)
           /\ planKeys' = (planKeys \ same) \cup {mine}
           /\ job' = [job EXCEPT ![r].pc = "add", ![r].plan = job[r].made]
  <2>1. PICK x \in Job : x = [job[r] EXCEPT !.pc = "add", !.plan = job[r].made]
    BY <1>1 DEF Job, Pcs, InTry
  <2>2. job' = [job EXCEPT ![r] = x]
    BY <1>1, <1>7, <2>1
  <2>3. /\ job' \in [Runs -> Job] /\ \A q \in Runs \ {r} : job'[q] = job[q]
        /\ job'[r].pc = "add" /\ job'[r].in = job[r].in /\ job'[r].at = job[r].at
        /\ job'[r].plan = job[r].made
        /\ job'[r].planless = job[r].planless /\ job'[r].optional = job[r].optional
    BY <1>1, <2>1, <2>2 DEF Job
  <2>4. Turn(r) /\ Stays(r) /\ Grow
    BY <1>1, <1>2, <2>3, Ungrown DEF Turn, Stays, ProfileTypeOK
  <2>5. Here(r)' = Here(r)
    BY <1>2, <2>3, StillHere
  <2>6. job[r].made \notin DOMAIN rows[r]
    BY <1>1, <1>3, NotYet DEF Made
  <2>7. InHand(r)' /\ Operating(r)'
    BY <1>2, <1>3, <2>3, <2>5 DEF InHand, Operating, InPlan, Made
  <2>8. RunOK(r)'
    <3>1. /\ job[r].pc \in InTry \cup {"catch"} /\ job'[r].pc \in InTry \cup {"catch"}
          /\ job'[r].pc \notin InPlan
      BY <1>1, <2>3 DEF InTry, InPlan
    <3> HIDE DEF same, mine
    <3> QED BY <1>1, <1>2, <1>3, <2>3, <2>4, <2>6, <2>7, <3>1, WithinTurn
  <2>9. \A q \in Runs : RunOK(q)'
    BY <2>4, <2>8, Others
  <2>10. /\ mine \in PlanKey /\ mine.plan = job[r].made
         /\ mine.package = Here(r).package /\ mine.policy = job[r].in.policy
    <3>1. Here(r) \in Listings
      BY <1>1, <1>3, Entries DEF Here, ProfileTypeOK
    <3>2. Here(r).package \in Packages
      BY <3>1 DEF Listings
    <3>3. job[r].in.policy \in Policies /\ job[r].made \in Nat
      BY <1>1 DEF Job, Policies
    <3>4. Base(r) \in Bases
      BY <1>1, BasesOfRuns
    <3> QED BY <3>2, <3>3, <3>4 DEF PlanKey
  <2> HIDE DEF mine
  <2>11. ProfileTypeOK'
    <3>1. planKeys' \subseteq PlanKey
      BY <1>1, <1>7, <2>10 DEF ProfileTypeOK
    <3> QED BY <1>1, <1>2, <2>3, <3>1 DEF ProfileTypeOK, Normalized, UniquePackages
  <2>12. KeysHold'
    <3>1. ASSUME NEW k \in planKeys' PROVE Made(k.plan, k.package, k.policy)'
      <4>1. CASE k = mine
        BY <1>2, <1>3, <2>10, <4>1 DEF Made
      <4>2. CASE k \in planKeys
        BY <1>1, <1>2, <4>2 DEF KeysHold, Made
      <4> QED BY <1>7, <4>1, <4>2
    <3>2. \A op, n : Succeeded(op, n)' <=> Succeeded(op, n)
      BY <1>2 DEF Succeeded
    <3> QED BY <1>1, <1>2, <3>1, <3>2 DEF KeysHold
  <2>13. BlockedPlansDoNothing'
    BY <1>1, <1>2 DEF BlockedPlansDoNothing
  <2>14. Alone'
    <3> SUFFICES ASSUME apart
                 PROVE  /\ \A p, q \in Runs : InFlight(p)' /\ InFlight(q)' => p = q
                        /\ \A q \in Runs : job'[q].pc \notin Fresh
      BY <1>2 DEF Alone, Fresh
    <3>1. \A q \in Runs : InFlight(q)' => InFlight(q)
      BY <1>5, <2>3 DEF InFlight
    <3>2. ASSUME NEW q \in Runs, q # r PROVE job'[q].pc \notin Fresh
      <4>1. ~InFlight(q)
        BY <1>1, <1>5, <3>2 DEF Alone
      <4> QED BY <2>3, <3>2, <4>1 DEF InFlight, Fresh
    <3>3. job'[r].pc \notin Fresh
      BY <2>3 DEF Fresh
    <3> QED BY <1>1, <3>1, <3>2, <3>3 DEF Alone
  <2>15. OnePlanPerKey'
    <3> SUFFICES ASSUME apart, NEW n \in 1..Len(plans)
                 PROVE  \/ n \in lost
                        \/ \E q \in Runs : n \in Unkeyed(q)'
                        \/ \E k \in planKeys' : k.plan = n
      BY <1>2 DEF OnePlanPerKey
    <3>1. planKeys' = planKeys \cup {mine}
      BY <1>4, <1>7
    <3>2. ASSUME NEW q \in Runs, n \in Unkeyed(q)
          PROVE  n \in Unkeyed(q)' \/ n = mine.plan
      <4>1. CASE q = r
        BY <2>10, <3>2, <4>1 DEF Unkeyed
      <4>2. CASE q # r
        <5>1. job'[q] = job[q]
          BY <2>3, <4>2
        <5> QED BY <3>2, <5>1 DEF Unkeyed
      <4> QED BY <4>1, <4>2
    <3> QED BY <1>1, <3>1, <3>2 DEF OnePlanPerKey
  <2> QED BY <2>9, <2>11, <2>12, <2>13, <2>14, <2>15 DEF ProfileInv
<1> QED BY <1>6, <1>7 DEF PutPlanKey

LEMMA AddRowStep ==
  ASSUME ProfileInv, NEW r \in Runs, AddRow(r)
  PROVE  ProfileInv'
<1>1. /\ ProfileTypeOK /\ RunOK(r) /\ job \in [Runs -> Job] /\ job[r] \in Job
      /\ job[r].pc = "add" /\ runs \in [Runs -> Run]
  BY DEF ProfileInv, ProfileTypeOK, AddRow, At
<1>2. /\ UNCHANGED <<profile, enforcement, runs, bounds, plans, planKeys, opKeys, files,
                     started, outbox, broken, lost, apart>>
      /\ rows' = Row(r, job[r].plan, "planned")
  BY DEF AddRow, lifecycle, history
<1>3. job[r].plan # 0
  BY <1>1 DEF RunOK, InHand, Made
<1>4. "planned" \in RowStatuses
  BY DEF RowStatuses
<1>5. Turn(r) /\ RunOK(r)' /\ rows' = [q \in Runs |-> rows'[q]] /\ job'[r].pc \notin Fresh
  <2>1. CASE job[r].in.mode = "plan_only"
    <3>1. NextPackage(r, job[r]) /\ Goal(r) = "planned"
      BY <2>1 DEF AddRow, Goal
    <3>2. job'[r].pc = "next"
      BY <1>1, <3>1, NextTurn
    <3> QED BY <1>1, <1>2, <1>3, <1>4, <3>1, <3>2, PassWithRow DEF Fresh
  <2>2. CASE job[r].in.mode # "plan_only"
    <3>1. job' = [job EXCEPT ![r].pc = "ask", ![r].op = "apply"]
      BY <2>2 DEF AddRow
    <3>2. job[r].in.mode = "apply_verify"
      BY <1>1, <2>2, ProfileAssumption DEF Job
    <3>3. "apply" \in Ops /\ job'[r].pc = "ask"
      BY <1>1, <3>1 DEF Ops, Job
    <3> QED BY <1>1, <1>2, <1>4, <3>1, <3>2, <3>3, OnWithRow DEF Fresh
  <2> QED BY <2>1, <2>2
<1>6. ProfileTypeOK'
  BY <1>1, <1>2, <1>5, QuietTypes DEF Turn
<1>7. InFlight(r) /\ Unkeyed(r) = {}
  BY <1>1 DEF InFlight, Unkeyed
<1> QED BY <1>2, <1>5, <1>6, <1>7, QuietTurn

LEMMA LookupOpStep ==
  ASSUME ProfileInv, NEW r \in Runs, LookupOp(r)
  PROVE  ProfileInv'
<1> DEFINE n  == job[r].plan
           op == job[r].op
<1>1. /\ job \in [Runs -> Job] /\ job[r] \in Job /\ InHand(r) /\ Operating(r)
      /\ job[r].pc = "ask" /\ KeysHold /\ plans \in Seq(Plan) /\ opKeys \subseteq OpRecord
  BY DEF ProfileInv, ProfileTypeOK, RunOK, LookupOp, At
<1>2. /\ UNCHANGED <<profile, enforcement, rows, runs, bounds, plans, planKeys, opKeys, files,
                     started, outbox, broken, lost, apart>>
  BY DEF LookupOp, lifecycle, history, record
<1>3. n \in 1..Len(plans) /\ op \in Ops
  BY <1>1 DEF InHand, InPlan, Made, Job
<1>4. plans[n][op] \in Nat
  <2>1. plans[n] \in Plan
    BY <1>1, <1>3
  <2> QED BY <1>3, <2>1 DEF Plan, Ops
<1> DEFINE Looked == /\ job' \in [Runs -> Job] /\ \A q \in Runs \ {r} : job'[q] = job[q]
                     /\ job'[r].pc \in {"row", "work"}
                     /\ job'[r].in = job[r].in /\ job'[r].at = job[r].at
                     /\ job'[r].plan = job[r].plan /\ job'[r].op = job[r].op
                     /\ job'[r].planless = job[r].planless /\ job'[r].optional = job[r].optional
                     /\ job'[r].pc = "row" /\ job'[r].ok => Succeeded(op, n)
                     /\ job'[r].pc = "work" => job'[r].number = plans[n][op] + 1
<1>5. Looked
  <2>1. ASSUME NEW k \in opKeys, k.key = OpKey(r),
               job' = [job EXCEPT ![r].pc = "row", ![r].ok = k.ok]
        PROVE  Looked
    <3>1. k.ok \in BOOLEAN /\ k.key[1] = op /\ k.key[2] = n
      BY <1>1, <2>1 DEF OpRecord, OpKey
    <3>2. k.ok => Succeeded(op, n)
      BY <1>1, <3>1 DEF KeysHold
    <3>3. PICK x \in Job : x = [job[r] EXCEPT !.pc = "row", !.ok = k.ok]
      BY <1>1, <3>1 DEF Job, Pcs, InTry
    <3>4. job' = [job EXCEPT ![r] = x]
      BY <1>1, <2>1, <3>3
    <3>5. /\ x.pc = "row" /\ x.in = job[r].in /\ x.at = job[r].at /\ x.plan = job[r].plan
          /\ x.op = job[r].op /\ x.planless = job[r].planless
          /\ x.optional = job[r].optional /\ x.ok = k.ok
      BY <1>1, <3>3 DEF Job
    <3> QED BY <1>1, <3>2, <3>4, <3>5
  <2>2. CASE job' = [job EXCEPT ![r].pc = "work", ![r].number = plans[n][op] + 1]
    <3>1. PICK m \in Nat : m = plans[n][op] + 1
      BY <1>4
    <3>2. PICK x \in Job : x = [job[r] EXCEPT !.pc = "work", !.number = m]
      BY <1>1 DEF Job, Pcs, InTry
    <3>3. job' = [job EXCEPT ![r] = x]
      BY <1>1, <2>2, <3>1, <3>2
    <3>4. /\ x.pc = "work" /\ x.in = job[r].in /\ x.at = job[r].at /\ x.plan = job[r].plan
          /\ x.op = job[r].op /\ x.planless = job[r].planless
          /\ x.optional = job[r].optional /\ x.number = m
      BY <1>1, <3>2 DEF Job
    <3> QED BY <1>1, <3>1, <3>3, <3>4
  <2> QED BY <2>1, <2>2 DEF LookupOp
<1>6. Here(r)' = Here(r)
  BY <1>2, <1>5, StillHere
<1>7. InHand(r)'
  BY <1>1, <1>2, <1>5, <1>6 DEF InHand, InPlan, Made
<1>8. Operating(r)'
  <2>1. \A o, m : Succeeded(o, m)' <=> Succeeded(o, m)
    BY <1>2 DEF Succeeded
  <2>2. plans[n][op] + 1 \in 1..(plans[n][op] + 1)
    BY <1>4
  <2>3. Operating(r) /\ job[r].pc \in InPlan
    BY <1>1 DEF InPlan
  <2> QED BY <1>2, <1>5, <2>1, <2>2, <2>3 DEF Operating
<1>9. /\ job[r].pc \in InTry \cup {"catch"} /\ job'[r].pc \in InTry \cup {"catch"}
      /\ job[r].pc \in InPlan /\ job'[r].pc # "add" /\ job'[r].pc \notin Fresh
      /\ Unkeyed(r) = {} /\ outbox \subseteq outbox'
  BY <1>1, <1>2, <1>5 DEF InTry, InPlan, Fresh, Unkeyed
<1> HIDE DEF n, op
<1> QED BY <1>2, <1>5, <1>7, <1>8, <1>9, InTurnStep

LEMMA DoOpStep ==
  ASSUME ProfileInv, NEW r \in Runs, DoOp(r)
  PROVE  ProfileInv'
<1> DEFINE n == job[r].plan
           p == plans[n].package
<1>1. /\ ProfileTypeOK /\ RunOK(r) /\ job \in [Runs -> Job] /\ job[r] \in Job
      /\ job[r].pc = "work" /\ KeysHold /\ BlockedPlansDoNothing /\ Alone /\ OnePlanPerKey
      /\ InHand(r) /\ Accounted(r) /\ RowsHold(r) /\ Operating(r) /\ plans \in Seq(Plan)
      /\ files \subseteq Packages /\ started \subseteq Packages
  BY DEF ProfileInv, ProfileTypeOK, DoOp, At, RunOK
<1>2. /\ UNCHANGED <<profile, enforcement, rows, runs, bounds, plans, planKeys, opKeys,
                     outbox, broken, lost, apart>>
  BY DEF DoOp, history, record
<1>3. n \in 1..Len(plans) /\ p \in Packages
  <2>1. n \in 1..Len(plans)
    BY <1>1 DEF InHand, InPlan, Made
  <2>2. plans[n] \in Plan
    BY <1>1, <2>1
  <2> QED BY <2>1, <2>2 DEF Plan
<1>4. PICK ok \in BOOLEAN :
        /\ plans[n].blocked => ~ok
        /\ files' \in {files, files \cup {p}} /\ started' \in {started, started \cup {p}}
        /\ plans[n].blocked => files' = files /\ started' = started
        /\ job' = [job EXCEPT ![r].pc = "commit", ![r].ok = ok]
  <2> DEFINE Effect(set, op, ok) ==
               CASE op # job[r].op \/ (plans[n].blocked /\ ~ok) -> {set}
                 [] op = job[r].op /\ ok                        -> {set \cup {p}}
                 [] OTHER                                       -> {set, set \cup {p}}
  <2>1. PICK ok \in BOOLEAN : /\ plans[n].blocked => ~ok
                              /\ files' \in Effect(files, "apply", ok)
                              /\ started' \in Effect(started, "verify", ok)
                              /\ job' = [job EXCEPT ![r].pc = "commit", ![r].ok = ok]
    BY DEF DoOp, MayRun
  <2>2. ASSUME NEW set, NEW op
        PROVE  /\ Effect(set, op, ok) \subseteq {set, set \cup {p}}
               /\ plans[n].blocked => Effect(set, op, ok) = {set}
    <3>1. CASE op # job[r].op \/ (plans[n].blocked /\ ~ok)
      <4>1. Effect(set, op, ok) = {set}
        BY <2>1, <3>1
      <4> HIDE DEF Effect, p
      <4> QED BY <4>1
    <3>2. CASE op = job[r].op /\ ok
      <4>1. Effect(set, op, ok) = {set \cup {p}}
        BY <2>1, <3>2
      <4> HIDE DEF Effect, p
      <4> QED BY <2>1, <3>2, <4>1
    <3>3. CASE op = job[r].op /\ ~ok /\ ~plans[n].blocked
      <4>1. Effect(set, op, ok) = {set, set \cup {p}}
        BY <3>3
      <4> HIDE DEF Effect, p
      <4> QED BY <3>3, <4>1
    <3> QED BY <3>1, <3>2, <3>3
  <2> HIDE DEF Effect, p
  <2>3. /\ files' \in {files, files \cup {p}} /\ started' \in {started, started \cup {p}}
        /\ plans[n].blocked => files' = files /\ started' = started
    BY <2>1, <2>2
  <2> QED BY <2>1, <2>3
<1>5. PICK x \in Job : x = [job[r] EXCEPT !.pc = "commit", !.ok = ok]
  BY <1>1 DEF Job, Pcs, InTry
<1>6. job' = [job EXCEPT ![r] = x]
  BY <1>1, <1>4, <1>5
<1>7. /\ job' \in [Runs -> Job] /\ \A q \in Runs \ {r} : job'[q] = job[q]
      /\ job'[r].pc = "commit" /\ job'[r].in = job[r].in /\ job'[r].at = job[r].at
      /\ job'[r].plan = job[r].plan /\ job'[r].op = job[r].op
      /\ job'[r].number = job[r].number /\ job'[r].ok = ok
      /\ job'[r].planless = job[r].planless /\ job'[r].optional = job[r].optional
  BY <1>1, <1>5, <1>6 DEF Job
<1>8. Turn(r) /\ Stays(r) /\ Grow
  BY <1>1, <1>2, <1>7, Ungrown DEF Turn, Stays
<1>9. Here(r)' = Here(r)
  BY <1>2, <1>7, StillHere
<1>10. InHand(r)'
  BY <1>1, <1>2, <1>7, <1>9 DEF InHand, InPlan, Made
<1>11. Operating(r)'
  <2>1. \A o, m : Succeeded(o, m)' <=> Succeeded(o, m)
    BY <1>2 DEF Succeeded
  <2>2. Operating(r) /\ job[r].pc \in InPlan
    BY <1>1 DEF InPlan
  <2> QED BY <1>1, <1>2, <1>4, <1>7, <2>1, <2>2 DEF Operating
<1>12. RunOK(r)'
  <2>1. /\ job[r].pc \in InTry \cup {"catch"} /\ job'[r].pc \in InTry \cup {"catch"}
        /\ job[r].pc \in InPlan /\ job'[r].pc # "add"
    BY <1>1, <1>7 DEF InTry, InPlan
  <2>2. job'[r].plan \in DOMAIN rows[r]
    BY <1>1, <1>7, <2>1 DEF Accounted
  <2> HIDE DEF n, p
  <2> QED BY <1>1, <1>2, <1>7, <1>8, <1>10, <1>11, <2>1, <2>2, WithinTurn
<1>13. \A q \in Runs : RunOK(q)'
  BY <1>8, <1>12, Others
<1>14. ProfileTypeOK'
  <2>1. files' \subseteq Packages /\ started' \subseteq Packages
    BY <1>1, <1>3, <1>4
  <2> HIDE DEF n, p
  <2> QED BY <1>1, <1>2, <1>7, <2>1 DEF ProfileTypeOK, Normalized, UniquePackages
<1>15. KeysHold'
  BY <1>1, <1>2, <1>8, KeysKept
<1>16. BlockedPlansDoNothing'
  <2>1. ASSUME NEW a \in files' \cup started'
        PROVE  \E m \in 1..Len(plans) : plans[m].package = a /\ ~plans[m].blocked
    <3>1. a \in files \cup started \/ (a = p /\ ~plans[n].blocked)
      BY <1>4
    <3> QED BY <1>1, <1>3, <3>1 DEF BlockedPlansDoNothing
  <2> QED BY <1>1, <1>2, <2>1 DEF BlockedPlansDoNothing
<1>17. InFlight(r) /\ Unkeyed(r) = {} /\ job'[r].pc \notin Fresh
  BY <1>1, <1>7 DEF InFlight, Unkeyed, Fresh
<1>18. Alone'
  BY <1>1, <1>2, <1>8, <1>17, AloneKept
<1>19. OnePlanPerKey'
  BY <1>1, <1>2, <1>8, <1>17, OnePlanKept
<1> QED BY <1>13, <1>14, <1>15, <1>16, <1>18, <1>19 DEF ProfileInv

LEMMA CommitOpStep ==
  ASSUME ProfileInv, NEW r \in Runs, CommitOp(r)
  PROVE  ProfileInv'
<1>1. /\ ProfileTypeOK /\ RunOK(r) /\ job \in [Runs -> Job] /\ job[r] \in Job
      /\ job[r].pc = "commit" /\ KeysHold /\ BlockedPlansDoNothing /\ Alone /\ OnePlanPerKey
      /\ InHand(r) /\ Accounted(r) /\ RowsHold(r) /\ Operating(r) /\ plans \in Seq(Plan)
  BY DEF ProfileInv, ProfileTypeOK, CommitOp, At, RunOK
<1>2. /\ UNCHANGED <<profile, enforcement, rows, runs, bounds, planKeys, opKeys, files, started,
                     outbox, broken, lost, apart>>
  BY DEF CommitOp, history, record
<1>3. PICK n \in 1..Len(plans), op \in Ops : n = job[r].plan /\ op = job[r].op
  BY <1>1 DEF InHand, InPlan, Made, Job
<1>4. plans[n] \in Plan /\ plans[n][op] \in Nat /\ plans[n].done \subseteq Ops
  <2>1. plans[n] \in Plan
    BY <1>1, <1>3
  <2> QED BY <1>3, <2>1 DEF Plan, Ops
<1>5. \/ plans[n][op] >= job[r].number /\ Goto(r, "catch") /\ UNCHANGED plans
      \/ /\ plans[n][op] < job[r].number
         /\ plans' = [plans EXCEPT ![n][op] = @ + 1,
                                   ![n].done = IF job[r].ok THEN @ \cup {op} ELSE @]
         /\ Goto(r, "publish")
  BY <1>3 DEF CommitOp
<1>6. job[r].pc \in InTry \cup {"catch"} /\ job[r].pc \in InPlan /\ Unkeyed(r) = {}
      /\ InFlight(r)
  BY <1>1 DEF InTry, InPlan, Unkeyed, InFlight
<1>7. CASE plans[n][op] >= job[r].number /\ Goto(r, "catch") /\ UNCHANGED plans
  <2>1. "catch" \in Pcs
    BY DEF Pcs
  <2>2. /\ job' \in [Runs -> Job] /\ \A q \in Runs \ {r} : job'[q] = job[q]
        /\ job'[r].pc = "catch" /\ job'[r].in = job[r].in /\ job'[r].at = job[r].at
        /\ job'[r].plan = job[r].plan
        /\ job'[r].planless = job[r].planless /\ job'[r].optional = job[r].optional
    BY <1>1, <1>7, <2>1, GotoTurn
  <2>3. Here(r)' = Here(r)
    BY <1>2, <2>2, StillHere
  <2>4. InHand(r)' /\ Operating(r)'
    BY <1>1, <1>6, <1>7, <2>2, <2>3 DEF InHand, Operating, InPlan, Made
  <2>5. /\ job'[r].pc \in InTry \cup {"catch"} /\ job'[r].pc \notin InPlan
        /\ job'[r].pc # "add" /\ job'[r].pc \notin Fresh /\ outbox \subseteq outbox'
    BY <1>2, <2>2 DEF InPlan, Fresh
  <2> QED BY <1>2, <1>6, <1>7, <2>2, <2>4, <2>5, InTurnStep
<1>8. CASE /\ plans[n][op] < job[r].number
           /\ plans' = [plans EXCEPT ![n][op] = @ + 1,
                                     ![n].done = IF job[r].ok THEN @ \cup {op} ELSE @]
           /\ Goto(r, "publish")
  <2>1. "publish" \in Pcs
    BY DEF Pcs, InTry
  <2>2. /\ job' \in [Runs -> Job] /\ \A q \in Runs \ {r} : job'[q] = job[q]
        /\ job'[r].pc = "publish" /\ job'[r].in = job[r].in /\ job'[r].at = job[r].at
        /\ job'[r].plan = n /\ job'[r].op = op
        /\ job'[r].number = job[r].number /\ job'[r].ok = job[r].ok
        /\ job'[r].planless = job[r].planless /\ job'[r].optional = job[r].optional
    BY <1>1, <1>3, <1>8, <2>1, GotoTurn
  <2>3. PICK d \in SUBSET Ops : d = IF job[r].ok THEN plans[n].done \cup {op} ELSE plans[n].done
    BY <1>3, <1>4
  <2>4. PICK m \in Nat : m = plans[n][op] + 1
    BY <1>4
  <2>5. PICK y \in Plan : y = [[plans[n] EXCEPT ![op] = m] EXCEPT !.done = d]
    BY <1>3, <1>4 DEF Plan, Ops
  <2>6. plans' = [plans EXCEPT ![n] = y]
    <3>1. /\ [plans[n] EXCEPT ![op] = m].done = plans[n].done
      BY <1>3, <1>4 DEF Ops, Plan
    <3> QED BY <1>3, <1>8, <2>3, <2>4, <2>5, <3>1
  <2>7. /\ y.package = plans[n].package /\ y.policy = plans[n].policy
        /\ y.blocked = plans[n].blocked /\ y.done = d /\ y[op] = m
        /\ \A o \in Ops \ {op} : y[o] = plans[n][o]
    BY <1>3, <1>4, <2>5 DEF Plan, Ops
  <2>8. /\ plans' \in Seq(Plan) /\ Len(plans') = Len(plans) /\ plans'[n] = y
        /\ \A k \in 1..Len(plans) : k # n => plans'[k] = plans[k]
    BY <1>1, <1>3, <2>6
  <2>9. Grow
    <3>1. \A x \in Plan : \A o \in Ops : x[o] \in Nat
      BY DEF Plan, Ops
    <3>2. \A k \in 1..Len(plans) : plans[k] \in Plan /\ plans'[k] \in Plan
      BY <1>1, <2>8
    <3>3. \A o \in Ops : plans[n][o] \in Nat /\ y[o] \in Nat /\ plans[n][o] <= y[o]
      BY <1>4, <2>4, <2>7, <3>1
    <3>4. plans[n].done \subseteq y.done
      BY <2>3, <2>7
    <3>5. \A k \in 1..Len(plans) :
            /\ plans'[k].package = plans[k].package /\ plans'[k].policy = plans[k].policy
            /\ plans'[k].blocked = plans[k].blocked /\ plans[k].done \subseteq plans'[k].done
            /\ \A o \in Ops : /\ plans[k][o] \in Nat /\ plans'[k][o] \in Nat
                              /\ plans[k][o] <= plans'[k][o]
      <4> TAKE k \in 1..Len(plans)
      <4>1. CASE k = n
        BY <2>7, <2>8, <3>3, <3>4, <4>1
      <4>2. CASE k # n
        <5>1. plans'[k] = plans[k]
          BY <2>8, <4>2
        <5>2. \A o \in Ops : plans[k][o] \in Nat
          BY <3>1, <3>2
        <5> QED BY <5>1, <5>2
      <4> QED BY <4>1, <4>2
    <3> QED BY <1>1, <1>2, <2>8, <3>5 DEF Grow
  <2>10. Turn(r) /\ Stays(r)
    BY <1>2, <2>2 DEF Turn, Stays
  <2>11. Here(r)' = Here(r)
    BY <1>2, <2>2, StillHere
  <2>12. InHand(r)'
    <3>1. Made(n, Here(r).package, job[r].in.policy)
      BY <1>1, <1>3, <1>6 DEF InHand
    <3>2. \A p, a : Made(n, p, a) => Made(n, p, a)'
      BY <2>9, StillMade
    <3> QED BY <2>2, <2>11, <3>1, <3>2 DEF InHand, InPlan
  <2>13. Operating(r)'
    <3>1. /\ job[r].in.mode = "apply_verify"
          /\ op = "verify" => Succeeded("apply", n)
          /\ job[r].number \in 1..(plans[n][op] + 1)
      BY <1>1, <1>3, <1>6 DEF Operating
    <3>2. job[r].number \in 1..plans'[n][op]
      BY <1>4, <1>8, <2>4, <2>7, <2>8, <3>1
    <3>3. job[r].ok => op \in plans'[n].done
      BY <2>3, <2>7, <2>8
    <3>4. "apply" \in Ops
      BY DEF Ops
    <3>5. op = "verify" => Succeeded("apply", n)'
      BY <1>3, <2>9, <3>1, <3>4, StillSucceeded
    <3> QED BY <2>2, <3>1, <3>2, <3>3, <3>5 DEF Operating
  <2>14. RunOK(r)'
    <3>1. /\ job'[r].pc \in InTry \cup {"catch"} /\ job'[r].pc # "add"
      BY <2>2 DEF InTry
    <3>2. job'[r].plan \in DOMAIN rows[r]
      BY <1>1, <1>3, <1>6, <2>2 DEF Accounted
    <3> QED BY <1>1, <1>2, <1>3, <1>6, <2>2, <2>9, <2>10, <2>12, <2>13, <3>1, <3>2, WithinTurn
  <2>15. \A q \in Runs : RunOK(q)'
    BY <2>9, <2>10, <2>14, Others
  <2>16. ProfileTypeOK'
    BY <1>1, <1>2, <2>2, <2>8 DEF ProfileTypeOK, Normalized, UniquePackages
  <2>17. KeysHold'
    BY <1>1, <1>2, <2>9, KeysKept
  <2>18. BlockedPlansDoNothing'
    <3>1. job[r].ok => ~plans[n].blocked
      BY <1>1, <1>3, <1>6 DEF Operating
    <3>2. \A k \in 1..Len(plans) : plans'[k].blocked => plans'[k].done = {}
      BY <1>1, <2>3, <2>7, <2>8, <3>1 DEF BlockedPlansDoNothing
    <3>3. \A k \in 1..Len(plans) : /\ plans'[k].package = plans[k].package
                                   /\ plans'[k].blocked = plans[k].blocked
      BY <2>9 DEF Grow
    <3>4. \A p \in files \cup started :
            \E k \in 1..Len(plans) : plans'[k].package = p /\ ~plans'[k].blocked
      BY <1>1, <3>3 DEF BlockedPlansDoNothing
    <3> QED BY <1>2, <2>8, <3>2, <3>4 DEF BlockedPlansDoNothing
  <2>19. InFlight(r) /\ job'[r].pc \notin Fresh
    BY <1>6, <2>2 DEF Fresh
  <2>20. Alone'
    BY <1>1, <1>2, <2>10, <2>19, AloneKept
  <2>21. OnePlanPerKey'
    <3> SUFFICES ASSUME apart, NEW k \in 1..Len(plans)
                 PROVE  \/ k \in lost
                        \/ \E q \in Runs : k \in Unkeyed(q)'
                        \/ \E key \in planKeys : key.plan = k
      BY <1>2, <2>8 DEF OnePlanPerKey
    <3>1. ASSUME NEW q \in Runs, k \in Unkeyed(q) PROVE k \in Unkeyed(q)'
      <4>1. q # r
        BY <1>6, <3>1
      <4>2. job'[q] = job[q]
        BY <2>2, <4>1
      <4> QED BY <3>1, <4>2 DEF Unkeyed
    <3> QED BY <1>1, <3>1 DEF OnePlanPerKey
  <2> QED BY <2>15, <2>16, <2>17, <2>18, <2>20, <2>21 DEF ProfileInv
<1> QED BY <1>5, <1>7, <1>8

LEMMA PublishOpStep ==
  ASSUME ProfileInv, NEW r \in Runs, PublishOp(r)
  PROVE  ProfileInv'
<1>1. /\ job \in [Runs -> Job] /\ job[r] \in Job /\ InHand(r) /\ Operating(r)
      /\ job[r].pc = "publish"
  BY DEF ProfileInv, ProfileTypeOK, RunOK, PublishOp, At
<1>2. /\ UNCHANGED <<profile, enforcement, rows, runs, bounds, plans, planKeys, opKeys, files,
                     started, broken, lost, apart>>
      /\ outbox' = outbox \cup {<<job[r].op, job[r].plan, job[r].number, job[r].ok>>}
      /\ Goto(r, "store")
  BY DEF PublishOp, history, record
<1>3. PICK n, op : n = job[r].plan /\ op = job[r].op
  OBVIOUS
<1>4. "store" \in Pcs
  BY DEF Pcs, InTry
<1>5. /\ job' \in [Runs -> Job] /\ \A q \in Runs \ {r} : job'[q] = job[q]
      /\ job'[r].pc = "store" /\ job'[r].in = job[r].in /\ job'[r].at = job[r].at
      /\ job'[r].plan = job[r].plan /\ job'[r].op = job[r].op
      /\ job'[r].ok = job[r].ok
      /\ job'[r].planless = job[r].planless /\ job'[r].optional = job[r].optional
  BY <1>1, <1>2, <1>4, GotoTurn
<1>6. Here(r)' = Here(r)
  BY <1>2, <1>5, StillHere
<1>7. /\ job[r].pc \in InTry \cup {"catch"} /\ job'[r].pc \in InTry \cup {"catch"}
      /\ job[r].pc \in InPlan /\ job'[r].pc # "add" /\ job'[r].pc \notin Fresh
      /\ Unkeyed(r) = {} /\ outbox \subseteq outbox'
  BY <1>1, <1>2, <1>5 DEF InTry, InPlan, Fresh, Unkeyed
<1>8. InHand(r)'
  BY <1>1, <1>2, <1>5, <1>6, <1>7 DEF InHand, Made, InPlan
<1>9. Operating(r)'
  <2>1. /\ job[r].in.mode = "apply_verify" /\ (op = "verify" => Succeeded("apply", n))
        /\ job[r].number \in 1..plans[n][op] /\ (job[r].ok => op \in plans[n].done)
    BY <1>1, <1>3, <1>7 DEF Operating
  <2>2. op = "verify" => Succeeded("apply", n)'
    BY <1>2, <2>1 DEF Succeeded
  <2>3. job[r].ok => <<op, n, job[r].number, TRUE>> \in outbox'
    BY <1>1, <1>2, <1>3 DEF Job
  <2>4. job[r].ok => Succeeded(op, n)'
    BY <1>2, <2>1, <2>3 DEF Succeeded
  <2> QED BY <1>3, <1>5, <2>1, <2>2, <2>4 DEF Operating
<1> QED BY <1>2, <1>5, <1>7, <1>8, <1>9, InTurnStep

LEMMA StoreOpStep ==
  ASSUME ProfileInv, NEW r \in Runs, StoreOp(r)
  PROVE  ProfileInv'
<1> DEFINE new == [key |-> OpKey(r), ok |-> job[r].ok]
<1>1. /\ ProfileTypeOK /\ RunOK(r) /\ job \in [Runs -> Job] /\ job[r] \in Job
      /\ job[r].pc = "store" /\ KeysHold /\ BlockedPlansDoNothing /\ Alone /\ OnePlanPerKey
      /\ InHand(r) /\ Accounted(r) /\ RowsHold(r) /\ Operating(r) /\ plans \in Seq(Plan)
  BY DEF ProfileInv, ProfileTypeOK, StoreOp, At, RunOK
<1>2. /\ UNCHANGED <<profile, enforcement, rows, runs, bounds, plans, planKeys, files, started,
                     outbox, broken, lost, apart>>
      /\ opKeys' = {k \in opKeys : k.key # OpKey(r)} \cup {new} /\ Goto(r, "row")
  BY DEF StoreOp, history, record
<1>3. "row" \in Pcs
  BY DEF Pcs, InTry
<1>4. /\ job' \in [Runs -> Job] /\ \A q \in Runs \ {r} : job'[q] = job[q]
      /\ job'[r].pc = "row" /\ job'[r].in = job[r].in /\ job'[r].at = job[r].at
      /\ job'[r].plan = job[r].plan /\ job'[r].op = job[r].op
      /\ job'[r].ok = job[r].ok
      /\ job'[r].planless = job[r].planless /\ job'[r].optional = job[r].optional
  BY <1>1, <1>2, <1>3, GotoTurn
<1>5. /\ job[r].pc \in InTry \cup {"catch"} /\ job'[r].pc \in InTry \cup {"catch"}
      /\ job[r].pc \in InPlan /\ job'[r].pc # "add" /\ job'[r].pc \notin Fresh
      /\ Unkeyed(r) = {} /\ InFlight(r)
  BY <1>1, <1>2, <1>4 DEF InTry, InPlan, Fresh, Unkeyed, InFlight
<1>6. Turn(r) /\ Stays(r) /\ Grow
  BY <1>1, <1>2, <1>4, Ungrown DEF Turn, Stays
<1>7. Here(r)' = Here(r)
  BY <1>2, <1>4, StillHere
<1>8. \A o, m : Succeeded(o, m)' <=> Succeeded(o, m)
  BY <1>2 DEF Succeeded
<1>9. InHand(r)'
  BY <1>1, <1>2, <1>4, <1>5, <1>7 DEF InHand, Made, InPlan
<1>10. Operating(r)'
  BY <1>1, <1>2, <1>4, <1>5, <1>8 DEF Operating
<1>11. RunOK(r)'
  <2>1. job'[r].plan \in DOMAIN rows[r]
    BY <1>1, <1>4, <1>5 DEF Accounted
  <2> QED BY <1>1, <1>2, <1>4, <1>5, <1>6, <1>9, <1>10, <2>1, WithinTurn
<1>12. \A q \in Runs : RunOK(q)'
  BY <1>6, <1>11, Others
<1>13. /\ new \in OpRecord /\ new.key[1] = job[r].op /\ new.key[2] = job[r].plan
       /\ new.ok = job[r].ok
  <2>1. Base(r) \in Bases
    BY <1>1, BasesOfRuns
  <2> QED BY <1>1, <2>1 DEF OpRecord, OpKey, Job
<1> HIDE DEF new
<1>14. ProfileTypeOK'
  <2>1. opKeys' \subseteq OpRecord
    BY <1>1, <1>2, <1>13 DEF ProfileTypeOK
  <2> QED BY <1>1, <1>2, <1>4, <2>1 DEF ProfileTypeOK, Normalized, UniquePackages
<1>15. KeysHold'
  <2>1. \A k \in planKeys : Made(k.plan, k.package, k.policy)'
    BY <1>1, <1>2 DEF KeysHold, Made
  <2>2. job[r].plan \in 1..Len(plans) /\ (job[r].ok => Succeeded(job[r].op, job[r].plan))
    BY <1>1, <1>5 DEF InHand, Made, Operating
  <2>3. ASSUME NEW k \in opKeys'
        PROVE  k.key[2] \in 1..Len(plans') /\ (k.ok => Succeeded(k.key[1], k.key[2])')
    <3>1. CASE k = new
      BY <1>2, <1>8, <1>13, <2>2, <3>1
    <3>2. CASE k \in opKeys
      BY <1>1, <1>2, <1>8, <3>2 DEF KeysHold
    <3> QED BY <1>2, <3>1, <3>2
  <2> QED BY <1>2, <2>1, <2>3 DEF KeysHold
<1>16. BlockedPlansDoNothing'
  BY <1>1, <1>2 DEF BlockedPlansDoNothing
<1>17. Alone'
  BY <1>1, <1>2, <1>5, <1>6, AloneKept
<1>18. OnePlanPerKey'
  BY <1>1, <1>2, <1>5, <1>6, OnePlanKept
<1> QED BY <1>12, <1>14, <1>15, <1>16, <1>17, <1>18 DEF ProfileInv

LEMMA UpdateRowStep ==
  ASSUME ProfileInv, NEW r \in Runs, UpdateRow(r)
  PROVE  ProfileInv'
<1>1. /\ ProfileTypeOK /\ RunOK(r) /\ job \in [Runs -> Job] /\ job[r] \in Job
      /\ job[r].pc = "row" /\ runs \in [Runs -> Run] /\ Operating(r)
  BY DEF ProfileInv, ProfileTypeOK, UpdateRow, At, RunOK
<1>2. /\ UNCHANGED <<profile, enforcement, runs, bounds, plans, planKeys, opKeys, files,
                     started, outbox, broken, lost, apart>>
  BY DEF UpdateRow, lifecycle, history
<1>3. job[r].plan # 0 /\ job[r].op \in {"apply", "verify"} /\ job[r].ok \in BOOLEAN
  BY <1>1 DEF RunOK, InHand, InPlan, Made, Job, Ops
<1>4. /\ job[r].in.mode = "apply_verify"
      /\ job[r].op = "verify" => Succeeded("apply", job[r].plan)
      /\ job[r].ok => Succeeded(job[r].op, job[r].plan)
  BY <1>1 DEF Operating, InPlan
<1>5. Turn(r) /\ RunOK(r)' /\ rows' = [q \in Runs |-> rows'[q]] /\ job'[r].pc \notin Fresh
  <2>1. CASE ~job[r].ok
    <3>1. rows' = Row(r, job[r].plan, "failed") /\ NextPackage(r, job[r])
      BY <2>1 DEF UpdateRow
    <3>2. job'[r].pc = "next" /\ "failed" \in RowStatuses
      BY <1>1, <3>1, NextTurn DEF RowStatuses
    <3> QED BY <1>1, <1>2, <1>3, <3>1, <3>2, PassWithRow DEF Fresh
  <2>2. CASE job[r].ok /\ job[r].op = "apply"
    <3>1. /\ rows' = Row(r, job[r].plan, "applied")
          /\ job' = [job EXCEPT ![r].pc = "ask", ![r].op = "verify"]
      BY <2>2 DEF UpdateRow
    <3>2. job'[r].pc = "ask" /\ "applied" \in RowStatuses /\ "verify" \in Ops
      BY <1>1, <3>1 DEF RowStatuses, Ops, Job
    <3>3. Succeeded("apply", job[r].plan)
      BY <1>4, <2>2
    <3> QED BY <1>1, <1>2, <1>4, <3>1, <3>2, <3>3, OnWithRow DEF Fresh
  <2>3. CASE job[r].ok /\ job[r].op = "verify"
    <3>1. rows' = Row(r, job[r].plan, "verified") /\ NextPackage(r, job[r])
      BY <2>3 DEF UpdateRow
    <3>2. job'[r].pc = "next" /\ "verified" \in RowStatuses /\ Goal(r) = "verified"
      BY <1>1, <1>4, <3>1, NextTurn DEF RowStatuses, Goal
    <3>3. \A op \in Ops : Succeeded(op, job[r].plan)
      BY <1>4, <2>3 DEF Ops
    <3> QED BY <1>1, <1>2, <1>3, <3>1, <3>2, <3>3, PassWithRow DEF Fresh
  <2> QED BY <1>3, <2>1, <2>2, <2>3
<1>6. ProfileTypeOK'
  BY <1>1, <1>2, <1>5, QuietTypes DEF Turn
<1>7. InFlight(r) /\ Unkeyed(r) = {}
  BY <1>1 DEF InFlight, Unkeyed
<1> QED BY <1>2, <1>5, <1>6, <1>7, QuietTurn

LEMMA CatchStep ==
  ASSUME ProfileInv, NEW r \in Runs, Catch(r)
  PROVE  ProfileInv'
<1>1. /\ ProfileTypeOK /\ RunOK(r) /\ job \in [Runs -> Job] /\ job[r] \in Job
      /\ job[r].pc = "catch" /\ runs \in [Runs -> Run] /\ rows = [q \in Runs |-> rows[q]]
  BY DEF ProfileInv, ProfileTypeOK, Catch, At
<1>2. /\ UNCHANGED <<profile, enforcement, runs, bounds, plans, planKeys, opKeys, files,
                     started, outbox, lost, apart>>
  BY DEF Catch, lifecycle
<1>3. /\ job[r].at \in 1..Cardinality(profile) /\ Here(r).required
      /\ runs[r].status = "pending" /\ profile # {}
  BY <1>1 DEF RunOK, Placed
<1>4. Turn(r) /\ RunOK(r)' /\ rows' = [q \in Runs |-> rows'[q]] /\ job'[r].pc \notin Fresh
      /\ (InFlight(r)' => InFlight(r))
  <2>1. InFlight(r)
    BY <1>1 DEF InFlight
  <2>2. CASE /\ job[r].plan = 0 /\ UNCHANGED rows
             /\ NextPackage(r, [job[r] EXCEPT !.planless = @ + 1])
    <3>1. job[r].planless + 1 \in Nat
      BY <1>1 DEF Job
    <3>2. [job[r] EXCEPT !.planless = @ + 1] \in Job
      BY <1>1, <3>1 DEF Job
    <3>3. PICK j \in Job : j = [job[r] EXCEPT !.planless = @ + 1]
      BY <3>2
    <3>4. job'[r].pc = "next"
      BY <1>1, <2>2, <3>3, NextTurn
    <3>5. Turn(r) /\ RunOK(r)'
      BY <1>1, <1>2, <1>3, <2>2, <3>3, PassWithout
    <3> QED BY <1>1, <2>1, <2>2, <3>4, <3>5 DEF Fresh
  <2>3. CASE job[r].plan # 0 /\ rows' = Row(r, job[r].plan, "failed") /\ NextPackage(r, job[r])
    <3>1. job'[r].pc = "next" /\ "failed" \in RowStatuses
      BY <1>1, <2>3, NextTurn DEF RowStatuses
    <3> QED BY <1>1, <1>2, <2>1, <2>3, <3>1, PassWithRow DEF Fresh
  <2>4. CASE Goto(r, "done") /\ UNCHANGED rows
    <3>1. "done" \in Pcs
      BY DEF Pcs
    <3>2. /\ job' \in [Runs -> Job] /\ \A q \in Runs \ {r} : job'[q] = job[q]
          /\ job'[r].pc = "done" /\ job'[r].in = job[r].in /\ job'[r].at = job[r].at
          /\ job'[r].plan = job[r].plan
          /\ job'[r].planless = job[r].planless /\ job'[r].optional = job[r].optional
      BY <1>1, <2>4, <3>1, GotoTurn
    <3>3. Turn(r) /\ Stays(r) /\ Grow
      BY <1>1, <1>2, <2>4, <3>2, Ungrown DEF Turn, Stays, ProfileTypeOK
    <3>4. RowsHold(r)'
      BY <1>1, <3>3, StillRows DEF RunOK
    <3>5. RunOK(r)'
      BY <1>2, <1>3, <3>2, <3>4
         DEF RunOK, Placed, InHand, Operating, Counted, InTry, InPlan, Closed
    <3> QED BY <1>1, <2>1, <2>4, <3>2, <3>3, <3>5 DEF Fresh
  <2> QED BY <2>2, <2>3, <2>4 DEF Catch
<1>5. ProfileTypeOK'
  BY <1>1, <1>2, <1>4, QuietTypes DEF Turn
<1>6. Unkeyed(r) = {}
  BY <1>1 DEF Unkeyed
<1> QED BY <1>2, <1>4, <1>5, <1>6, QuietTurn

\* What a run counts are numbers, and they are the same while it stays.
LEMMA CountsType ==
  ASSUME ProfileTypeOK, NEW r \in Runs, RowsHold(r)
  PROVE  Counts(r) \in Tally
<1>1. \A status : WithStatus(r, status) \in Nat
  <2> TAKE status
  <2>1. {q \in DOMAIN rows[r] : rows[r][q] = status} \subseteq DOMAIN rows[r]
    OBVIOUS
  <2> QED BY <2>1, FewRows, FS_Subset, FS_CardinalityType DEF WithStatus
<1>2. job[r].planless \in Nat /\ job[r].optional \in Nat
  BY DEF ProfileTypeOK, Job
<1> QED BY <1>1, <1>2 DEF Counts, Tally

LEMMA StillCounts ==
  ASSUME NEW r \in Runs, Stays(r)
  PROVE  Counts(r)' = Counts(r)
BY DEF Stays, Counts, WithStatus

LEMMA ReadRunStep ==
  ASSUME ProfileInv, NEW r \in Runs, ReadRun(r)
  PROVE  ProfileInv'
<1>1. /\ ProfileTypeOK /\ RunOK(r) /\ job \in [Runs -> Job] /\ job[r] \in Job
      /\ job[r].pc = "read"
  BY DEF ProfileInv, ProfileTypeOK, ReadRun, At
<1>2. /\ UNCHANGED <<profile, enforcement, rows, runs, bounds, plans, planKeys, opKeys, files,
                     started, outbox, broken, lost, apart>>
      /\ job' = [job EXCEPT ![r].pc = "complete", ![r].counts = Counts(r)]
  BY DEF ReadRun, lifecycle, history, record
<1>3. PICK c \in Tally : c = Counts(r)
  BY <1>1, CountsType DEF RunOK
<1>4. PICK x \in Job : x = [job[r] EXCEPT !.pc = "complete", !.counts = c]
  BY <1>1 DEF Job, Pcs
<1>5. job' = [job EXCEPT ![r] = x]
  BY <1>1, <1>2, <1>3, <1>4
<1>6. /\ job' \in [Runs -> Job] /\ \A q \in Runs \ {r} : job'[q] = job[q]
      /\ job'[r].pc = "complete" /\ job'[r].in = job[r].in /\ job'[r].at = job[r].at
      /\ job'[r].plan = job[r].plan /\ job'[r].counts = c
      /\ job'[r].planless = job[r].planless /\ job'[r].optional = job[r].optional
  BY <1>1, <1>4, <1>5 DEF Job
<1>7. Turn(r) /\ Stays(r) /\ Grow
  BY <1>1, <1>2, <1>6, Ungrown DEF Turn, Stays, ProfileTypeOK
<1>8. /\ job[r].at = Cardinality(profile) + 1 /\ job[r].plan = 0 /\ profile # {}
      /\ runs[r].status = "pending" /\ runs[r].total = Cardinality(profile)
  BY <1>1 DEF RunOK, Placed, InHand
<1>9. Placed(r)'
  BY <1>2, <1>6, <1>8 DEF Placed, InTry
<1>10. Counted(r)'
  <2>1. Counts(r)' = Counts(r)
    BY <1>7, StillCounts
  <2> QED BY <1>2, <1>3, <1>6, <1>8, <2>1 DEF Counted, Closed
<1>11. InHand(r)' /\ Operating(r)'
  BY <1>6, <1>8 DEF InHand, Operating, InPlan
<1>12. RunOK(r)'
  BY <1>1, <1>6, <1>7, <1>9, <1>10, <1>11, StaysOK DEF InPlan
<1>13. ProfileTypeOK'
  <2>1. rows' = [q \in Runs |-> rows'[q]] /\ runs' \in [Runs -> Run]
    BY <1>1, <1>2 DEF ProfileTypeOK
  <2> QED BY <1>1, <1>2, <1>6, <2>1, QuietTypes
<1>14. InFlight(r) /\ Unkeyed(r) = {} /\ job'[r].pc \notin Fresh
  BY <1>1, <1>6 DEF InFlight, Unkeyed, Fresh
<1> QED BY <1>2, <1>7, <1>12, <1>13, <1>14, QuietTurn

LEMMA CompleteInstallRunStep ==
  ASSUME ProfileInv, NEW r \in Runs, CompleteInstallRun(r)
  PROVE  ProfileInv'
<1>1. /\ ProfileTypeOK /\ RunOK(r) /\ job \in [Runs -> Job] /\ job[r] \in Job
      /\ job[r].pc = "complete" /\ runs \in [Runs -> Run] /\ Counted(r)
  BY DEF ProfileInv, ProfileTypeOK, CompleteInstallRun, At, RunOK
<1>2. /\ UNCHANGED <<profile, enforcement, rows, bounds, plans, planKeys, opKeys, files,
                     started, outbox, broken, lost, apart>>
      /\ Goto(r, "done")
  BY DEF CompleteInstallRun, lifecycle, history
<1>3. PICK c \in Tally : c = Counts(r) /\ c = job[r].counts
  BY <1>1, CountsType DEF RunOK, Counted
<1>4. FinalStatus(c) \in Closed
  BY <1>3 DEF FinalStatus, Closed, Tally
<1>5. PICK x \in Run : x = [runs[r] EXCEPT !.status = FinalStatus(c),
               !.succeeded = c.succeeded, !.failed = c.failed, !.skipped = c.skipped]
  BY <1>1, <1>3, <1>4 DEF Run, Tally
<1>6. runs' = [runs EXCEPT ![r] = x]
  BY <1>1, <1>3, <1>5 DEF CompleteInstallRun
<1>7. /\ runs' \in [Runs -> Run] /\ \A q \in Runs \ {r} : runs'[q] = runs[q]
      /\ runs'[r].status = FinalStatus(c) /\ runs'[r].total = runs[r].total
      /\ runs'[r].succeeded = c.succeeded /\ runs'[r].failed = c.failed
      /\ runs'[r].skipped = c.skipped
  BY <1>1, <1>5, <1>6 DEF Run
<1>8. "done" \in Pcs
  BY DEF Pcs
<1>9. /\ job' \in [Runs -> Job] /\ \A q \in Runs \ {r} : job'[q] = job[q]
      /\ job'[r].pc = "done" /\ job'[r].in = job[r].in /\ job'[r].at = job[r].at
      /\ job'[r].plan = job[r].plan
      /\ job'[r].planless = job[r].planless /\ job'[r].optional = job[r].optional
  BY <1>1, <1>2, <1>8, GotoTurn
<1>10. Turn(r) /\ Stays(r) /\ Grow
  BY <1>1, <1>2, <1>7, <1>9, Ungrown DEF Turn, Stays, ProfileTypeOK
<1>11. /\ job[r].at = Cardinality(profile) + 1 /\ job[r].plan = 0 /\ profile # {}
       /\ runs[r].total = Cardinality(profile)
  BY <1>1 DEF RunOK, Placed, InHand
<1>12. Placed(r)'
  BY <1>2, <1>9, <1>11 DEF Placed, InTry
<1>13. Counted(r)'
  <2>1. Counts(r)' = c
    BY <1>3, <1>10, StillCounts
  <2>2. FinalStatus(Counts(r)') = FinalStatus(c)
    BY <2>1
  <2> QED BY <1>2, <1>7, <1>9, <1>11, <2>1, <2>2 DEF Counted, FinalStatus
<1>14. InHand(r)' /\ Operating(r)'
  BY <1>9 DEF InHand, Operating, InPlan
<1>15. RunOK(r)'
  BY <1>1, <1>9, <1>10, <1>12, <1>13, <1>14, StaysOK DEF InPlan
<1>16. ProfileTypeOK'
  <2>1. rows' = [q \in Runs |-> rows'[q]]
    BY <1>1, <1>2 DEF ProfileTypeOK
  <2> QED BY <1>1, <1>2, <1>7, <1>9, <2>1, QuietTypes
<1>17. InFlight(r) /\ Unkeyed(r) = {} /\ job'[r].pc \notin Fresh
  BY <1>1, <1>9 DEF InFlight, Unkeyed, Fresh
<1> QED BY <1>2, <1>10, <1>15, <1>16, <1>17, QuietTurn

-------------------------------------------------------------------------------
(* Faults, and what the rest of the system does *)

LEMMA ThrowStep ==
  ASSUME ProfileInv, NEW r \in Runs, Throw(r)
  PROVE  ProfileInv'
<1>1. /\ ProfileTypeOK /\ RunOK(r) /\ job \in [Runs -> Job] /\ job[r] \in Job
      /\ job[r].pc \in InTry
  BY DEF ProfileInv, ProfileTypeOK, Throw
<1>2. /\ UNCHANGED <<profile, enforcement, rows, runs, plans, planKeys, opKeys, files,
                     started, outbox, broken, apart>>
      /\ Goto(r, "catch") /\ lost' = lost \cup Unkeyed(r)
      /\ bounds.failures > 0 /\ bounds' = [bounds EXCEPT !.failures = @ - 1]
  BY DEF Throw, lifecycle, record
<1>3. "catch" \in Pcs
  BY DEF Pcs
<1>4. /\ job' \in [Runs -> Job] /\ \A q \in Runs \ {r} : job'[q] = job[q]
      /\ job'[r].pc = "catch" /\ job'[r].in = job[r].in /\ job'[r].at = job[r].at
      /\ job'[r].plan = job[r].plan
      /\ job'[r].planless = job[r].planless /\ job'[r].optional = job[r].optional
  BY <1>1, <1>2, <1>3, GotoTurn
<1>5. Turn(r) /\ Stays(r) /\ Grow
  BY <1>1, <1>2, <1>4, Ungrown DEF Turn, Stays, ProfileTypeOK
<1>6. Here(r)' = Here(r)
  BY <1>2, <1>4, StillHere
<1>7. InHand(r)' /\ Operating(r)'
  <2>1. InHand(r)
    BY <1>1 DEF RunOK
  <2>2. job[r].plan = 0 \/ Made(job[r].plan, Here(r).package, job[r].in.policy)
    BY <1>1, <2>1 DEF InHand, InTry, InPlan
  <2> QED BY <1>2, <1>4, <1>6, <2>2 DEF InHand, Operating, InPlan, Made
<1>8. RunOK(r)'
  <2>1. job'[r].pc \in InTry \cup {"catch"} /\ job'[r].pc \notin InPlan /\ job'[r].pc # "add"
    BY <1>4 DEF InPlan
  <2> QED BY <1>1, <1>2, <1>4, <1>5, <1>7, <2>1, WithinTurn
<1>9. ProfileTypeOK'
  <2>1. bounds' \in [bundles : {s.bundles : s \in Scenarios}, inputs : SUBSET Inputs,
                     runs : Nat, failures : Nat, cuts : Nat, changes : Nat]
    <3>1. PICK m \in Nat : m = bounds.failures - 1
      BY <1>1, <1>2 DEF ProfileTypeOK
    <3>2. bounds' = [bounds EXCEPT !.failures = m]
      BY <1>2, <3>1
    <3> QED BY <1>1, <3>2 DEF ProfileTypeOK
  <2> QED BY <1>1, <1>2, <1>4, <2>1 DEF ProfileTypeOK, Normalized, UniquePackages
<1>10. InFlight(r) /\ job'[r].pc \notin Fresh
  BY <1>1, <1>4 DEF InFlight, InTry, Fresh
<1> QED BY <1>2, <1>5, <1>8, <1>9, <1>10, QuietTurn

LEMMA CutStep ==
  ASSUME ProfileInv, NEW r \in Runs, Cut(r)
  PROVE  ProfileInv'
<1>1. /\ ProfileTypeOK /\ RunOK(r) /\ job \in [Runs -> Job] /\ job[r] \in Job
      /\ InFlight(r) /\ job[r].pc \notin {"idle", "done"}
  BY DEF ProfileInv, ProfileTypeOK, Cut, InFlight
<1>2. /\ UNCHANGED <<profile, enforcement, rows, runs, plans, planKeys, opKeys, files,
                     started, outbox, apart>>
      /\ Goto(r, "done") /\ lost' = lost \cup Unkeyed(r)
      /\ bounds.cuts > 0 /\ bounds' = [bounds EXCEPT !.cuts = @ - 1]
  BY DEF Cut, lifecycle, record
<1>3. "done" \in Pcs
  BY DEF Pcs
<1>4. /\ job' \in [Runs -> Job] /\ \A q \in Runs \ {r} : job'[q] = job[q]
      /\ job'[r].pc = "done" /\ job'[r].in = job[r].in /\ job'[r].at = job[r].at
      /\ job'[r].plan = job[r].plan
      /\ job'[r].planless = job[r].planless /\ job'[r].optional = job[r].optional
  BY <1>1, <1>2, <1>3, GotoTurn
<1>5. Turn(r) /\ Stays(r) /\ Grow
  BY <1>1, <1>2, <1>4, Ungrown DEF Turn, Stays, ProfileTypeOK
<1>6. profile # {} /\ runs[r].status \in {"none", "pending"}
  BY <1>1 DEF RunOK, Placed
<1>7. RowsHold(r)'
  BY <1>1, <1>5, StillRows DEF RunOK
<1>8. RunOK(r)'
  BY <1>2, <1>4, <1>6, <1>7
     DEF RunOK, Placed, InHand, Operating, Counted, InTry, InPlan, Closed
<1>9. ProfileTypeOK'
  <2>1. bounds' \in [bundles : {s.bundles : s \in Scenarios}, inputs : SUBSET Inputs,
                     runs : Nat, failures : Nat, cuts : Nat, changes : Nat]
    <3>1. PICK m \in Nat : m = bounds.cuts - 1
      BY <1>1, <1>2 DEF ProfileTypeOK
    <3>2. bounds' = [bounds EXCEPT !.cuts = m]
      BY <1>2, <3>1
    <3> QED BY <1>1, <3>2 DEF ProfileTypeOK
  <2> QED BY <1>1, <1>2, <1>4, <2>1 DEF ProfileTypeOK, Normalized, UniquePackages
<1>10. job'[r].pc \notin Fresh
  BY <1>4 DEF Fresh
<1> QED BY <1>1, <1>2, <1>5, <1>8, <1>9, <1>10, QuietTurn

LEMMA BeginStep ==
  ASSUME ProfileInv, NEW r \in Runs, Begin(r)
  PROVE  ProfileInv'
<1>1. /\ ProfileTypeOK /\ RunOK(r) /\ job \in [Runs -> Job] /\ job[r] \in Job
      /\ job[r].pc = "idle" /\ KeysHold /\ BlockedPlansDoNothing /\ OnePlanPerKey
  BY DEF ProfileInv, ProfileTypeOK, Begin, At
<1>2. /\ UNCHANGED <<profile, enforcement, rows, runs, plans, planKeys, opKeys, files,
                     started, outbox, broken, lost>>
      /\ bounds.runs > 0 /\ bounds' = [bounds EXCEPT !.runs = @ - 1]
      /\ apart' = (apart /\ \A q \in Runs : ~InFlight(q)) /\ profile # {}
  BY DEF Begin, lifecycle, record
<1>3. PICK in \in Inputs : job' = [job EXCEPT ![r].pc = "create", ![r].in = in]
  BY <1>1 DEF Begin, ProfileTypeOK
<1>4. PICK x \in Job : x = [job[r] EXCEPT !.pc = "create", !.in = in]
  BY <1>1 DEF Job, Pcs
<1>5. job' = [job EXCEPT ![r] = x]
  BY <1>1, <1>3, <1>4
<1>6. /\ job' \in [Runs -> Job] /\ \A q \in Runs \ {r} : job'[q] = job[q]
      /\ job'[r].pc = "create" /\ job'[r].at = job[r].at /\ job'[r].plan = job[r].plan
      /\ job'[r].planless = job[r].planless /\ job'[r].optional = job[r].optional
  BY <1>1, <1>4, <1>5 DEF Job
<1>7. Turn(r) /\ Grow
  BY <1>1, <1>2, <1>6, Ungrown DEF Turn, ProfileTypeOK
<1>8. /\ rows[r] = <<>> /\ runs[r].status = "none" /\ job[r].at = 1 /\ job[r].plan = 0
      /\ job[r].planless = 0 /\ job[r].optional = 0
  BY <1>1 DEF RunOK, Placed
<1>9. Placed(r)'
  BY <1>2, <1>6, <1>8 DEF Placed, InTry
<1>10. InHand(r)' /\ Operating(r)' /\ Counted(r)'
  BY <1>2, <1>6, <1>8 DEF InHand, Operating, Counted, InPlan, Closed
<1>11. DOMAIN rows'[r] = {} /\ Cardinality(DOMAIN rows'[r]) = 0
  BY <1>2, <1>8, FS_EmptySet
<1>12. RowsHold(r)'
  BY <1>11 DEF RowsHold
<1>13. Accounted(r)'
  BY <1>6, <1>8, <1>11 DEF Accounted, InPlan
<1>14. RunOK(r)'
  BY <1>9, <1>10, <1>12, <1>13 DEF RunOK
<1>15. \A q \in Runs : RunOK(q)'
  BY <1>7, <1>14, Others
<1>16. ProfileTypeOK'
  <2>1. bounds' \in [bundles : {s.bundles : s \in Scenarios}, inputs : SUBSET Inputs,
                     runs : Nat, failures : Nat, cuts : Nat, changes : Nat]
    <3>1. PICK m \in Nat : m = bounds.runs - 1
      BY <1>1, <1>2 DEF ProfileTypeOK
    <3>2. bounds' = [bounds EXCEPT !.runs = m]
      BY <1>2, <3>1
    <3> QED BY <1>1, <3>2 DEF ProfileTypeOK
  <2>2. apart' \in BOOLEAN
    BY <1>1, <1>2 DEF ProfileTypeOK
  <2> QED BY <1>1, <1>2, <1>6, <2>1, <2>2 DEF ProfileTypeOK, Normalized, UniquePackages
<1>17. KeysHold'
  BY <1>1, <1>2, <1>7, KeysKept
<1>18. BlockedPlansDoNothing'
  BY <1>1, <1>2 DEF BlockedPlansDoNothing
<1>19. Alone'
  <2> SUFFICES ASSUME \A q \in Runs : ~InFlight(q)
               PROVE  /\ \A p, q \in Runs : InFlight(p)' /\ InFlight(q)' => p = q
                      /\ \A q \in Runs : job'[q].pc \notin Fresh
    BY <1>2 DEF Alone, Fresh
  <2>1. ASSUME NEW q \in Runs, q # r PROVE ~InFlight(q)' /\ job'[q].pc \notin Fresh
    BY <1>6, <2>1 DEF InFlight, Fresh
  <2>2. job'[r].pc \notin Fresh
    BY <1>6 DEF Fresh
  <2> QED BY <2>1, <2>2
<1>20. OnePlanPerKey'
  <2>1. Unkeyed(r) = {} /\ (apart' => apart)
    BY <1>1, <1>2 DEF Unkeyed
  <2> QED BY <1>1, <1>2, <1>7, <2>1, OnePlanKept
<1> QED BY <1>15, <1>16, <1>17, <1>18, <1>19, <1>20 DEF ProfileInv

LEMMA EnforceStep ==
  ASSUME ProfileInv, NEW p \in Packages, Enforce(p)
  PROVE  ProfileInv'
<1>1. /\ ProfileTypeOK /\ (\A r \in Runs : RunOK(r)) /\ KeysHold /\ BlockedPlansDoNothing
      /\ Alone /\ OnePlanPerKey
  BY DEF ProfileInv
<1>2. /\ UNCHANGED <<profile, rows, runs, plans, planKeys, opKeys, files, started, outbox, job,
                     broken, lost, apart>>
      /\ bounds.changes > 0 /\ bounds' = [bounds EXCEPT !.changes = @ - 1]
  BY DEF Enforce, lifecycle, record, history
<1>3. ProfileTypeOK'
  <2>1. bounds' \in [bundles : {s.bundles : s \in Scenarios}, inputs : SUBSET Inputs,
                     runs : Nat, failures : Nat, cuts : Nat, changes : Nat]
    <3>1. PICK m \in Nat : m = bounds.changes - 1
      BY <1>1, <1>2 DEF ProfileTypeOK
    <3>2. bounds' = [bounds EXCEPT !.changes = m]
      BY <1>2, <3>1
    <3> QED BY <1>1, <3>2 DEF ProfileTypeOK
  <2> QED BY <1>1, <1>2, <2>1 DEF ProfileTypeOK, Normalized, UniquePackages
<1>4. Grow
  BY <1>1, <1>2, Ungrown DEF ProfileTypeOK
<1>5. ASSUME NEW r \in Runs PROVE RunOK(r)'
  <2>1. Stays(r) /\ Here(r)' = Here(r) /\ Counts(r)' = Counts(r)
    BY <1>2, StillHere, StillCounts DEF Stays
  <2>2. RunOK(r) /\ job[r].at \in Nat
    BY <1>1 DEF ProfileTypeOK, Job
  <2>3. RowsHold(r)'
    BY <1>4, <2>1, <2>2, StillRows DEF RunOK
  <2>4. Placed(r)'
    BY <1>2, <2>1, <2>2 DEF RunOK, Placed
  <2>5. InHand(r)'
    BY <1>2, <2>1, <2>2 DEF RunOK, InHand, Made
  <2>6. Operating(r)'
    BY <1>2, <2>2 DEF RunOK, Operating, Succeeded
  <2>7. Counted(r)'
    BY <1>2, <2>1, <2>2 DEF RunOK, Counted
  <2>8. Accounted(r) => Accounted(r)'
    <3>1. Accounted(r) => /\ job[r].pc \in InPlan => job[r].plan \in DOMAIN rows[r]
                          /\ job[r].pc = "add" => job[r].plan \notin DOMAIN rows[r]
      BY DEF Accounted
    <3> QED BY <1>2, <1>4, <2>1, <2>2, <3>1, StillAccounted DEF RunOK
  <2> QED BY <1>2, <2>2, <2>3, <2>4, <2>5, <2>6, <2>7, <2>8 DEF RunOK
<1>6. KeysHold'
  BY <1>1, <1>2, <1>4, KeysKept
<1>7. BlockedPlansDoNothing' /\ OnePlanPerKey'
  BY <1>1, <1>2 DEF BlockedPlansDoNothing, OnePlanPerKey, Unkeyed
<1>8. Alone'
  <2>1. \A q \in Runs : Here(q)' = Here(q)
    BY <1>2, StillHere
  <2> QED BY <1>1, <1>2, <2>1 DEF Alone, InFlight, KeyOf, Base
<1> QED BY <1>3, <1>5, <1>6, <1>7, <1>8 DEF ProfileInv

LEMMA CreateProfileStep ==
  ASSUME ProfileInv, CreateProfile
  PROVE  ProfileInv'
<1>1. /\ ProfileTypeOK /\ (\A r \in Runs : RunOK(r)) /\ KeysHold /\ BlockedPlansDoNothing
      /\ Alone /\ OnePlanPerKey
  BY DEF ProfileInv
<1>2. /\ UNCHANGED <<rows, runs, plans, planKeys, opKeys, files, started, outbox, job,
                     broken, lost, apart, bounds>>
      /\ profile = {}
  BY DEF CreateProfile, lifecycle, record, history
<1>3. PICK bundle \in bounds.bundles :
        Normalized(bundle) /\ UniquePackages(bundle) /\ profile' = bundle
  BY DEF CreateProfile
<1>4. bundle \in SUBSET Listings /\ IsFiniteSet(bundle)
  <2>1. PICK s \in Scenarios : bounds.bundles = s.bundles
    BY <1>1 DEF ProfileTypeOK
  <2>2. s.bundles \in SUBSET SUBSET Listings /\ IsFiniteSet(bundle)
    BY <1>3, <2>1, ProfileAssumption
  <2> QED BY <1>3, <2>1, <2>2
<1>5. ProfileTypeOK'
  BY <1>1, <1>2, <1>3, <1>4 DEF ProfileTypeOK, Normalized, UniquePackages
<1>6. ASSUME NEW r \in Runs PROVE RunOK(r)' /\ job[r].pc = "idle"
  <2>1. /\ job[r].pc = "idle" /\ rows[r] = <<>> /\ runs[r].status = "none" /\ job[r].at = 1
        /\ job[r].plan = 0 /\ job[r].planless = 0 /\ job[r].optional = 0
    BY <1>1, <1>2 DEF RunOK, Placed
  <2>2. DOMAIN rows'[r] = {} /\ Cardinality(DOMAIN rows'[r]) = 0
    BY <1>2, <2>1, FS_EmptySet
  <2>3. Placed(r)' /\ InHand(r)' /\ Operating(r)' /\ Counted(r)' /\ RowsHold(r)'
    BY <1>2, <2>1, <2>2
       DEF Placed, InHand, Operating, Counted, RowsHold, InTry, InPlan, Closed
  <2>4. Accounted(r)'
    BY <1>2, <2>1, <2>2 DEF Accounted, InPlan
  <2> QED BY <2>1, <2>3, <2>4 DEF RunOK
<1>7. KeysHold' /\ BlockedPlansDoNothing' /\ OnePlanPerKey'
  BY <1>1, <1>2
     DEF KeysHold, Made, Succeeded, BlockedPlansDoNothing, OnePlanPerKey, Unkeyed
<1>8. Alone'
  BY <1>1, <1>2, <1>6 DEF Alone, InFlight
<1> QED BY <1>5, <1>6, <1>7, <1>8 DEF ProfileInv

LEMMA StartHolds ==
  ASSUME Init
  PROVE  ProfileInv
<1>1. \A r \in Runs : /\ job[r] = NoJob /\ rows[r] = <<>> /\ runs[r] = NoRun
  BY DEF Init
<1>2. /\ NoJob \in Job /\ NoRun \in Run
      /\ NoJob.pc = "idle" /\ NoJob.at = 1 /\ NoJob.plan = 0 /\ NoJob.planless = 0
      /\ NoJob.optional = 0
  <2>1. (CHOOSE in \in Inputs : TRUE) \in Inputs
    BY ProfileAssumption
  <2>2. NoRun \in Run
    BY DEF NoRun, Run
  <2> HIDE DEF NoRun
  <2>3. PICK in \in Inputs : in = CHOOSE i \in Inputs : TRUE
    BY <2>1
  <2>4. NoJob = [pc |-> "idle", in |-> in, at |-> 1, plan |-> 0, made |-> 0, op |-> "apply",
                 number |-> 0, ok |-> FALSE, blocked |-> FALSE, planless |-> 0,
                 optional |-> 0, counts |-> [succeeded |-> 0, failed |-> 0, skipped |-> 0]]
    BY <2>3 DEF NoJob
  <2>5. [succeeded |-> 0, failed |-> 0, skipped |-> 0] \in Tally
    BY DEF Tally
  <2>6. NoJob \in Job
    BY <2>4, <2>5 DEF Job, Pcs, Ops
  <2>7. /\ NoJob.pc = "idle" /\ NoJob.at = 1 /\ NoJob.plan = 0 /\ NoJob.planless = 0
        /\ NoJob.optional = 0
    BY <2>4
  <2> QED BY <2>2, <2>6, <2>7
<1>3. ProfileTypeOK
  <2>1. plans \in Seq(Plan)
    BY DEF Init
  <2>2. runs \in [Runs -> Run] /\ job \in [Runs -> Job] /\ rows = [r \in Runs |-> rows[r]]
    BY <1>2 DEF Init
  <2>3. bounds \in [bundles : {s.bundles : s \in Scenarios}, inputs : SUBSET Inputs,
                    runs : Nat, failures : Nat, cuts : Nat, changes : Nat]
    <3>1. PICK s \in Scenarios : bounds = s
      BY DEF Init
    <3>2. s \in [bundles : SUBSET SUBSET Listings, inputs : SUBSET Inputs, runs : Nat,
                 failures : Nat, cuts : Nat, changes : Nat]
      BY ProfileAssumption
    <3> QED BY <3>1, <3>2
  <2>4. profile = {} /\ IsFiniteSet(profile)
    BY FS_EmptySet DEF Init
  <2> QED BY <2>1, <2>2, <2>3, <2>4 DEF Init, ProfileTypeOK
<1>4. ASSUME NEW r \in Runs PROVE RunOK(r) /\ job[r].pc = "idle"
  <2>1. /\ job[r].pc = "idle" /\ rows[r] = <<>> /\ runs[r].status = "none" /\ job[r].at = 1
        /\ job[r].plan = 0 /\ job[r].planless = 0 /\ job[r].optional = 0
    BY <1>1, <1>2 DEF NoRun
  <2>2. DOMAIN rows[r] = {} /\ Cardinality(DOMAIN rows[r]) = 0
    BY <2>1, FS_EmptySet
  <2>3. Placed(r) /\ InHand(r) /\ Operating(r) /\ Counted(r) /\ RowsHold(r)
    BY <2>1, <2>2
       DEF Placed, InHand, Operating, Counted, RowsHold, InTry, InPlan, Closed
  <2>4. Accounted(r)
    BY <2>1, <2>2 DEF Accounted, InPlan
  <2> QED BY <2>1, <2>3, <2>4 DEF RunOK
<1>5. KeysHold /\ BlockedPlansDoNothing /\ OnePlanPerKey
  BY DEF Init, KeysHold, BlockedPlansDoNothing, OnePlanPerKey
<1>6. Alone
  BY <1>4 DEF Alone, InFlight
<1> QED BY <1>3, <1>4, <1>5, <1>6 DEF ProfileInv

LEMMA ProfileStep ==
  ASSUME ProfileInv, [Next]_vars
  PROVE  ProfileInv'
<1>1. CASE CreateProfile
  BY <1>1, CreateProfileStep
<1>2. ASSUME NEW p \in Packages, Enforce(p) PROVE ProfileInv'
  BY <1>2, EnforceStep
<1>3. ASSUME NEW r \in Runs, Begin(r) PROVE ProfileInv'
  BY <1>3, BeginStep
<1>4. ASSUME NEW r \in Runs, Advance(r) PROVE ProfileInv'
  <2>1. CASE CreateInstallRun(r) \/ TakePackage(r)
    BY <2>1, CreateInstallRunStep, TakePackageStep
  <2>2. CASE \/ LookupPlan(r) \/ PreflightPlan(r) \/ InsertPlan(r) \/ PublishPlan(r)
             \/ PutPlanKey(r)
    BY <2>2, LookupPlanStep, PreflightPlanStep, InsertPlanStep, PublishPlanStep,
       PutPlanKeyStep
  <2>3. CASE AddRow(r) \/ UpdateRow(r) \/ Catch(r)
    BY <2>3, AddRowStep, UpdateRowStep, CatchStep
  <2>4. CASE LookupOp(r) \/ DoOp(r) \/ CommitOp(r) \/ PublishOp(r) \/ StoreOp(r)
    BY <2>4, LookupOpStep, DoOpStep, CommitOpStep, PublishOpStep, StoreOpStep
  <2>5. CASE ReadRun(r) \/ CompleteInstallRun(r)
    BY <2>5, ReadRunStep, CompleteInstallRunStep
  <2> QED BY <1>4, <2>1, <2>2, <2>3, <2>4, <2>5 DEF Advance
<1>5. ASSUME NEW r \in Runs, Throw(r) PROVE ProfileInv'
  BY <1>5, ThrowStep
<1>6. ASSUME NEW r \in Runs, Cut(r) PROVE ProfileInv'
  BY <1>6, CutStep
<1>7. CASE UNCHANGED vars
  <2>1. UNCHANGED <<profile, enforcement, plans, planKeys, opKeys, files, started, runs, rows,
                    outbox, job, broken, lost, apart, bounds>>
    BY <1>7 DEF vars
  <2>2. ProfileTypeOK'
    BY <2>1 DEF ProfileInv, ProfileTypeOK, Normalized, UniquePackages
  <2>3. KeysHold' /\ BlockedPlansDoNothing' /\ OnePlanPerKey'
    BY <2>1 DEF ProfileInv, KeysHold, Made, Succeeded, BlockedPlansDoNothing, OnePlanPerKey,
                Unkeyed
  <2>4. CASE Runs = {}
    BY <2>1, <2>2, <2>3, <2>4 DEF ProfileInv, Alone
  <2>5. CASE Runs # {}
    <3>1. PICK r \in Runs : TRUE
      BY <2>5
    <3>2. Turn(r) /\ Stays(r) /\ Grow
      BY <2>1, Ungrown DEF Turn, Stays, ProfileInv, ProfileTypeOK
    <3>3. \A q \in Runs : Here(q)' = Here(q)
      BY <2>1, StillHere
    <3>4. Alone'
      BY <2>1, <3>3 DEF ProfileInv, Alone, InFlight, KeyOf, Base
    <3>5. ASSUME NEW q \in Runs PROVE RunOK(q)'
      <4>1. /\ Stays(q) /\ RunOK(q) /\ job'[q] = job[q] /\ runs'[q] = runs[q]
            /\ rows'[q] = rows[q] /\ Here(q)' = Here(q) /\ job[q].at \in Nat
        BY <2>1, <3>3 DEF Stays, ProfileInv, ProfileTypeOK, Job
      <4>2. Placed(q)'
        BY <2>1, <4>1 DEF RunOK, Placed
      <4>3. InHand(q)' /\ Operating(q)'
        BY <2>1, <4>1 DEF RunOK, InHand, Made, Operating, Succeeded
      <4>4. RowsHold(q)'
        BY <3>2, <4>1, StillRows DEF RunOK
      <4>5. Counted(q)'
        <5>1. Counts(q)' = Counts(q)
          BY <4>1, StillCounts
        <5> QED BY <2>1, <4>1, <5>1 DEF RunOK, Counted
      <4>6. Accounted(q) => Accounted(q)'
        <5>1. Accounted(q) => /\ job[q].pc \in InPlan => job[q].plan \in DOMAIN rows[q]
                              /\ job[q].pc = "add" => job[q].plan \notin DOMAIN rows[q]
          BY DEF Accounted
        <5> QED BY <3>2, <4>1, <5>1, StillAccounted DEF RunOK
      <4> QED BY <4>1, <4>2, <4>3, <4>4, <4>5, <4>6 DEF RunOK
    <3> QED BY <2>2, <2>3, <3>4, <3>5 DEF ProfileInv
  <2> QED BY <2>4, <2>5
<1> QED BY <1>1, <1>2, <1>3, <1>4, <1>5, <1>6, <1>7 DEF Next

-------------------------------------------------------------------------------
(* The theorems *)

(***************************************************************************)
(* The inductive invariant: where every run is, what it has in hand and    *)
(* what its rows and counts account for, and what the idempotency records  *)
(* stand for.                                                              *)
(***************************************************************************)
THEOREM ProfileInvHolds == Spec => []ProfileInv
<1>1. Init => ProfileInv
  BY StartHolds
<1>2. ProfileInv /\ [Next]_vars => ProfileInv'
  BY ProfileStep
<1> QED BY <1>1, <1>2, PTL DEF Spec

(***************************************************************************)
(* A row says verified only of a plan that was applied and verified, both  *)
(* recorded and announced, and stands for a required package of the        *)
(* profile under the run's own policy - across replays, conflicts, faults  *)
(* and runs that share a correlation id.                                   *)
(***************************************************************************)
THEOREM RowsStayTrue == Spec => []RowsAreTrue
<1>1. ProfileInv => RowsAreTrue
  <2> SUFFICES ASSUME ProfileInv, NEW r \in Runs, NEW q \in DOMAIN rows[r]
               PROVE  /\ rows[r][q] = "verified" =>
                           \A op \in Ops : /\ op \in plans[q].done
                                           /\ \E n \in 1..plans[q][op] :
                                                <<op, q, n, TRUE>> \in outbox
                      /\ plans[q].policy = job[r].in.policy
                      /\ \E e \in profile : e.required /\ e.package = plans[q].package
    BY DEF RowsAreTrue
  <2>1. RowsHold(r)
    BY DEF ProfileInv, RunOK
  <2> QED BY <2>1 DEF RowsHold, Succeeded
<1> QED BY <1>1, ProfileInvHolds, PTL

(***************************************************************************)
(* A plan the policy blocked is never carried out, by no run and no        *)
(* replay.                                                                 *)
(***************************************************************************)
THEOREM BlockedPlansStayUndone == Spec => []BlockedPlansDoNothing
<1>1. ProfileInv => BlockedPlansDoNothing
  BY DEF ProfileInv
<1> QED BY <1>1, ProfileInvHolds, PTL

(***************************************************************************)
(* While no two runs are in flight together, every plan is the one its     *)
(* idempotency record names, but for those a fault cut off from it.        *)
(***************************************************************************)
THEOREM PlansStayOnePerKey == Spec => []OnePlanPerKey
<1>1. ProfileInv => OnePlanPerKey
  BY DEF ProfileInv
<1> QED BY <1>1, ProfileInvHolds, PTL

(***************************************************************************)
(* A closed run counts every package of its profile once: its rows are one *)
(* for each required package that got a plan, all in the mode's state or   *)
(* failed, and its own counts stand for the others.  So nothing failed     *)
(* exactly when every required package has its row in the mode's state.    *)
(***************************************************************************)
THEOREM CountsStayTrue == Spec => []CountsAreTrue
<1>1. ASSUME ProfileInv, NEW r \in Runs, runs[r].status \in Closed
      PROVE  /\ runs[r].succeeded + runs[r].failed + runs[r].skipped = runs[r].total
             /\ runs[r].status = "succeeded" <=>
                  \A e \in profile : e.required =>
                    \E q \in DOMAIN rows[r] :
                      plans[q].package = e.package /\ rows[r][q] = Goal(r)
  <2> DEFINE D == DOMAIN rows[r]
             S == {q \in D : rows[r][q] = Goal(r)}
             F == {q \in D : rows[r][q] = "failed"}
             n == Cardinality(profile)
  <2>1. /\ ProfileTypeOK /\ RowsHold(r) /\ Accounted(r) /\ Counted(r) /\ job[r] \in Job
    BY <1>1 DEF ProfileInv, RunOK, ProfileTypeOK
  <2>2. /\ job[r].at = n + 1 /\ job[r].plan = 0 /\ runs[r].total = n
        /\ runs[r].succeeded = Counts(r).succeeded /\ runs[r].failed = Counts(r).failed
        /\ runs[r].skipped = Counts(r).skipped
        /\ runs[r].status = FinalStatus(Counts(r))
    BY <1>1, <2>1 DEF Counted
  <2>3. 0 \notin D
    BY <2>1 DEF RowsHold
  <2>4. \A q \in D : rows[r][q] \in {Goal(r), "failed"}
    BY <2>1, <2>2, <2>3 DEF Accounted
  <2>5. Goal(r) # "failed" /\ Goal(r) # "skipped"
    BY DEF Goal
  <2>6. n \in Nat /\ job[r].planless \in Nat /\ job[r].optional \in Nat
    BY <2>1, Entries DEF Job
  <2>7. IsFiniteSet(D) /\ IsFiniteSet(S) /\ IsFiniteSet(F)
        /\ Cardinality(D) \in Nat /\ Cardinality(S) \in Nat /\ Cardinality(F) \in Nat
    <3>1. IsFiniteSet(D)
      BY <2>1, FewRows
    <3>2. S \subseteq D /\ F \subseteq D
      OBVIOUS
    <3> HIDE DEF D, S, F
    <3> QED BY <3>1, <3>2, FS_Subset, FS_CardinalityType
  <2>8. Cardinality(D) = Cardinality(S) + Cardinality(F)
    <3>1. D = S \cup F /\ S \cap F = {}
      BY <2>4, <2>5
    <3> HIDE DEF D, S, F
    <3>2. Cardinality(S \cup F) = Cardinality(S) + Cardinality(F) - Cardinality(S \cap F)
      BY <2>7, FS_Union
    <3>3. Cardinality(S \cap F) = 0
      BY <3>1, FS_EmptySet
    <3> QED BY <2>7, <3>1, <3>2, <3>3
  <2>9. /\ Counts(r).succeeded = Cardinality(S)
        /\ Counts(r).failed = Cardinality(F) + job[r].planless
        /\ Counts(r).skipped = job[r].optional
    <3>1. {q \in D : rows[r][q] = "skipped"} = {}
      BY <2>4, <2>5
    <3>2. WithStatus(r, "skipped") = 0
      BY <3>1, FS_EmptySet DEF WithStatus
    <3>3. WithStatus(r, "failed") = Cardinality(F)
      BY DEF WithStatus
    <3>4. WithStatus(r, Goal(r)) = Cardinality(S)
      BY DEF WithStatus
    <3>5. /\ Counts(r).succeeded = WithStatus(r, Goal(r))
          /\ Counts(r).failed = WithStatus(r, "failed") + job[r].planless
          /\ Counts(r).skipped = WithStatus(r, "skipped") + job[r].optional
      BY DEF Counts, Goal
    <3> HIDE DEF D, S, F
    <3> QED BY <2>6, <3>2, <3>3, <3>4, <3>5
  <2>10. Cardinality(D) + job[r].planless + job[r].optional = n
    <3>1. Cardinality(D) + job[r].planless + job[r].optional = job[r].at - 1
      BY <2>1, <2>2, <2>3 DEF Accounted
    <3> HIDE DEF D
    <3> QED BY <2>2, <2>6, <3>1
  <2>11. runs[r].succeeded + runs[r].failed + runs[r].skipped = runs[r].total
    <3> HIDE DEF D, S, F, n
    <3> QED BY <2>2, <2>6, <2>7, <2>8, <2>9, <2>10
  <2>12. runs[r].status = "succeeded" <=> F = {} /\ job[r].planless = 0
    <3>1. runs[r].status = "succeeded" <=> Counts(r).failed = 0
      BY <2>2 DEF FinalStatus
    <3>2. Cardinality(F) = 0 <=> F = {}
      BY <2>7, FS_EmptySet
    <3> HIDE DEF F
    <3> QED BY <2>6, <2>7, <2>9, <3>1, <3>2
  <2>13. job[r].planless = 0 <=> \A e \in profile : e.required =>
                                   \E q \in D : plans[q].package = e.package
    <3>1. job[r].planless = 0 <=> \A k \in 1..n : Entry(k).required => HasRow(r, k)
      <4>1. job[r].at - 1 = n
        BY <2>2, <2>6
      <4>2. job[r].planless = 0 <=>
              \A k \in 1..(job[r].at - 1) : Entry(k).required => HasRow(r, k)
        BY <2>1 DEF Accounted
      <4> HIDE DEF n
      <4> QED BY <4>1, <4>2
    <3>2. /\ \A k \in 1..n : Entry(k) \in profile
          /\ \A e \in profile : \E k \in 1..n : Entry(k) = e
      BY <2>1, Entries
    <3>3. \A k : HasRow(r, k) <=> \E q \in D : plans[q].package = Entry(k).package
      BY DEF HasRow
    <3> HIDE DEF D, n
    <3> QED BY <3>1, <3>2, <3>3
  <2>14. \A q \in D : \E e \in profile : e.required /\ e.package = plans[q].package
    BY <2>1 DEF RowsHold
  <2>15. \A q, s \in D : plans[q].package = plans[s].package => q = s
    BY <2>1 DEF Accounted
  <2>16. F = {} /\ job[r].planless = 0 <=>
           \A e \in profile : e.required =>
             \E q \in D : plans[q].package = e.package /\ rows[r][q] = Goal(r)
    <3>1. ASSUME F = {}, job[r].planless = 0, NEW e \in profile, e.required
          PROVE  \E q \in D : plans[q].package = e.package /\ rows[r][q] = Goal(r)
      BY <2>4, <2>13, <3>1
    <3>2. ASSUME \A e \in profile : e.required =>
                   \E q \in D : plans[q].package = e.package /\ rows[r][q] = Goal(r)
          PROVE  F = {} /\ job[r].planless = 0
      <4>1. job[r].planless = 0
        BY <2>13, <3>2
      <4>2. ASSUME NEW q \in D PROVE rows[r][q] # "failed"
        <5>1. PICK e \in profile : e.required /\ e.package = plans[q].package
          BY <2>14
        <5>2. PICK s \in D : plans[s].package = e.package /\ rows[r][s] = Goal(r)
          BY <3>2, <5>1
        <5> HIDE DEF D
        <5>3. q = s
          BY <2>15, <5>1, <5>2
        <5> QED BY <2>5, <5>2, <5>3
      <4> QED BY <4>1, <4>2
    <3> QED BY <3>1, <3>2
  <2> QED BY <2>11, <2>12, <2>16
<1>2. ProfileInv => CountsAreTrue
  BY <1>1 DEF CountsAreTrue, Goal
<1> QED BY <1>2, ProfileInvHolds, PTL

-------------------------------------------------------------------------------
(* Runs come to an end *)

\* A run that has ended is closed, or has been broken off.
Ended(r) == job[r].pc = "done" => runs[r].status \in Closed \/ r \in broken

\* It is enough that the run that moves does not end.
LEMMA GoingOn ==
  ASSUME \A q \in Runs : Ended(q), NEW r \in Runs, job'[r].pc # "done",
         \A q \in Runs \ {r} : job'[q] = job[q] /\ runs'[q] = runs[q],
         broken \subseteq broken'
  PROVE  \A q \in Runs : Ended(q)'
BY DEF Ended

LEMMA GotoGoesOn ==
  ASSUME job \in [Runs -> Job], NEW r \in Runs, NEW pc \in Pcs \ {"done"}, Goto(r, pc)
  PROVE  job'[r].pc # "done" /\ \A q \in Runs \ {r} : job'[q] = job[q]
BY GotoTurn

LEMMA NextGoesOn ==
  ASSUME job \in [Runs -> Job], NEW r \in Runs, NEW j \in Job, NextPackage(r, j)
  PROVE  job'[r].pc # "done" /\ \A q \in Runs \ {r} : job'[q] = job[q]
BY NextTurn

LEMMA CountOneMore ==
  ASSUME NEW j \in Job
  PROVE  [j EXCEPT !.optional = @ + 1] \in Job /\ [j EXCEPT !.planless = @ + 1] \in Job
<1>1. j.optional + 1 \in Nat /\ j.planless + 1 \in Nat
  BY DEF Job
<1> QED BY <1>1 DEF Job

\* The steps that neither close a run nor break it off.
LEMMA AdvanceGoesOn ==
  ASSUME ProfileInv, NEW r \in Runs, Advance(r), ~Catch(r), ~CompleteInstallRun(r)
  PROVE  job'[r].pc # "done" /\ \A q \in Runs \ {r} : job'[q] = job[q]
<1>0. job \in [Runs -> Job] /\ job[r] \in Job
  BY DEF ProfileInv, ProfileTypeOK
<1> DEFINE Later == InTry \cup {"next", "catch", "read", "complete"}
<1>a. ASSUME NEW pc \in Later, Goto(r, pc)
      PROVE  job'[r].pc # "done" /\ \A q \in Runs \ {r} : job'[q] = job[q]
  <2>1. pc \in Pcs \ {"done"}
    BY DEF Pcs, InTry
  <2> QED BY <1>0, <1>a, <2>1, GotoGoesOn
<1>b. {"next", "store", "row", "key", "read", "lookup", "preflight", "publish", "catch"} \subseteq Later
  BY DEF InTry
<1> HIDE DEF Later
<1>1. CASE CreateInstallRun(r) \/ PublishPlan(r) \/ PublishOp(r) \/ StoreOp(r)
  <2>1. Goto(r, "next") \/ Goto(r, "key") \/ Goto(r, "store") \/ Goto(r, "row")
    BY <1>1 DEF CreateInstallRun, PublishPlan, PublishOp, StoreOp
  <2> QED BY <1>a, <1>b, <2>1
<1>2. CASE TakePackage(r)
  <2>1. CASE Goto(r, "read") \/ Goto(r, "lookup")
    BY <1>a, <1>b, <2>1
  <2>2. CASE \/ NextPackage(r, [job[r] EXCEPT !.optional = @ + 1])
             \/ NextPackage(r, [job[r] EXCEPT !.planless = @ + 1])
    BY <1>0, <2>2, CountOneMore, NextGoesOn
  <2> QED BY <1>2, <2>1, <2>2 DEF TakePackage
<1>3. CASE LookupPlan(r)
  <2>1. CASE Goto(r, "preflight")
    BY <1>a, <1>b, <2>1
  <2>2. ASSUME NEW k \in planKeys,
               job' = [job EXCEPT ![r].plan = IF SameRequest(k, r) THEN k.plan ELSE 0,
                                  ![r].pc = IF SameRequest(k, r) THEN "add" ELSE "catch"]
        PROVE  job'[r].pc # "done" /\ \A q \in Runs \ {r} : job'[q] = job[q]
    <3>1. PICK pc \in {"add", "catch"} : pc = IF SameRequest(k, r) THEN "add" ELSE "catch"
      OBVIOUS
    <3>2. PICK x : x = [job[r] EXCEPT !.plan = IF SameRequest(k, r) THEN k.plan ELSE 0,
                                      !.pc = pc]
      OBVIOUS
    <3>3. x.pc = pc /\ job' = [job EXCEPT ![r] = x]
      BY <1>0, <2>2, <3>1, <3>2 DEF Job
    <3> QED BY <1>0, <3>1, <3>3
  <2> QED BY <1>3, <2>1, <2>2 DEF LookupPlan
<1>4. CASE PreflightPlan(r)
  <2>1. PICK blocked : job' = [job EXCEPT ![r].pc = "insert", ![r].blocked = blocked]
    BY <1>4 DEF PreflightPlan
  <2> QED BY <1>0, <2>1 DEF Job
<1>5. CASE InsertPlan(r)
  <2>1. PICK made : job' = [job EXCEPT ![r].pc = "announce", ![r].made = made]
    BY <1>5 DEF InsertPlan
  <2> QED BY <1>0, <2>1 DEF Job
<1>6. CASE PutPlanKey(r)
  <2>1. CASE Goto(r, "catch")
    BY <1>a, <1>b, <2>1
  <2>2. CASE job' = [job EXCEPT ![r].pc = "add", ![r].plan = job[r].made]
    BY <1>0, <2>2 DEF Job
  <2> QED BY <1>6, <2>1, <2>2 DEF PutPlanKey
<1>7. CASE AddRow(r) \/ UpdateRow(r)
  <2>1. CASE NextPackage(r, job[r])
    BY <1>0, <2>1, NextGoesOn
  <2>2. ASSUME NEW op, job' = [job EXCEPT ![r].pc = "ask", ![r].op = op]
        PROVE  job'[r].pc # "done" /\ \A q \in Runs \ {r} : job'[q] = job[q]
    BY <1>0, <2>2 DEF Job
  <2> QED BY <1>7, <2>1, <2>2 DEF AddRow, UpdateRow
<1>8. CASE LookupOp(r)
  <2>1. \/ \E ok : job' = [job EXCEPT ![r].pc = "row", ![r].ok = ok]
        \/ \E n : job' = [job EXCEPT ![r].pc = "work", ![r].number = n]
    BY <1>8 DEF LookupOp
  <2> QED BY <1>0, <2>1 DEF Job
<1>9. CASE DoOp(r)
  <2>1. PICK ok : job' = [job EXCEPT ![r].pc = "commit", ![r].ok = ok]
    BY <1>9 DEF DoOp
  <2> QED BY <1>0, <2>1 DEF Job
<1>10. CASE CommitOp(r)
  <2>1. Goto(r, "catch") \/ Goto(r, "publish")
    BY <1>10 DEF CommitOp
  <2> QED BY <1>a, <1>b, <2>1
<1>11. CASE ReadRun(r)
  <2>1. PICK counts : job' = [job EXCEPT ![r].pc = "complete", ![r].counts = counts]
    BY <1>11 DEF ReadRun
  <2> QED BY <1>0, <2>1 DEF Job
<1> QED BY <1>1, <1>2, <1>3, <1>4, <1>5, <1>6, <1>7, <1>8, <1>9, <1>10, <1>11 DEF Advance

LEMMA FinalIsClosed == \A c : FinalStatus(c) \in Closed
BY DEF FinalStatus, Closed

LEMMA EndedStep ==
  ASSUME ProfileInv, \A q \in Runs : Ended(q), [Next]_vars
  PROVE  \A q \in Runs : Ended(q)'
<1>0. job \in [Runs -> Job] /\ runs \in [Runs -> Run]
  BY DEF ProfileInv, ProfileTypeOK
<1>1. CASE CreateProfile \/ \E p \in Packages : Enforce(p)
  BY <1>1 DEF CreateProfile, Enforce, record, history, Ended
<1>2. ASSUME NEW r \in Runs, Begin(r) PROVE \A q \in Runs : Ended(q)'
  <2>1. PICK in : job' = [job EXCEPT ![r].pc = "create", ![r].in = in]
    BY <1>2 DEF Begin
  <2>2. job'[r].pc # "done" /\ \A q \in Runs \ {r} : job'[q] = job[q]
    BY <1>0, <2>1 DEF Job
  <2> QED BY <1>2, <2>2, GoingOn DEF Begin, record
<1>3. ASSUME NEW r \in Runs, Advance(r) PROVE \A q \in Runs : Ended(q)'
  <2>1. CASE CompleteInstallRun(r)
    <3>1. PICK c : c = job[r].counts
      OBVIOUS
    <3>2. /\ runs' = [runs EXCEPT ![r] = [@ EXCEPT !.status = FinalStatus(c),
                        !.succeeded = c.succeeded, !.failed = c.failed, !.skipped = c.skipped]]
          /\ Goto(r, "done") /\ broken' = broken
      BY <2>1, <3>1 DEF CompleteInstallRun, history
    <3>3. runs'[r].status = FinalStatus(c) /\ \A q \in Runs \ {r} : runs'[q] = runs[q]
      BY <1>0, <3>2 DEF Run
    <3>4. \A q \in Runs \ {r} : job'[q] = job[q]
      BY <1>0, <3>2, GotoTurn DEF Pcs
    <3> QED BY <3>2, <3>3, <3>4, FinalIsClosed DEF Ended
  <2>2. CASE Catch(r)
    <3>1. runs' = runs
      BY <2>2 DEF Catch
    <3>2. CASE /\ broken' = broken
               /\ \/ NextPackage(r, [job[r] EXCEPT !.planless = @ + 1])
                  \/ NextPackage(r, job[r])
      <4>1. job'[r].pc # "done" /\ \A q \in Runs \ {r} : job'[q] = job[q]
        BY <1>0, <3>2, CountOneMore, NextGoesOn
      <4> QED BY <3>1, <3>2, <4>1, GoingOn
    <3>3. CASE broken' = broken \cup {r} /\ Goto(r, "done")
      <4>1. \A q \in Runs \ {r} : job'[q] = job[q]
        BY <1>0, <3>3, GotoTurn DEF Pcs
      <4> QED BY <3>1, <3>3, <4>1 DEF Ended
    <3> QED BY <2>2, <3>2, <3>3 DEF Catch
  <2>3. CASE ~Catch(r) /\ ~CompleteInstallRun(r)
    <3>1. broken' = broken /\ \A q \in Runs \ {r} : runs'[q] = runs[q]
      BY <1>0, <1>3, <2>3 DEF Advance, CreateInstallRun, TakePackage, LookupPlan, PreflightPlan,
         InsertPlan, PublishPlan, PutPlanKey, AddRow, LookupOp, DoOp, CommitOp, PublishOp,
         StoreOp, UpdateRow, ReadRun, record, history
    <3> QED BY <1>3, <2>3, <3>1, AdvanceGoesOn, GoingOn
  <2> QED BY <2>1, <2>2, <2>3
<1>4. ASSUME NEW r \in Runs, Throw(r) PROVE \A q \in Runs : Ended(q)'
  <2>1. job'[r].pc # "done" /\ \A q \in Runs \ {r} : job'[q] = job[q]
    BY <1>0, <1>4, GotoGoesOn DEF Throw, Pcs
  <2> QED BY <1>4, <2>1, GoingOn DEF Throw, record
<1>5. ASSUME NEW r \in Runs, Cut(r) PROVE \A q \in Runs : Ended(q)'
  <2>1. \A q \in Runs \ {r} : job'[q] = job[q]
    BY <1>0, <1>5, GotoTurn DEF Cut, Pcs
  <2> QED BY <1>5, <2>1 DEF Cut, record, Ended
<1>6. CASE UNCHANGED vars
  BY <1>6 DEF vars, Ended
<1> QED BY <1>1, <1>2, <1>3, <1>4, <1>5, <1>6 DEF Next

\* Somebody is at work on a pending run, unless it was cut off, or its plan row could not
\* be added, and then it is pending for ever.
PendingIsAtWork ==
  \A r \in Runs : runs[r].status = "pending" => InFlight(r) \/ r \in broken

(***************************************************************************)
(* Whatever throws inside its try blocks, installProfile does not end with *)
(* the row of the run left pending: nothing but a killed process or a      *)
(* statement outside them does (the safety half of EveryRunCloses).        *)
(***************************************************************************)
THEOREM PendingRunsAreAtWork == Spec => []PendingIsAtWork
<1>1. Init => \A r \in Runs : Ended(r)
  BY DEF Init, Ended, NoJob
<1>2. ProfileInv /\ (\A r \in Runs : Ended(r)) /\ [Next]_vars => (\A r \in Runs : Ended(r))'
  BY EndedStep
<1>3. ProfileInv /\ (\A r \in Runs : Ended(r)) => PendingIsAtWork
  <2> SUFFICES ASSUME ProfileInv, NEW r \in Runs, Ended(r), runs[r].status = "pending"
               PROVE  InFlight(r) \/ r \in broken
    BY DEF PendingIsAtWork
  <2>1. job[r].pc # "idle"
    BY DEF ProfileInv, RunOK, Placed
  <2> QED BY <2>1 DEF Ended, InFlight, Closed
<1> QED BY <1>1, <1>2, <1>3, ProfileInvHolds, PTL DEF Spec
=============================================================================
