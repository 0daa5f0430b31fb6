------------------------------ MODULE TrustGates ------------------------------
(***************************************************************************)
(* The trust gates of the security governance: an evaluation reads the     *)
(* appeal metrics of a window, the rollout row and the recent decisions,   *)
(* decides whether enforcement may widen by one mode or must fall back to  *)
(* raw-only, and writes the decision and the rollout row in two            *)
(* statements.  Evaluations are started by a script, from a schedule or by *)
(* hand: two may overlap, one may be repeated for the same window or with  *)
(* the same run id, and one may die between two statements.                *)
(***************************************************************************)
EXTENDS Integers, FiniteSets

CONSTANTS
  Evaluators,      \* processes that run the evaluation script
  NumWindows,      \* windows are numbered by their end: 1..NumWindows
  RunIds,          \* the run ids evaluations are given (a UUID, or --run-id)
  Metrics,         \* what a snapshot may say: [fp, ap, backlog], TRUE is a pass
  Required,        \* requiredConsecutiveWindows
  RecentLimit,     \* the limit given to listRecent
  MaxEvaluations   \* bound: evaluations started

ASSUME GatesAssumption ==
  /\ NumWindows \in Nat \ {0}
  /\ Required \in Nat \ {0}
  /\ RecentLimit \in Nat
  /\ Required <= RecentLimit + 1
  /\ MaxEvaluations \in Nat
  /\ Metrics \subseteq [fp : BOOLEAN, ap : BOOLEAN, backlog : BOOLEAN]

VARIABLES
  rollout,     \* the singleton row: [mode, freeze]
  decisions,   \* the promotion decisions, at most one for a run id
  eval,        \* what each evaluation holds in its local variables
  started,     \* evaluations started: their created_at
  passes       \* history: evaluations appended with both rates passing

gateVars == <<rollout, decisions, eval, started, passes>>

Windows == 1..NumWindows
Modes == {"raw-only", "flagged-first", "full-catalog"}
Rollout == [mode : Modes, freeze : BOOLEAN]
Decision == [run : RunIds, window : Windows, at : Nat, fp : BOOLEAN, ap : BOOLEAN]

Asleep == [pc |-> "asleep"]
Evaluation ==
  [pc : {"state", "recent", "append", "update"}, run : RunIds, window : Windows,
   at : Nat, fp : BOOLEAN, ap : BOOLEAN, backlog : BOOLEAN,
   prev : Rollout, fpStreak : Nat, apStreak : Nat]

\* ORDER BY window_to DESC, created_at DESC
Newer(d, e) == d.window > e.window \/ (d.window = e.window /\ d.at > e.at)

\* listRecent: the newest RecentLimit decisions.
Recent == {d \in decisions : Cardinality({e \in decisions : Newer(e, d)}) < RecentLimit}

\* countConsecutivePasses over the list, newest first, for each of the two rates.
FpStreak == Cardinality({d \in Recent : \A e \in Recent : (e = d \/ Newer(e, d)) => e.fp})
ApStreak == Cardinality({d \in Recent : \A e \in Recent : (e = d \/ Newer(e, d)) => e.ap})

\* Mutant: the streaks are forgotten and one passing window is enough.
ReadyOnOneWindow(v) == v.fp /\ v.ap /\ v.backlog

PromotionReady(v) ==
  /\ v.fp /\ v.fpStreak + 1 >= Required
  /\ v.ap /\ v.apStreak + 1 >= Required
  /\ v.backlog

NextMode(mode) == IF mode = "raw-only" THEN "flagged-first" ELSE "full-catalog"

Decide(v) ==
  IF PromotionReady(v) THEN [mode |-> NextMode(v.prev.mode), freeze |-> FALSE]
                       ELSE [mode |-> "raw-only", freeze |-> TRUE]

-------------------------------------------------------------------------------
GatesInit ==
  /\ rollout = [mode |-> "raw-only", freeze |-> TRUE]
  /\ decisions = {}
  /\ eval = [v \in Evaluators |-> Asleep]
  /\ started = 0
  /\ passes = 0

\* The evaluation begins: it fixes created_at and reads the metrics of its window.
Snapshot(v) ==
  /\ eval[v].pc = "asleep"
  /\ started < MaxEvaluations
  /\ started' = started + 1
  /\ \E run \in RunIds, w \in Windows, m \in Metrics :
       eval' = [eval EXCEPT ![v] =
         [pc |-> "state", run |-> run, window |-> w, at |-> started',
          fp |-> m.fp, ap |-> m.ap, backlog |-> m.backlog,
          prev |-> rollout, fpStreak |-> 0, apStreak |-> 0]]
  /\ UNCHANGED <<rollout, decisions, passes>>

ReadState(v) ==
  /\ eval[v].pc = "state"
  /\ eval' = [eval EXCEPT ![v].pc = "recent", ![v].prev = rollout]
  /\ UNCHANGED <<rollout, decisions, started, passes>>

ListRecent(v) ==
  /\ eval[v].pc = "recent"
  /\ eval' = [eval EXCEPT ![v].pc = "append",
                          ![v].fpStreak = FpStreak, ![v].apStreak = ApStreak]
  /\ UNCHANGED <<rollout, decisions, started, passes>>

\* The decision is upserted by its run id: a repeated run replaces its row.
Record(v) ==
  [run |-> v.run, window |-> v.window, at |-> v.at, fp |-> v.fp, ap |-> v.ap]

AppendDecision(v) ==
  /\ eval[v].pc = "append"
  /\ decisions' = {d \in decisions : d.run # eval[v].run} \cup {Record(eval[v])}
  /\ passes' = IF eval[v].fp /\ eval[v].ap THEN passes + 1 ELSE passes
  /\ eval' = [eval EXCEPT ![v].pc = "update"]
  /\ UNCHANGED <<rollout, started>>

UpdateState(v) ==
  /\ eval[v].pc = "update"
  /\ rollout' = Decide(eval[v])
  /\ eval' = [eval EXCEPT ![v] = Asleep]
  /\ UNCHANGED <<decisions, started, passes>>

\* The script dies, or one of its statements fails.
Die(v) ==
  /\ eval[v].pc # "asleep"
  /\ eval' = [eval EXCEPT ![v] = Asleep]
  /\ UNCHANGED <<rollout, decisions, started, passes>>

GatesNext ==
  \E v \in Evaluators :
    \/ Snapshot(v) \/ ReadState(v) \/ ListRecent(v)
    \/ AppendDecision(v) \/ UpdateState(v) \/ Die(v)

GatesSpec == GatesInit /\ [][GatesNext]_gateVars

-------------------------------------------------------------------------------
GatesTypeOK ==
  /\ rollout \in Rollout
  /\ decisions \subseteq Decision
  /\ eval \in [Evaluators -> {Asleep} \cup Evaluation]
  /\ started \in Nat
  /\ passes \in Nat

\* Enforcement is never wider than the gates have earned, whatever evaluations
\* overlap, repeat or die: flagged-first stands on Required evaluations whose
\* rates passed, full-catalog on one more, and only raw-only is frozen.
EnforcementIsEarned ==
  /\ rollout.freeze <=> rollout.mode = "raw-only"
  /\ rollout.mode # "raw-only" => passes >= Required
  /\ rollout.mode = "full-catalog" => passes >= Required + 1
===============================================================================
