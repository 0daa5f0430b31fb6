------------------------ MODULE SecurityReportsProofs ------------------------
(***************************************************************************)
(* What TrustGates and SecurityReports promise, proved for any number of   *)
(* evaluators, windows, run ids and evaluations and any length of the      *)
(* required streak the list of recent decisions can hold; for any number   *)
(* of requests, copies, claims and promotions, and any clock skew, nonce   *)
(* lifetime and window.                                                    *)
(***************************************************************************)
EXTENDS SecurityReports, FiniteSetTheorems, TLAPS

-------------------------------------------------------------------------------
(* The trust gates *)

\* Decisions on record whose two rates passed.
Passing == {d \in decisions : d.fp /\ d.ap}

\* The decisions are a finite list without ties, and evaluations in flight tie with none.
Ordered ==
  /\ IsFiniteSet(decisions)
  /\ \A d \in decisions : d.at <= started
  /\ \A d, e \in decisions : d.at = e.at => d = e
  /\ \A v \in Evaluators : eval[v].pc # "asleep" =>
       /\ eval[v].at <= started
       /\ eval[v].pc # "update" => \A d \in decisions : d.at # eval[v].at
       /\ \A u \in Evaluators \ {v} : eval[u].pc # "asleep" => eval[u].at # eval[v].at

(***************************************************************************)
(* Two streaks of length n in the list of recent decisions are n decisions *)
(* that pass both rates: each is the newest part of the list, so one of    *)
(* them contains the other.                                                *)
(***************************************************************************)
LEMMA StreaksPass ==
  ASSUME decisions \subseteq Decision, IsFiniteSet(decisions),
         \A d, e \in decisions : d.at = e.at => d = e,
         NEW n \in Nat, FpStreak >= n, ApStreak >= n
  PROVE  Cardinality(Passing) >= n
<1> DEFINE F == {d \in Recent : \A e \in Recent : (e = d \/ Newer(e, d)) => e.fp}
           A == {d \in Recent : \A e \in Recent : (e = d \/ Newer(e, d)) => e.ap}
<1>1. Recent \subseteq decisions
  BY DEF Recent
<1>2. \A d, e \in Recent : d = e \/ Newer(d, e) \/ Newer(e, d)
  BY <1>1 DEF Newer, Decision, Windows
<1>3. \A d, e, f \in Recent : Newer(d, e) /\ Newer(e, f) => Newer(d, f)
  BY <1>1 DEF Newer, Decision, Windows
<1>4. F \subseteq A \/ A \subseteq F
  <2> SUFFICES ASSUME NEW f \in F, f \notin A, NEW a \in A, a \notin F PROVE FALSE
    OBVIOUS
  <2>1. PICK e \in Recent : (e = f \/ Newer(e, f)) /\ ~e.ap
    OBVIOUS
  <2>2. PICK g \in Recent : (g = a \/ Newer(g, a)) /\ ~g.fp
    OBVIOUS
  <2>3. f \in Recent /\ a \in Recent
    OBVIOUS
  <2>4. e # a /\ ~Newer(e, a)
    BY <2>1
  <2>5. g # f /\ ~Newer(g, f)
    BY <2>2
  <2>6. Newer(a, e)
    BY <1>2, <2>1, <2>3, <2>4
  <2>7. Newer(a, f)
    BY <1>3, <2>1, <2>3, <2>6
  <2> QED BY <1>3, <2>2, <2>3, <2>5, <2>7
<1>5. IsFiniteSet(Passing) /\ Passing \subseteq decisions
  BY FS_Subset DEF Passing
<1>6. Cardinality(F) >= n /\ Cardinality(A) >= n
  BY DEF FpStreak, ApStreak
<1>7. CASE F \subseteq A
  <2>1. F \subseteq Passing
    BY <1>1, <1>7 DEF Passing
  <2>2. Cardinality(F) <= Cardinality(Passing) /\ Cardinality(F) \in Nat /\ Cardinality(Passing) \in Nat
    BY <1>5, <2>1, FS_Subset, FS_CardinalityType
  <2> QED BY <1>6, <2>2
<1>8. CASE A \subseteq F
  <2>1. A \subseteq Passing
    BY <1>1, <1>8 DEF Passing
  <2>2. Cardinality(A) <= Cardinality(Passing) /\ Cardinality(A) \in Nat /\ Cardinality(Passing) \in Nat
    BY <1>5, <2>1, FS_Subset, FS_CardinalityType
  <2> QED BY <1>6, <2>2
<1> QED BY <1>4, <1>7, <1>8

(***************************************************************************)
(* The inductive invariant: what an evaluation in flight has read is worth *)
(* as much as what it saw when it read it, since passes only grows.        *)
(***************************************************************************)
Earning(e) ==
  /\ e.pc \in {"recent", "append"} /\ e.prev.mode # "raw-only" => passes >= Required
  /\ e.pc = "append" /\ e.fpStreak + 1 >= Required /\ e.apStreak + 1 >= Required
       => passes + 1 >= Required
  /\ e.pc = "update" /\ PromotionReady(e) =>
       /\ passes >= Required
       /\ e.prev.mode # "raw-only" => passes >= Required + 1

GatesInv ==
  /\ GatesTypeOK
  /\ Ordered
  /\ Cardinality(Passing) <= passes
  /\ EnforcementIsEarned
  /\ \A v \in Evaluators : Earning(eval[v])

\* What is worth enough stays so as it grows.
LEMMA Grown ==
  ASSUME NEW m \in Nat, NEW n \in Nat, n >= m, NEW k \in Nat
  PROVE  /\ m >= k => n >= k
         /\ m + 1 >= k => n + 1 >= k
         /\ m >= k + 1 => n >= k + 1
OBVIOUS

LEMMA GatesInvInit == GatesInit => GatesInv
<1> SUFFICES ASSUME GatesInit PROVE GatesInv
  OBVIOUS
<1> USE DEF GatesInit
<1>1. GatesTypeOK
  BY DEF GatesTypeOK, Rollout, Modes
<1>2. Ordered
  BY FS_EmptySet DEF Ordered, Asleep
<1>3. Passing = {} /\ Cardinality(Passing) = 0
  BY FS_EmptySet DEF Passing
<1>4. EnforcementIsEarned
  BY DEF EnforcementIsEarned
<1>5. \A v \in Evaluators : Earning(eval[v])
  BY DEF Earning, Asleep
<1> QED BY <1>1, <1>2, <1>3, <1>4, <1>5 DEF GatesInv

\* A step that writes neither table needs no thought about them.
LEMMA QuietStep ==
  ASSUME GatesInv, UNCHANGED <<rollout, decisions, passes>>,
         GatesTypeOK', Ordered', NEW v \in Evaluators,
         \A u \in Evaluators \ {v} : eval'[u] = eval[u],
         Earning(eval[v])'
  PROVE  GatesInv'
<1>1. \A u \in Evaluators \ {v} : Earning(eval[u])'
  BY DEF GatesInv, Earning, PromotionReady
<1>2. Cardinality(Passing)' <= passes'
  BY DEF GatesInv, Passing
<1>3. EnforcementIsEarned'
  BY DEF GatesInv, EnforcementIsEarned
<1> QED BY <1>1, <1>2, <1>3 DEF GatesInv

LEMMA GatesStep == GatesInv /\ [GatesNext]_gateVars => GatesInv'
<1> SUFFICES ASSUME GatesInv, [GatesNext]_gateVars PROVE GatesInv'
  OBVIOUS
<1> USE GatesAssumption
<1>0. /\ GatesTypeOK /\ Ordered /\ rollout \in Rollout /\ decisions \subseteq Decision
      /\ eval \in [Evaluators -> {Asleep} \cup Evaluation] /\ started \in Nat /\ passes \in Nat
      /\ \A v \in Evaluators : eval[v].pc # "asleep" => eval[v] \in Evaluation
      /\ IsFiniteSet(decisions) /\ Required \in Nat
  BY DEF GatesInv, GatesTypeOK, Ordered, Asleep
<1>1. CASE UNCHANGED gateVars
  <2>1. GatesTypeOK'
    BY <1>1 DEF gateVars, GatesInv, GatesTypeOK
  <2>2. Ordered'
    BY <1>1 DEF gateVars, GatesInv, Ordered
  <2>3. Cardinality(Passing)' <= passes' /\ EnforcementIsEarned'
    BY <1>1 DEF gateVars, GatesInv, Passing, EnforcementIsEarned
  <2>4. \A v \in Evaluators : Earning(eval[v])'
    BY <1>1 DEF gateVars, GatesInv, Earning, PromotionReady
  <2> QED BY <2>1, <2>2, <2>3, <2>4 DEF GatesInv
<1>2. ASSUME NEW v \in Evaluators, Snapshot(v) PROVE GatesInv'
  <2>1. PICK id \in RunIds, w \in Windows, m \in Metrics :
          eval' = [eval EXCEPT ![v] =
            [pc |-> "state", run |-> id, window |-> w, at |-> started',
             fp |-> m.fp, ap |-> m.ap, backlog |-> m.backlog,
             prev |-> rollout, fpStreak |-> 0, apStreak |-> 0]]
    BY <1>2 DEF Snapshot
  <2>2. started' = started + 1 /\ UNCHANGED <<rollout, decisions, passes>>
    BY <1>2 DEF Snapshot
  <2>3. /\ eval'[v].pc = "state" /\ eval'[v].at = started + 1 /\ eval'[v] \in Evaluation
        /\ \A u \in Evaluators \ {v} : eval'[u] = eval[u]
        /\ eval' \in [Evaluators -> {Asleep} \cup Evaluation]
    BY <1>0, <2>1, <2>2 DEF Evaluation
  <2>4. GatesTypeOK'
    BY <1>0, <2>2, <2>3 DEF GatesTypeOK
  <2>5. \A u \in Evaluators \ {v} : eval[u].pc # "asleep" => eval[u].at \in Nat
    BY <1>0 DEF Evaluation
  <2>6. \A d \in decisions : d.at \in Nat
    BY <1>0 DEF Decision
  <2>7. Ordered'
    BY <1>0, <2>2, <2>3, <2>5, <2>6 DEF Ordered
  <2>8. Earning(eval[v])'
    BY <2>3 DEF Earning
  <2> QED BY <2>2, <2>3, <2>4, <2>7, <2>8, QuietStep
\* An evaluation that goes on without writing keeps its created_at.
<1>3. ASSUME NEW v \in Evaluators, UNCHANGED <<rollout, decisions, started, passes>>,
             eval[v].pc \notin {"asleep", "update"},
             eval' \in [Evaluators -> {Asleep} \cup Evaluation], eval'[v].at = eval[v].at,
             \A u \in Evaluators \ {v} : eval'[u] = eval[u]
      PROVE  GatesTypeOK' /\ Ordered'
  <2>1. GatesTypeOK'
    BY <1>0, <1>3 DEF GatesTypeOK
  <2>2. Ordered'
    BY <1>0, <1>3 DEF Ordered
  <2> QED BY <2>1, <2>2
<1>4. ASSUME NEW v \in Evaluators, ReadState(v) PROVE GatesInv'
  <2>1. /\ UNCHANGED <<rollout, decisions, started, passes>> /\ eval[v].pc = "state"
        /\ eval[v] \in Evaluation
        /\ eval' = [eval EXCEPT ![v].pc = "recent", ![v].prev = rollout]
    BY <1>0, <1>4 DEF ReadState
  <2>2. /\ eval' \in [Evaluators -> {Asleep} \cup Evaluation]
        /\ eval'[v].pc = "recent" /\ eval'[v].prev = rollout /\ eval'[v].at = eval[v].at
        /\ \A u \in Evaluators \ {v} : eval'[u] = eval[u]
    BY <1>0, <2>1 DEF Evaluation
  <2>3. Earning(eval[v])'
    BY <2>1, <2>2 DEF Earning, GatesInv, EnforcementIsEarned
  <2> QED BY <1>3, <2>1, <2>2, <2>3, QuietStep
<1>5. ASSUME NEW v \in Evaluators, ListRecent(v) PROVE GatesInv'
  <2>1. /\ UNCHANGED <<rollout, decisions, started, passes>> /\ eval[v].pc = "recent"
        /\ eval[v] \in Evaluation
        /\ eval' = [eval EXCEPT ![v].pc = "append",
                                ![v].fpStreak = FpStreak, ![v].apStreak = ApStreak]
    BY <1>0, <1>5 DEF ListRecent
  <2>2. FpStreak \in Nat /\ ApStreak \in Nat
    BY <1>0, FS_Subset, FS_CardinalityType DEF FpStreak, ApStreak, Recent
  <2>3. /\ eval' \in [Evaluators -> {Asleep} \cup Evaluation]
        /\ eval'[v].pc = "append" /\ eval'[v].prev = eval[v].prev /\ eval'[v].at = eval[v].at
        /\ eval'[v].fpStreak = FpStreak /\ eval'[v].apStreak = ApStreak
        /\ \A u \in Evaluators \ {v} : eval'[u] = eval[u]
    BY <1>0, <2>1, <2>2 DEF Evaluation
  <2>4. ASSUME FpStreak + 1 >= Required, ApStreak + 1 >= Required PROVE passes + 1 >= Required
    <3>1. Required - 1 \in Nat /\ FpStreak >= Required - 1 /\ ApStreak >= Required - 1
      BY <2>2, <2>4
    <3>2. Cardinality(Passing) >= Required - 1
      BY <1>0, <3>1, StreaksPass DEF Ordered
    <3>3. Cardinality(Passing) \in Nat /\ Cardinality(Passing) <= passes
      BY <1>0, FS_Subset, FS_CardinalityType DEF GatesInv, Passing
    <3> QED BY <1>0, <3>2, <3>3
  <2>5. Earning(eval[v])'
    BY <2>1, <2>3, <2>4 DEF Earning, GatesInv
  <2> QED BY <1>3, <2>1, <2>3, <2>5, QuietStep
<1>6. ASSUME NEW v \in Evaluators, Die(v) PROVE GatesInv'
  <2>1. /\ UNCHANGED <<rollout, decisions, started, passes>> /\ eval'[v] = Asleep
        /\ \A u \in Evaluators \ {v} : eval'[u] = eval[u]
        /\ eval' \in [Evaluators -> {Asleep} \cup Evaluation]
    BY <1>0, <1>6 DEF Die
  <2>2. GatesTypeOK'
    BY <1>0, <2>1 DEF GatesTypeOK
  <2>3. Ordered'
    BY <1>0, <2>1 DEF Ordered, Asleep
  <2>4. Earning(eval[v])'
    BY <2>1 DEF Earning, Asleep
  <2> QED BY <2>1, <2>2, <2>3, <2>4, QuietStep
<1>7. ASSUME NEW v \in Evaluators, AppendDecision(v) PROVE GatesInv'
  <2> DEFINE e == eval[v]
             D == {d \in decisions : d.run # e.run}
  <2>1. /\ e.pc = "append" /\ e \in Evaluation
        /\ decisions' = D \cup {Record(e)}
        /\ passes' = IF e.fp /\ e.ap THEN passes + 1 ELSE passes
        /\ eval' = [eval EXCEPT ![v].pc = "update"]
        /\ UNCHANGED <<rollout, started>>
    BY <1>0, <1>7 DEF AppendDecision
  <2>2. Record(e) \in Decision /\ Record(e).at = e.at /\ Record(e).fp = e.fp /\ Record(e).ap = e.ap
    BY <2>1 DEF Record, Decision, Evaluation
  <2>3. PICK x \in Evaluation : x = [e EXCEPT !.pc = "update"]
    BY <2>1 DEF Evaluation
  <2>4. /\ eval'[v] = x /\ x.pc = "update" /\ x.at = e.at /\ x.prev = e.prev /\ x.fp = e.fp
        /\ x.ap = e.ap /\ x.fpStreak = e.fpStreak /\ x.apStreak = e.apStreak
        /\ eval' \in [Evaluators -> {Asleep} \cup Evaluation]
        /\ \A u \in Evaluators \ {v} : eval'[u] = eval[u]
    BY <1>0, <2>1, <2>3 DEF Evaluation
  <2>5. passes' \in Nat /\ passes' >= passes
    BY <1>0, <2>1
  <2>6. GatesTypeOK'
    BY <1>0, <2>1, <2>2, <2>4, <2>5 DEF GatesTypeOK
  <2>7. D \subseteq decisions /\ IsFiniteSet(D) /\ IsFiniteSet(decisions')
    BY <1>0, <2>1, FS_Subset, FS_AddElement
  <2>8. Ordered'
    <3>1. \A d \in decisions' : d.at <= started'
      BY <1>0, <2>1, <2>2 DEF Ordered
    <3>2. \A d \in D : d.at # e.at
      BY <1>0, <2>1 DEF Ordered
    <3>3. \A d, f \in decisions' : d.at = f.at => d = f
      BY <1>0, <2>1, <2>2, <3>2 DEF Ordered
    <3>4. ASSUME NEW u \in Evaluators, eval'[u].pc # "asleep"
          PROVE  /\ eval'[u].at <= started'
                 /\ eval'[u].pc # "update" => \A d \in decisions' : d.at # eval'[u].at
                 /\ \A t \in Evaluators \ {u} : eval'[t].pc # "asleep" => eval'[t].at # eval'[u].at
      <4>1. \A t \in Evaluators : eval'[t].at = eval[t].at /\ (eval'[t].pc # "asleep" => eval[t].pc # "asleep")
        BY <2>1, <2>4
      <4>2. u # v => eval[u].at # e.at
        BY <1>0, <2>1, <2>4, <3>4 DEF Ordered
      <4>3. eval'[u].pc # "update" => \A d \in decisions' : d.at # eval'[u].at
        BY <1>0, <2>1, <2>2, <2>4, <2>7, <3>4, <4>1, <4>2 DEF Ordered
      <4> QED BY <1>0, <2>1, <3>4, <4>1, <4>3 DEF Ordered
    <3> QED BY <2>7, <3>1, <3>3, <3>4 DEF Ordered
  <2>9. Cardinality(Passing') <= passes'
    <3> DEFINE P == {d \in D : d.fp /\ d.ap}
    <3>1. P \subseteq Passing /\ IsFiniteSet(Passing) /\ IsFiniteSet(P)
      BY <1>0, <2>7, FS_Subset DEF Passing
    <3>2. Cardinality(P) \in Nat /\ Cardinality(P) <= passes
      BY <1>0, <3>1, FS_Subset, FS_CardinalityType DEF GatesInv
    <3>3. CASE e.fp /\ e.ap
      <4>1. Passing' = P \cup {Record(e)}
        BY <2>1, <2>2, <3>3 DEF Passing
      <4> HIDE DEF P
      <4>2. /\ IsFiniteSet(P \cup {Record(e)})
            /\ Cardinality(P \cup {Record(e)})
                 = IF Record(e) \in P THEN Cardinality(P) ELSE Cardinality(P) + 1
        BY <3>1, FS_AddElement
      <4>3. Cardinality(P \cup {Record(e)}) <= Cardinality(P) + 1
        BY <3>2, <4>2
      <4>4. Cardinality(P \cup {Record(e)}) \in Nat
        BY <4>2, FS_CardinalityType
      <4> QED BY <1>0, <2>1, <3>2, <3>3, <4>1, <4>3, <4>4
    <3>4. CASE ~(e.fp /\ e.ap)
      <4>1. Passing' = P
        BY <2>1, <2>2, <3>4 DEF Passing
      <4> QED BY <2>5, <3>2, <4>1, <1>0
    <3> QED BY <3>3, <3>4
  <2>10. EnforcementIsEarned'
    BY <1>0, <2>1, <2>5 DEF GatesInv, EnforcementIsEarned
  <2>11. ASSUME NEW u \in Evaluators PROVE Earning(eval[u])'
    <3>1. CASE u # v
      <4>1. eval'[u] = eval[u] /\ Earning(eval[u])
        BY <2>4, <3>1 DEF GatesInv
      <4>2. PromotionReady(eval[u])' <=> PromotionReady(eval[u])
        BY <4>1 DEF PromotionReady
      <4> DEFINE y == eval[u]
      <4>3. /\ y.pc \in {"recent", "append"} /\ y.prev.mode # "raw-only" => passes >= Required
            /\ y.pc = "append" /\ y.fpStreak + 1 >= Required /\ y.apStreak + 1 >= Required
                 => passes + 1 >= Required
            /\ y.pc = "update" /\ PromotionReady(y) =>
                 passes >= Required /\ (y.prev.mode # "raw-only" => passes >= Required + 1)
        BY <4>1 DEF Earning
      <4>4. /\ passes >= Required => passes' >= Required
            /\ passes + 1 >= Required => passes' + 1 >= Required
            /\ passes >= Required + 1 => passes' >= Required + 1
        <5>1. passes \in Nat /\ passes' \in Nat /\ Required \in Nat /\ passes' >= passes
          BY <1>0, <2>5
        <5> QED BY <5>1, Grown
      <4>5. y.pc \in {"recent", "append"} /\ y.prev.mode # "raw-only" => passes' >= Required
        BY <4>3, <4>4
      <4>7. y.pc = "append" /\ y.fpStreak + 1 >= Required /\ y.apStreak + 1 >= Required
              => passes' + 1 >= Required
        BY <4>3, <4>4
      <4>8. y.pc = "update" /\ PromotionReady(y) =>
              passes' >= Required /\ (y.prev.mode # "raw-only" => passes' >= Required + 1)
        BY <4>3, <4>4
      <4>6. eval'[u] = y
        BY <4>1
      <4> QED BY <4>2, <4>5, <4>6, <4>7, <4>8 DEF Earning
    <3>2. CASE u = v
      <4>1. Earning(e)
        BY DEF GatesInv
      <4>2. ASSUME PromotionReady(x)
            PROVE  passes' >= Required /\ (x.prev.mode # "raw-only" => passes' >= Required + 1)
        <5>1. e.fp /\ e.ap /\ e.fpStreak + 1 >= Required /\ e.apStreak + 1 >= Required
          BY <2>4, <4>2 DEF PromotionReady
        <5>2. passes' = passes + 1 /\ passes + 1 >= Required
          BY <2>1, <4>1, <5>1 DEF Earning
        <5>3. e.prev.mode # "raw-only" => passes >= Required
          BY <2>1, <4>1 DEF Earning
        <5> QED BY <1>0, <2>4, <5>2, <5>3
      <4>3. eval'[u] = x
        BY <2>4, <3>2
      <4> QED BY <2>4, <4>2, <4>3 DEF Earning, PromotionReady
    <3> QED BY <3>1, <3>2
  <2> QED BY <2>6, <2>8, <2>9, <2>10, <2>11 DEF GatesInv
<1>8. ASSUME NEW v \in Evaluators, UpdateState(v) PROVE GatesInv'
  <2> DEFINE e == eval[v]
  <2>1. /\ e.pc = "update" /\ e \in Evaluation /\ rollout' = Decide(e)
        /\ UNCHANGED <<decisions, started, passes>> /\ eval'[v] = Asleep
        /\ \A u \in Evaluators \ {v} : eval'[u] = eval[u]
        /\ eval' \in [Evaluators -> {Asleep} \cup Evaluation]
    BY <1>0, <1>8 DEF UpdateState
  <2>2. e.prev \in Rollout /\ Earning(e)
    BY <2>1 DEF Evaluation, GatesInv
  <2>3. rollout' \in Rollout
    BY <2>1, <2>2 DEF Decide, NextMode, Rollout, Modes
  <2>4. GatesTypeOK'
    BY <1>0, <2>1, <2>3 DEF GatesTypeOK
  <2>5. Ordered'
    BY <1>0, <2>1 DEF Ordered, Asleep
  <2>6. EnforcementIsEarned'
    <3>1. CASE PromotionReady(e)
      <4>1. rollout'.mode = NextMode(e.prev.mode) /\ rollout'.freeze = FALSE
        BY <2>1, <3>1 DEF Decide
      <4>2. passes' >= Required /\ (e.prev.mode # "raw-only" => passes' >= Required + 1)
        BY <2>1, <2>2, <3>1 DEF Earning
      <4> QED BY <4>1, <4>2 DEF NextMode, EnforcementIsEarned
    <3>2. CASE ~PromotionReady(e)
      BY <2>1, <3>2 DEF Decide, EnforcementIsEarned
    <3> QED BY <3>1, <3>2
  <2>7. ASSUME NEW u \in Evaluators PROVE Earning(eval[u])'
    <3>1. CASE u = v
      BY <2>1, <3>1 DEF Earning, Asleep
    <3>2. CASE u # v
      BY <2>1, <3>2 DEF GatesInv, Earning, PromotionReady
    <3> QED BY <3>1, <3>2
  <2>8. Cardinality(Passing)' <= passes'
    BY <2>1 DEF GatesInv, Passing
  <2> QED BY <2>4, <2>5, <2>6, <2>7, <2>8 DEF GatesInv
<1> QED BY <1>1, <1>2, <1>4, <1>5, <1>6, <1>7, <1>8 DEF GatesNext

\* Enforcement is never wider than the gates have earned (the invariant of the runs),
\* for any number of evaluators, overlapping, repeated or dying, and any streak length.
THEOREM GatesEarnEnforcement == GatesSpec => []EnforcementIsEarned
<1>1. GatesInv => EnforcementIsEarned
  BY DEF GatesInv
<1> QED BY <1>1, GatesInvInit, GatesStep, PTL DEF GatesSpec

-------------------------------------------------------------------------------
(* The reports: types *)

Pcs == {"new", "nonce", "verify", "resolve", "store", "enforce", "list", "project",
        "publish", "announce", "done"}

\* What a report alone may call for, and what an action may say.
Reported == {"none", "flagged", "policy_blocked_temp"}
Action == [id : Deliveries \cup ({"perm"} \X Nat),
           state : {"flagged", "policy_blocked_temp", "policy_blocked_perm"},
           at : Nat, made : Nat, expires : Nat]
Submission == [pc : Pcs, now : Nat, state : Reported, list : SUBSET Action]
Answers == {"none", "accepted", "error", "invalid_request", "timestamp_skew_exceeded",
            "nonce_replayed", "nonce_rate_limited", "signature_invalid",
            "reporter_not_active", "evidence_minimums_missing", "abuse_suspected"}

ReportsTypeOK ==
  /\ clock \in Nat
  /\ claim \in [Requests -> Claims \cup {Unsigned}]
  /\ stamp \in [Requests -> Nat]
  /\ nonces \in [Requests -> Nat]
  /\ actions \subseteq Action
  /\ job \in [Deliveries -> Submission]
  /\ reply \in [Deliveries -> Answers]
  /\ review \in [pc : {"idle", "promote"}, at : Nat]
  /\ budget \in [ticks : Nat, deliveries : Nat, cuts : Nat, promotions : Nat]
  /\ overtaken \in BOOLEAN

-------------------------------------------------------------------------------
(* The reports: the inductive invariant *)

Stored(d, state) == \E r \in reports : r.id = d /\ r.queue # "rejected" /\ r.state = state
Enforced(d) == \E a \in actions : a.id = d
Announced(event, d) == <<event, d>> \in outbox
Whole(d, state) ==
  /\ Stored(d, state)
  /\ state # "none" =>
       Enforced(d) /\ Announced("security.enforcement.recompute.requested", d)
Ended == {"accepted", "error"}

\* The reports are a finite table with a unique key, none from the future.
Filed ==
  /\ IsFiniteSet(reports)
  /\ \A r \in reports : /\ r.id \in Deliveries /\ r.request = r.id[1]
                        /\ r.at \in Nat /\ r.at <= clock
  /\ \A r, s \in reports : r.request = s.request => r = s
  /\ \A d \in Deliveries : job[d].now <= clock

\* A nonce is spent by a delivery that got past its verification.
Spent ==
  \A q \in Requests : nonces[q] # 0 =>
    \E e \in Deliveries : e[1] = q /\ job[e].pc \notin {"new", "nonce", "verify"}

\* What a delivery has done by each of its steps and at its answer, and nothing more.
Progress(d) ==
  /\ reply[d] = "none" <=> job[d].pc # "done"
  /\ job[d].pc \in {"enforce", "list", "project", "publish", "announce"} =>
       Stored(d, job[d].state)
  /\ job[d].pc \in {"enforce", "list", "project", "announce"} => job[d].state # "none"
  /\ job[d].pc \in {"list", "project", "publish", "announce"} /\ job[d].state # "none" =>
       Enforced(d)
  /\ job[d].pc = "announce" => Announced("security.report.accepted", d)
  /\ reply[d] = "accepted" =>
       /\ Announced("security.report.accepted", d)
       /\ \E state \in Reported : Whole(d, state)
  /\ Enforced(d) => \/ job[d].pc \in {"list", "project", "publish", "announce"}
                    \/ reply[d] \in Ended
  /\ Announced("security.report.accepted", d) =>
       job[d].pc = "announce" \/ reply[d] \in Ended
  /\ reply[d] = "nonce_replayed" =>
       \E e \in Deliveries \ {d} : e[1] = d[1] /\ job[e].pc # "new"

\* Unless a list was overtaken since, every list in use is the table, and between two
\* folds the projection row is the last one.
Folded ==
  ~overtaken =>
    /\ \A d \in Deliveries : job[d].pc = "project" => job[d].list = actions
    /\ (\A d \in Deliveries : job[d].pc \notin {"list", "project"}) =>
         projection.state = Project(actions, projection.at)

ReportsInv ==
  /\ ReportsTypeOK
  /\ Filed
  /\ Spent
  /\ \A d \in Deliveries : Progress(d)
  /\ Folded
  /\ PermanentBlockIsCorroborated

\* Nothing that only follows from what a report is depends on the other fields of it.
LEMMA VerdictType ==
  ASSUME NEW c
  PROVE  /\ Verdict(c).state \in Reported
         /\ Verdict(c).accepted \in BOOLEAN
         /\ Verdict(c).accepted => Verdict(c).queue # "rejected"
         /\ ~Verdict(c).accepted =>
              Verdict(c).reason \in {"reporter_not_active", "evidence_minimums_missing",
                                     "abuse_suspected"}
<1>1. CASE c.status # "active"
  BY <1>1 DEF Verdict, Reported
<1>2. CASE c.status = "active" /\ ~c.evidence
  BY <1>2 DEF Verdict, Reported
<1>3. CASE c.status = "active" /\ c.evidence /\ c.abuse
  BY <1>3 DEF Verdict, Reported
<1>4. CASE c.status = "active" /\ c.evidence /\ ~c.abuse
  BY <1>4 DEF Verdict, Reported
<1> QED BY <1>1, <1>2, <1>3, <1>4

LEMMA ResolveType ==
  ASSUME NEW state \in Reported, NEW source, NEW row
  PROVE  Resolve(state, source, row) \in Reported
BY DEF Resolve, Reported

-------------------------------------------------------------------------------
(* One turn of a delivery *)

\* A turn leaves the local variables of the other deliveries alone.
Turn(d) ==
  /\ job' \in [Deliveries -> Submission] /\ reply' \in [Deliveries -> Answers]
  /\ \A e \in Deliveries \ {d} : job'[e] = job[e] /\ reply'[e] = reply[e]

LEMMA GotoTurn ==
  ASSUME ReportsTypeOK, NEW d \in Deliveries, NEW pc \in Pcs, Goto(d, pc)
  PROVE  /\ Turn(d) /\ reply' = reply
         /\ job'[d].pc = pc /\ job'[d].now = job[d].now /\ job'[d].state = job[d].state
         /\ job'[d].list = job[d].list
BY DEF ReportsTypeOK, Submission, Goto, Turn

LEMMA AnsweredTurn ==
  ASSUME ReportsTypeOK, NEW d \in Deliveries, NEW answer \in Answers, Answered(d, answer)
  PROVE  /\ Turn(d) /\ reply'[d] = answer
         /\ job'[d].pc = "done" /\ job'[d].now = 0 /\ job'[d].state = "none"
         /\ job'[d].list = {}
<1>1. PICK x \in Submission : x = [NewJob EXCEPT !.pc = "done"]
  BY DEF NewJob, Submission, Pcs, Reported
<1>2. job' = [job EXCEPT ![d] = x] /\ reply' = [reply EXCEPT ![d] = answer]
  BY <1>1 DEF Answered
<1>3. x.pc = "done" /\ x.now = 0 /\ x.state = "none" /\ x.list = {}
  BY <1>1 DEF NewJob
<1> QED BY <1>2, <1>3 DEF ReportsTypeOK, Turn

\* What the other deliveries have done stays as it is, when the turn writes rows of its
\* own delivery or of no delivery.
LEMMA OthersProgress ==
  ASSUME NEW d \in Deliveries, Turn(d), job[d].pc # "new" => job'[d].pc # "new",
         reports \subseteq reports', actions \subseteq actions', outbox \subseteq outbox',
         \A a \in actions' \ actions : a.id \notin Deliveries \ {d},
         \A event, e : <<event, e>> \in outbox' \ outbox => e = d,
         NEW e \in Deliveries \ {d}, Progress(e)
  PROVE  Progress(e)'
<1>1. job'[e] = job[e] /\ reply'[e] = reply[e]
  BY DEF Turn
<1>2. \A state : Stored(e, state) => Stored(e, state)'
  BY DEF Stored
<1>3. Enforced(e)' <=> Enforced(e)
  BY DEF Enforced
<1>4. \A event : Announced(event, e)' <=> Announced(event, e)
  BY DEF Announced
<1>5. \A f \in Deliveries : job[f].pc # "new" => job'[f].pc # "new"
  BY DEF Turn
<1>6. \A state : Whole(e, state) => Whole(e, state)'
  BY <1>2, <1>3, <1>4 DEF Whole
<1>7. job'[e].pc = job[e].pc /\ job'[e].state = job[e].state
  BY <1>1
<1> QED BY <1>1, <1>2, <1>3, <1>4, <1>5, <1>6, <1>7 DEF Progress

\* A turn that writes no table the folds and the promotions read.
LEMMA QuietTurn ==
  ASSUME ReportsInv, ReportsTypeOK', NEW d \in Deliveries, Turn(d),
         UNCHANGED <<clock, reports, actions, projection, overtaken>>,
         outbox \subseteq outbox', \A event, e : <<event, e>> \in outbox' \ outbox => e = d,
         Spent', Progress(d)', job[d].pc # "new" => job'[d].pc # "new",
         job'[d].now <= clock,
         job[d].pc \notin {"list", "project"}, job'[d].pc \notin {"list", "project"}
  PROVE  ReportsInv'
<1>1. ASSUME NEW e \in Deliveries PROVE Progress(e)'
  BY OthersProgress DEF ReportsInv
<1>2. Filed'
  BY DEF ReportsInv, Filed, Turn
<1>3. Folded'
  <2> SUFFICES ASSUME ~overtaken PROVE Folded'
    BY DEF Folded
  <2>1. \A e \in Deliveries : job'[e].pc = "project" => job[e].pc = "project" /\ job'[e].list = job[e].list
    BY DEF Turn
  <2>2. \A e \in Deliveries : job'[e].pc \notin {"list", "project"} => job[e].pc \notin {"list", "project"}
    BY DEF Turn
  <2> QED BY <2>1, <2>2 DEF ReportsInv, Folded
<1>4. PermanentBlockIsCorroborated'
  BY DEF ReportsInv, PermanentBlockIsCorroborated
<1> QED BY <1>1, <1>2, <1>3, <1>4 DEF ReportsInv

\* A nonce that is spent stays so.
LEMMA StillSpent ==
  ASSUME Spent, NEW d \in Deliveries, Turn(d),
         \A q \in Requests : nonces'[q] # 0 => nonces[q] # 0,
         job[d].pc \notin {"new", "nonce", "verify"} => job'[d].pc \notin {"new", "nonce", "verify"}
  PROVE  Spent'
BY DEF Spent, Turn

-------------------------------------------------------------------------------
(* The steps of a submission *)

LEMMA ReceiveStep ==
  ASSUME ReportsInv, NEW d \in Deliveries, Receive(d)
  PROVE  ReportsInv'
<1> USE ReportsAssumption
<1>0. /\ ReportsTypeOK /\ Filed /\ Spent /\ Progress(d) /\ job[d].pc = "new"
      /\ UNCHANGED <<clock, claim, stamp, nonces, reports, actions, projection, outbox,
                     review, overtaken>>
      /\ budget' = [budget EXCEPT !.deliveries = @ - 1] /\ budget.deliveries > 0
  BY DEF Receive, ReportsInv
<1>1. budget' \in [ticks : Nat, deliveries : Nat, cuts : Nat, promotions : Nat]
  BY <1>0 DEF ReportsTypeOK
<1>2. CASE \E answer \in {"invalid_request", "timestamp_skew_exceeded"} : Answered(d, answer)
  <2>1. PICK answer \in {"invalid_request", "timestamp_skew_exceeded"} : Answered(d, answer)
    BY <1>2
  <2>2. /\ Turn(d) /\ reply'[d] = answer /\ job'[d].pc = "done" /\ job'[d].now = 0
        /\ job'[d].state = "none"
    BY <1>0, <2>1, AnsweredTurn DEF Answers
  <2>3. ReportsTypeOK'
    BY <1>0, <1>1, <2>2 DEF ReportsTypeOK, Turn
  <2>4. Progress(d)'
    BY <1>0, <2>2 DEF Progress, Stored, Enforced, Announced, Ended
  <2>5. Spent'
    BY <1>0, <2>2, StillSpent
  <2> QED BY <1>0, <2>2, <2>3, <2>4, <2>5, QuietTurn DEF ReportsTypeOK
<1>3. CASE job' = [job EXCEPT ![d].pc = "nonce", ![d].now = clock] /\ UNCHANGED reply
  <2>1. /\ Turn(d) /\ job'[d].pc = "nonce" /\ job'[d].now = clock
        /\ job'[d].state = job[d].state
    BY <1>0, <1>3 DEF ReportsTypeOK, Submission, Pcs, Turn
  <2>2. ReportsTypeOK'
    BY <1>0, <1>1, <1>3, <2>1 DEF ReportsTypeOK, Turn
  <2>3. Progress(d)'
    BY <1>0, <1>3, <2>1 DEF Progress, Stored, Enforced, Announced, Ended
  <2>4. Spent'
    BY <1>0, <2>1, StillSpent
  <2> QED BY <1>0, <2>1, <2>2, <2>3, <2>4, QuietTurn DEF ReportsTypeOK
<1> QED BY <1>2, <1>3 DEF Receive

LEMMA CheckNonceStep ==
  ASSUME ReportsInv, NEW d \in Deliveries, CheckNonce(d)
  PROVE  ReportsInv'
<1>0. /\ ReportsTypeOK /\ Filed /\ Spent /\ Progress(d) /\ job[d].pc = "nonce"
      /\ UNCHANGED <<clock, claim, stamp, reports, actions, projection, outbox, budget,
                     review, overtaken>>
      /\ nonces' = [p \in Requests |-> IF p \in LiveNonces(job[d].now) THEN nonces[p] ELSE 0]
      /\ d[1] \in Requests /\ job[d].now \in Nat
  BY DEF CheckNonce, ReportsInv, Deliveries, ReportsTypeOK, Submission
<1>1. nonces' \in [Requests -> Nat] /\ \A p \in Requests : nonces'[p] # 0 => nonces[p] # 0
  BY <1>0 DEF ReportsTypeOK
<1>2. CASE Answered(d, "nonce_replayed") /\ d[1] \in LiveNonces(job[d].now)
  <2>2. /\ Turn(d) /\ reply'[d] = "nonce_replayed" /\ job'[d].pc = "done" /\ job'[d].now = 0
        /\ job'[d].state = "none"
    BY <1>0, <1>2, AnsweredTurn DEF Answers
  <2>3. ReportsTypeOK'
    BY <1>0, <1>1, <2>2 DEF ReportsTypeOK, Turn
  <2>4. \E e \in Deliveries \ {d} : e[1] = d[1] /\ job'[e].pc # "new"
    <3>1. nonces[d[1]] # 0
      BY <1>0, <1>2 DEF LiveNonces, ReportsTypeOK
    <3>2. PICK e \in Deliveries : e[1] = d[1] /\ job[e].pc \notin {"new", "nonce", "verify"}
      BY <1>0, <3>1 DEF Spent
    <3> QED BY <1>0, <2>2, <3>2 DEF Turn
  <2>5. Progress(d)'
    BY <1>0, <2>2, <2>4 DEF Progress, Stored, Enforced, Announced, Ended
  <2>6. Spent'
    BY <1>0, <1>1, <2>2, StillSpent
  <2> QED BY <1>0, <2>2, <2>3, <2>5, <2>6, QuietTurn DEF ReportsTypeOK
<1>3. CASE Answered(d, "nonce_rate_limited")
  <2>2. /\ Turn(d) /\ reply'[d] = "nonce_rate_limited" /\ job'[d].pc = "done" /\ job'[d].now = 0
        /\ job'[d].state = "none"
    BY <1>0, <1>3, AnsweredTurn DEF Answers
  <2>3. ReportsTypeOK'
    BY <1>0, <1>1, <2>2 DEF ReportsTypeOK, Turn
  <2>5. Progress(d)'
    BY <1>0, <2>2 DEF Progress, Stored, Enforced, Announced, Ended
  <2>6. Spent'
    BY <1>0, <1>1, <2>2, StillSpent
  <2> QED BY <1>0, <2>2, <2>3, <2>5, <2>6, QuietTurn DEF ReportsTypeOK
<1>4. CASE Goto(d, "verify")
  <2>2. /\ Turn(d) /\ reply' = reply /\ job'[d].pc = "verify" /\ job'[d].now = job[d].now
        /\ job'[d].state = job[d].state
    BY <1>0, <1>4, GotoTurn DEF Pcs
  <2>3. ReportsTypeOK'
    BY <1>0, <1>1, <2>2 DEF ReportsTypeOK, Turn
  <2>5. Progress(d)'
    BY <1>0, <2>2 DEF Progress, Stored, Enforced, Announced, Ended
  <2>6. Spent'
    BY <1>0, <1>1, <2>2, StillSpent
  <2>7. job'[d].now <= clock
    BY <1>0, <2>2 DEF Filed
  <2> QED BY <1>0, <2>2, <2>3, <2>5, <2>6, <2>7, QuietTurn
<1> QED BY <1>2, <1>3, <1>4 DEF CheckNonce

LEMMA PutNonceStep ==
  ASSUME ReportsInv, NEW d \in Deliveries, PutNonce(d)
  PROVE  ReportsInv'
<1> USE ReportsAssumption
<1>0. /\ ReportsTypeOK /\ Filed /\ Spent /\ Progress(d) /\ job[d].pc = "verify"
      /\ UNCHANGED <<clock, claim, stamp, reports, actions, projection, outbox, budget,
                     review, overtaken>>
      /\ d[1] \in Requests /\ job[d].now \in Nat
  BY DEF PutNonce, ReportsInv, Deliveries, ReportsTypeOK, Submission
<1>1. CASE Answered(d, "signature_invalid") /\ UNCHANGED nonces
  <2>1. /\ Turn(d) /\ reply'[d] = "signature_invalid" /\ job'[d].pc = "done" /\ job'[d].now = 0
        /\ job'[d].state = "none"
    BY <1>0, <1>1, AnsweredTurn DEF Answers
  <2>2. ReportsTypeOK'
    BY <1>0, <1>1, <2>1 DEF ReportsTypeOK, Turn
  <2>3. Progress(d)'
    BY <1>0, <2>1 DEF Progress, Stored, Enforced, Announced, Ended
  <2>4. Spent'
    BY <1>0, <1>1, <2>1, StillSpent
  <2> QED BY <1>0, <2>1, <2>2, <2>3, <2>4, QuietTurn DEF ReportsTypeOK
<1>2. CASE nonces' = [nonces EXCEPT ![d[1]] = job[d].now + NonceTtl] /\ Goto(d, "resolve")
  <2>1. /\ Turn(d) /\ reply' = reply /\ job'[d].pc = "resolve" /\ job'[d].now = job[d].now
        /\ job'[d].state = job[d].state
    BY <1>0, <1>2, GotoTurn DEF Pcs
  <2>2. nonces' \in [Requests -> Nat] /\ \A q \in Requests \ {d[1]} : nonces'[q] = nonces[q]
    BY <1>0, <1>2 DEF ReportsTypeOK
  <2>3. ReportsTypeOK'
    BY <1>0, <2>1, <2>2 DEF ReportsTypeOK, Turn
  <2>4. Progress(d)'
    BY <1>0, <2>1 DEF Progress, Stored, Enforced, Announced, Ended
  <2>5. Spent'
    <3> SUFFICES ASSUME NEW q \in Requests, nonces'[q] # 0
                 PROVE  \E e \in Deliveries : e[1] = q /\ job'[e].pc \notin {"new", "nonce", "verify"}
      BY DEF Spent
    <3>1. CASE q = d[1]
      BY <2>1, <3>1
    <3>2. CASE q # d[1]
      BY <1>0, <2>1, <2>2, <3>2 DEF Spent, Turn
    <3> QED BY <3>1, <3>2
  <2>6. job'[d].now <= clock
    BY <1>0, <2>1 DEF Filed
  <2> QED BY <1>0, <2>1, <2>3, <2>4, <2>5, <2>6, QuietTurn
<1> QED BY <1>1, <1>2 DEF PutNonce

LEMMA ResolveRolloutStep ==
  ASSUME ReportsInv, NEW d \in Deliveries, ResolveRollout(d)
  PROVE  ReportsInv'
<1>0. /\ ReportsTypeOK /\ Filed /\ Spent /\ Progress(d) /\ job[d].pc = "resolve"
      /\ UNCHANGED <<clock, claim, stamp, nonces, reports, actions, projection, outbox, budget,
                     reply, review, overtaken>>
  BY DEF ResolveRollout, ReportsInv
<1>1. PICK state \in Reported : job' = [job EXCEPT ![d].pc = "store", ![d].state = state]
  BY VerdictType, ResolveType DEF ResolveRollout
<1>2. /\ Turn(d) /\ job'[d].pc = "store" /\ job'[d].now = job[d].now
  BY <1>0, <1>1 DEF ReportsTypeOK, Submission, Pcs, Turn
<1>3. ReportsTypeOK'
  BY <1>0, <1>2 DEF ReportsTypeOK, Turn
<1>4. Progress(d)'
  BY <1>0, <1>2 DEF Progress, Stored, Enforced, Announced, Ended
<1>5. Spent'
  BY <1>0, <1>2, StillSpent
<1>6. job'[d].now <= clock
  BY <1>0, <1>2 DEF Filed
<1> QED BY <1>0, <1>2, <1>3, <1>4, <1>5, <1>6, QuietTurn

\* What corroborates a block at some moment still does when more reports are on file.
LEMMA EligibleGrows ==
  ASSUME NEW S, NEW T, S \subseteq T, IsFiniteSet(T), NEW t, Eligible(S, t)
  PROVE  Eligible(T, t)
<1> DEFINE C == Corroborating(S, t)
           D == Corroborating(T, t)
           reporter == [r \in D |-> r.reporter]
           key == [r \in D |-> r.key]
<1>1. C \subseteq D /\ D \subseteq T
  BY DEF Corroborating
<1>2. IsFiniteSet(D)
  BY <1>1, FS_Subset
<1> HIDE DEF C, D
<1>3. reporter \in Surjection(D, {r.reporter : r \in D}) /\ key \in Surjection(D, {r.key : r \in D})
  BY DEF Surjection
<1>4. IsFiniteSet({r.reporter : r \in D}) /\ IsFiniteSet({r.key : r \in D})
  BY <1>2, <1>3, FS_Surjection
<1>5. {r.reporter : r \in C} \subseteq {r.reporter : r \in D} /\ {r.key : r \in C} \subseteq {r.key : r \in D}
  BY <1>1
<1>6. /\ Cardinality({r.reporter : r \in C}) <= Cardinality({r.reporter : r \in D})
      /\ Cardinality({r.reporter : r \in C}) \in Nat /\ Cardinality({r.reporter : r \in D}) \in Nat
  BY <1>4, <1>5, FS_Subset, FS_CardinalityType
<1>7. /\ Cardinality({r.key : r \in C}) <= Cardinality({r.key : r \in D})
      /\ Cardinality({r.key : r \in C}) \in Nat /\ Cardinality({r.key : r \in D}) \in Nat
  BY <1>4, <1>5, FS_Subset, FS_CardinalityType
<1>8. Cardinality(C) <= Cardinality(D) /\ Cardinality(C) \in Nat /\ Cardinality(D) \in Nat
  BY <1>1, <1>2, FS_Subset, FS_CardinalityType
<1>9. /\ Cardinality({r.reporter : r \in C}) >= 2 /\ Cardinality({r.key : r \in C}) >= 2
      /\ Cardinality(C) >= 2
  BY DEF Eligible, C
<1>10. /\ Cardinality({r.reporter : r \in D}) >= 2 /\ Cardinality({r.key : r \in D}) >= 2
       /\ Cardinality(D) >= 2
  BY <1>6, <1>7, <1>8, <1>9
<1> QED BY <1>10 DEF Eligible, D

\* A block stays corroborated whatever is filed or enforced after it.
LEMMA BlocksStand ==
  ASSUME PermanentBlockIsCorroborated, reports \subseteq reports', IsFiniteSet(reports'),
         NEW a \in actions, a.state = "policy_blocked_perm"
  PROVE  Eligible({r \in reports' : r.at <= a.made}, a.made)
<1>1. Eligible({r \in reports : r.at <= a.made}, a.made)
  BY DEF PermanentBlockIsCorroborated
<1>2. {r \in reports' : r.at <= a.made} \subseteq reports'
  OBVIOUS
<1>3. IsFiniteSet({r \in reports' : r.at <= a.made})
  BY <1>2, FS_Subset
<1> QED BY <1>1, <1>3, EligibleGrows

LEMMA AppendReportStep ==
  ASSUME ReportsInv, NEW d \in Deliveries, AppendReport(d)
  PROVE  ReportsInv'
<1> DEFINE v == Verdict(claim[d[1]])
           row == ReportRow(d)
<1>0. /\ ReportsTypeOK /\ Filed /\ Spent /\ Folded /\ PermanentBlockIsCorroborated
      /\ Progress(d) /\ job[d].pc = "store" /\ job[d] \in Submission
      /\ UNCHANGED <<clock, claim, stamp, nonces, actions, projection, outbox, budget,
                     review, overtaken>>
  BY DEF AppendReport, ReportsInv, ReportsTypeOK
<1>1. CASE Answered(d, "error") /\ UNCHANGED reports
  <2>1. /\ Turn(d) /\ reply'[d] = "error" /\ job'[d].pc = "done" /\ job'[d].now = 0
        /\ job'[d].state = "none"
    BY <1>0, <1>1, AnsweredTurn DEF Answers
  <2>2. ReportsTypeOK'
    BY <1>0, <2>1 DEF ReportsTypeOK, Turn
  <2>3. Progress(d)'
    BY <1>0, <2>1 DEF Progress, Stored, Enforced, Announced, Ended
  <2>4. Spent'
    BY <1>0, <2>1, StillSpent
  <2> QED BY <1>0, <1>1, <2>1, <2>2, <2>3, <2>4, QuietTurn DEF ReportsTypeOK
<1>2. CASE /\ ~NonceIsStored(d[1]) /\ reports' = reports \cup {row}
           /\ IF v.accepted THEN Goto(d, IF job[d].state = "none" THEN "publish" ELSE "enforce")
                            ELSE Answered(d, v.reason)
  <2>0. /\ v.accepted \in BOOLEAN
        /\ v.accepted => v.queue # "rejected"
        /\ ~v.accepted => v.reason \in {"reporter_not_active", "evidence_minimums_missing",
                                        "abuse_suspected"}
    BY VerdictType
  <2>1. /\ Turn(d) /\ job'[d].now \in {0, job[d].now}
        /\ \/ /\ v.accepted /\ reply' = reply /\ job'[d].state = job[d].state
              /\ \/ job[d].state = "none" /\ job'[d].pc = "publish"
                 \/ job[d].state # "none" /\ job'[d].pc = "enforce"
           \/ /\ job'[d].pc = "done" /\ job'[d].state = "none"
              /\ reply'[d] \in {"reporter_not_active", "evidence_minimums_missing", "abuse_suspected"}
    <3>1. CASE v.accepted /\ job[d].state = "none"
      <4>1. Goto(d, "publish")
        BY <1>2, <3>1
      <4> HIDE DEF v
      <4> QED BY <1>0, <3>1, <4>1, GotoTurn DEF Pcs
    <3>2. CASE v.accepted /\ job[d].state # "none"
      <4>1. Goto(d, "enforce")
        BY <1>2, <3>2
      <4> HIDE DEF v
      <4> QED BY <1>0, <3>2, <4>1, GotoTurn DEF Pcs
    <3>3. CASE ~v.accepted
      <4>1. PICK reason \in {"reporter_not_active", "evidence_minimums_missing",
                             "abuse_suspected"} : Answered(d, reason)
        BY <1>2, <2>0, <3>3
      <4> HIDE DEF v
      <4> QED BY <1>0, <4>1, AnsweredTurn DEF Answers
    <3> QED BY <2>0, <3>1, <3>2, <3>3
  <2>2. /\ row.id = d /\ row.request = d[1] /\ row.at = job[d].now /\ row.state = job[d].state
        /\ row.queue = v.queue
    BY DEF ReportRow
  <2> HIDE DEF v, row
  <2>3. ReportsTypeOK'
    BY <1>0, <2>1 DEF ReportsTypeOK, Turn
  <2>4. Filed'
    <3>1. IsFiniteSet(reports')
      BY <1>0, <1>2, FS_AddElement DEF Filed
    <3>2. \A r \in reports' : /\ r.id \in Deliveries /\ r.request = r.id[1]
                              /\ r.at \in Nat /\ r.at <= clock'
      BY <1>0, <1>2, <2>2 DEF Filed, Submission
    <3>3. \A r, s \in reports' : r.request = s.request => r = s
      BY <1>0, <1>2, <2>2 DEF Filed, NonceIsStored
    <3>4. \A e \in Deliveries : job'[e].now <= clock'
      BY <1>0, <2>1 DEF Filed, Turn, ReportsTypeOK
    <3> QED BY <3>1, <3>2, <3>3, <3>4 DEF Filed
  <2>5. Spent'
    BY <1>0, <2>1, StillSpent
  <2>6. Progress(d)'
    <3>1. ~Enforced(d)' /\ ~Announced("security.report.accepted", d)'
      BY <1>0 DEF Progress, Enforced, Announced, Ended
    <3>2. v.accepted => \E r \in reports' : r.id = d /\ r.queue # "rejected" /\ r.state = job[d].state
      BY <1>2, <2>0, <2>2
    <3>3. reply[d] = "none"
      BY <1>0 DEF Progress
    <3> QED BY <2>1, <3>1, <3>2, <3>3 DEF Progress, Stored
  <2>7. \A e \in Deliveries : Progress(e)'
    BY <1>0, <1>2, <2>1, <2>6, OthersProgress DEF ReportsInv
  <2>8. Folded'
    <3>1. \A e \in Deliveries : job'[e].pc = "project" => job[e].pc = "project" /\ job'[e].list = job[e].list
      BY <2>1 DEF Turn
    <3>2. \A e \in Deliveries : job'[e].pc \notin {"list", "project"} => job[e].pc \notin {"list", "project"}
      BY <1>0, <2>1 DEF Turn
    <3> QED BY <1>0, <3>1, <3>2 DEF Folded
  <2>9. PermanentBlockIsCorroborated'
    BY <1>0, <1>2, <2>4, BlocksStand DEF PermanentBlockIsCorroborated, Filed
  <2> QED BY <2>3, <2>4, <2>5, <2>7, <2>8, <2>9 DEF ReportsInv
<1> QED BY <1>1, <1>2 DEF AppendReport

LEMMA AppendActionStep ==
  ASSUME ReportsInv, NEW d \in Deliveries, AppendAction(d)
  PROVE  ReportsInv'
<1> USE ReportsAssumption
<1> DEFINE row == ActionRow(d)
<1>0. /\ ReportsTypeOK /\ Filed /\ Spent /\ Folded /\ PermanentBlockIsCorroborated
      /\ Progress(d) /\ job[d].pc = "enforce" /\ job[d] \in Submission
      /\ actions' = actions \cup {row} /\ overtaken' = (overtaken \/ Listed # {})
      /\ Goto(d, "list")
      /\ UNCHANGED <<clock, claim, stamp, nonces, reports, projection, outbox, budget, review>>
  BY DEF AppendAction, ReportsInv, ReportsTypeOK
<1>1. /\ Turn(d) /\ reply' = reply /\ job'[d].pc = "list" /\ job'[d].now = job[d].now
      /\ job'[d].state = job[d].state
  BY <1>0, GotoTurn DEF Pcs
<1>2. job[d].state \in Reported \ {"none"} /\ job[d].now \in Nat /\ clock \in Nat
  BY <1>0 DEF Progress, Submission, ReportsTypeOK
<1>3. row \in Action /\ row.id = d /\ row.state = job[d].state
  BY <1>2 DEF ActionRow, Action, Reported
<1> HIDE DEF row
<1>4. ReportsTypeOK'
  <2>1. overtaken' \in BOOLEAN
    BY <1>0
  <2> QED BY <1>0, <1>1, <1>3, <2>1 DEF ReportsTypeOK, Turn
<1>5. Filed'
  BY <1>0, <1>1 DEF Filed, Turn
<1>6. Spent'
  BY <1>0, <1>1, StillSpent
<1>7. Progress(d)'
  <2>1. Enforced(d)'
    BY <1>0, <1>3 DEF Enforced
  <2>2. Stored(d, job[d].state)'
    BY <1>0, <1>1 DEF Progress, Stored
  <2>3. ~Announced("security.report.accepted", d)' /\ reply[d] = "none"
    BY <1>0 DEF Progress, Announced, Ended
  <2> QED BY <1>1, <1>2, <2>1, <2>2, <2>3 DEF Progress
<1>8. \A e \in Deliveries : Progress(e)'
  BY <1>0, <1>1, <1>3, <1>7, OthersProgress DEF ReportsInv
<1>9. Folded'
  <2>1. ~overtaken' => \A e \in Deliveries : job'[e].pc # "project"
    BY <1>0, <1>1 DEF Listed, Turn
  <2> QED BY <1>1, <2>1 DEF Folded
<1>10. PermanentBlockIsCorroborated'
  BY <1>0, <1>2, <1>3 DEF PermanentBlockIsCorroborated, Reported
<1> QED BY <1>4, <1>5, <1>6, <1>8, <1>9, <1>10 DEF ReportsInv

LEMMA ListActionsStep ==
  ASSUME ReportsInv, NEW d \in Deliveries, ListActions(d)
  PROVE  ReportsInv'
<1>0. /\ ReportsTypeOK /\ Filed /\ Spent /\ Folded /\ PermanentBlockIsCorroborated
      /\ Progress(d) /\ job[d].pc = "list" /\ job[d] \in Submission
      /\ job' = [job EXCEPT ![d].pc = "project", ![d].list = actions]
      /\ UNCHANGED <<clock, claim, stamp, nonces, reports, actions, projection, outbox, reply,
                     budget, review, overtaken>>
  BY DEF ListActions, ReportsInv, ReportsTypeOK
<1>1. /\ Turn(d) /\ job'[d].pc = "project" /\ job'[d].now = job[d].now
      /\ job'[d].state = job[d].state /\ job'[d].list = actions
  BY <1>0 DEF ReportsTypeOK, Submission, Pcs, Turn
<1>2. ReportsTypeOK'
  BY <1>0, <1>1 DEF ReportsTypeOK, Turn
<1>3. Filed'
  BY <1>0, <1>1 DEF Filed, Turn
<1>4. Spent'
  BY <1>0, <1>1, StillSpent
<1>5. Progress(d)'
  BY <1>0, <1>1 DEF Progress, Stored, Enforced, Announced, Ended
<1>6. \A e \in Deliveries : Progress(e)'
  BY <1>0, <1>1, <1>5, OthersProgress DEF ReportsInv
<1>7. Folded'
  BY <1>0, <1>1 DEF Folded, Turn
<1>8. PermanentBlockIsCorroborated'
  BY <1>0 DEF PermanentBlockIsCorroborated
<1> QED BY <1>2, <1>3, <1>4, <1>6, <1>7, <1>8 DEF ReportsInv

LEMMA UpsertProjectionStep ==
  ASSUME ReportsInv, NEW d \in Deliveries, UpsertProjection(d)
  PROVE  ReportsInv'
<1>0. /\ ReportsTypeOK /\ Filed /\ Spent /\ Folded /\ PermanentBlockIsCorroborated
      /\ Progress(d) /\ job[d].pc = "project" /\ job[d] \in Submission
      /\ job' = [job EXCEPT ![d].pc = "publish", ![d].list = {}]
      /\ projection' = [state |-> Project(job[d].list, job[d].now), at |-> job[d].now]
      /\ overtaken' = (Stale # {})
      /\ UNCHANGED <<clock, claim, stamp, nonces, reports, actions, outbox, reply,
                     budget, review>>
  BY DEF UpsertProjection, ReportsInv, ReportsTypeOK
<1>1. /\ Turn(d) /\ job'[d].pc = "publish" /\ job'[d].now = job[d].now
      /\ job'[d].state = job[d].state
  BY <1>0 DEF ReportsTypeOK, Submission, Pcs, Turn
<1>2. ReportsTypeOK'
  <2>1. overtaken' \in BOOLEAN
    BY <1>0
  <2> QED BY <1>0, <1>1, <2>1 DEF ReportsTypeOK, Turn
<1>3. Filed'
  BY <1>0, <1>1 DEF Filed, Turn
<1>4. Spent'
  BY <1>0, <1>1, StillSpent
<1>5. Progress(d)'
  BY <1>0, <1>1 DEF Progress, Stored, Enforced, Announced, Ended
<1>6. \A e \in Deliveries : Progress(e)'
  BY <1>0, <1>1, <1>5, OthersProgress DEF ReportsInv
<1>7. Folded'
  <2> SUFFICES ASSUME ~overtaken' PROVE Folded'
    BY DEF Folded
  <2>1. \A e \in Deliveries : job[e].pc = "project" => job[e].list = actions
    BY <1>0 DEF Stale, Listed
  <2>2. projection'.state = Project(actions, projection'.at)
    BY <1>0, <2>1
  <2> QED BY <1>0, <1>1, <2>1, <2>2 DEF Folded, Turn
<1>8. PermanentBlockIsCorroborated'
  BY <1>0 DEF PermanentBlockIsCorroborated
<1> QED BY <1>2, <1>3, <1>4, <1>6, <1>7, <1>8 DEF ReportsInv

LEMMA PublishAcceptedStep ==
  ASSUME ReportsInv, NEW d \in Deliveries, PublishAccepted(d)
  PROVE  ReportsInv'
<1>0. /\ ReportsTypeOK /\ Filed /\ Spent /\ Progress(d) /\ job[d].pc = "publish"
      /\ job[d] \in Submission
      /\ outbox' = outbox \cup {<<"security.report.accepted", d>>}
      /\ UNCHANGED <<clock, claim, stamp, nonces, reports, actions, projection, budget,
                     review, overtaken>>
  BY DEF PublishAccepted, Announce, ReportsInv, ReportsTypeOK
<1>1. Announced("security.report.accepted", d)'
  BY <1>0 DEF Announced
<1>2. /\ reply[d] = "none" /\ Stored(d, job[d].state) /\ job[d].state \in Reported
      /\ job[d].state # "none" => Enforced(d)
  BY <1>0 DEF Progress, Submission
<1>3. CASE Answered(d, "accepted") /\ job[d].state = "none"
  <2>1. /\ Turn(d) /\ reply'[d] = "accepted" /\ job'[d].pc = "done" /\ job'[d].now = 0
        /\ job'[d].state = "none"
    BY <1>0, <1>3, AnsweredTurn DEF Answers
  <2>2. ReportsTypeOK'
    BY <1>0, <2>1 DEF ReportsTypeOK, Turn
  <2>3. Progress(d)'
    <3>1. Whole(d, "none")'
      BY <1>0, <1>2, <1>3 DEF Whole, Stored
    <3> QED BY <1>1, <2>1, <3>1 DEF Progress, Reported, Ended
  <2>4. Spent'
    BY <1>0, <2>1, StillSpent
  <2> QED BY <1>0, <2>1, <2>2, <2>3, <2>4, QuietTurn DEF ReportsTypeOK
<1>4. CASE Goto(d, "announce") /\ job[d].state # "none"
  <2>1. /\ Turn(d) /\ reply' = reply /\ job'[d].pc = "announce" /\ job'[d].now = job[d].now
        /\ job'[d].state = job[d].state
    BY <1>0, <1>4, GotoTurn DEF Pcs
  <2>2. ReportsTypeOK'
    BY <1>0, <2>1 DEF ReportsTypeOK, Turn
  <2>3. Progress(d)'
    <3>1. Stored(d, job[d].state)' /\ Enforced(d)'
      BY <1>0, <1>2, <1>4, <2>1 DEF Stored, Enforced
    <3> QED BY <1>1, <1>2, <1>4, <2>1, <3>1 DEF Progress
  <2>4. Spent'
    BY <1>0, <2>1, StillSpent
  <2>5. job'[d].now <= clock
    BY <1>0, <2>1 DEF Filed
  <2> QED BY <1>0, <2>1, <2>2, <2>3, <2>4, <2>5, QuietTurn
<1> QED BY <1>3, <1>4 DEF PublishAccepted

LEMMA PublishRecomputeStep ==
  ASSUME ReportsInv, NEW d \in Deliveries, PublishRecompute(d)
  PROVE  ReportsInv'
<1>0. /\ ReportsTypeOK /\ Filed /\ Spent /\ Progress(d) /\ job[d].pc = "announce"
      /\ job[d] \in Submission
      /\ outbox' = outbox \cup {<<"security.enforcement.recompute.requested", d>>}
      /\ Answered(d, "accepted")
      /\ UNCHANGED <<clock, claim, stamp, nonces, reports, actions, projection, budget,
                     review, overtaken>>
  BY DEF PublishRecompute, Announce, ReportsInv, ReportsTypeOK
<1>1. /\ Turn(d) /\ reply'[d] = "accepted" /\ job'[d].pc = "done" /\ job'[d].now = 0
      /\ job'[d].state = "none"
  BY <1>0, AnsweredTurn DEF Answers
<1>2. ReportsTypeOK'
  BY <1>0, <1>1 DEF ReportsTypeOK, Turn
<1>3. Progress(d)'
  <2>1. PICK state \in Reported : state = job[d].state
    BY <1>0 DEF Submission
  <2>2. Stored(d, state) /\ Enforced(d) /\ Announced("security.report.accepted", d)
    BY <1>0, <2>1 DEF Progress
  <2>3. /\ Enforced(d)' /\ Announced("security.report.accepted", d)'
        /\ Announced("security.enforcement.recompute.requested", d)'
    BY <1>0, <2>2 DEF Enforced, Announced
  <2>4. Stored(d, state)'
    BY <1>0, <2>2 DEF Stored
  <2>5. Whole(d, state)'
    BY <2>3, <2>4 DEF Whole
  <2> QED BY <1>1, <2>3, <2>5 DEF Progress, Ended
<1>4. Spent'
  BY <1>0, <1>1, StillSpent
<1> QED BY <1>0, <1>1, <1>2, <1>3, <1>4, QuietTurn DEF ReportsTypeOK

LEMMA CutStep ==
  ASSUME ReportsInv, NEW d \in Deliveries, Cut(d)
  PROVE  ReportsInv'
<1>0. /\ ReportsTypeOK /\ Filed /\ Spent /\ Progress(d) /\ PermanentBlockIsCorroborated
      /\ job[d].pc \notin {"new", "done"}
      /\ budget.cuts > 0 /\ budget' = [budget EXCEPT !.cuts = @ - 1]
      /\ Answered(d, "error") /\ overtaken' = (overtaken \/ job[d].pc \in {"list", "project"})
      /\ UNCHANGED <<clock, claim, stamp, nonces, reports, actions, projection, outbox, review>>
  BY DEF Cut, ReportsInv
<1>1. /\ Turn(d) /\ reply'[d] = "error" /\ job'[d].pc = "done" /\ job'[d].now = 0
      /\ job'[d].state = "none"
  BY <1>0, AnsweredTurn DEF Answers
<1>2. ReportsTypeOK'
  <2>1. budget' \in [ticks : Nat, deliveries : Nat, cuts : Nat, promotions : Nat]
    BY <1>0 DEF ReportsTypeOK
  <2>2. overtaken' \in BOOLEAN
    BY <1>0
  <2> QED BY <1>0, <1>1, <2>1, <2>2 DEF ReportsTypeOK, Turn
<1>3. Progress(d)'
  BY <1>0, <1>1 DEF Progress, Stored, Enforced, Announced, Ended
<1>4. Spent'
  BY <1>0, <1>1, StillSpent
<1>5. CASE job[d].pc \in {"list", "project"}
  <2>1. Filed'
    BY <1>0, <1>1 DEF Filed, Turn, ReportsTypeOK
  <2>2. \A e \in Deliveries : Progress(e)'
    BY <1>0, <1>1, <1>3, OthersProgress DEF ReportsInv
  <2>3. Folded'
    BY <1>0, <1>5 DEF Folded
  <2>4. PermanentBlockIsCorroborated'
    BY <1>0 DEF PermanentBlockIsCorroborated
  <2> QED BY <1>2, <1>4, <2>1, <2>2, <2>3, <2>4 DEF ReportsInv
<1>6. CASE job[d].pc \notin {"list", "project"}
  <2>1. overtaken' = overtaken
    BY <1>0, <1>6 DEF ReportsTypeOK
  <2> QED BY <1>0, <1>1, <1>2, <1>3, <1>4, <1>6, <2>1, QuietTurn DEF ReportsTypeOK
<1> QED BY <1>5, <1>6

-------------------------------------------------------------------------------
(* The other steps *)

\* A step that is no delivery's turn, and writes no row of a delivery.
LEMMA Bystanders ==
  ASSUME ReportsInv, UNCHANGED <<job, reply, reports, outbox>>, actions \subseteq actions',
         \A a \in actions' \ actions : a.id \notin Deliveries
  PROVE  \A d \in Deliveries : Progress(d)'
<1> SUFFICES ASSUME NEW d \in Deliveries PROVE Progress(d)'
  OBVIOUS
<1>1. Enforced(d)' <=> Enforced(d)
  BY DEF Enforced
<1>2. \A state : Stored(d, state)' <=> Stored(d, state)
  BY DEF Stored
<1>3. \A event : Announced(event, d)' <=> Announced(event, d)
  BY DEF Announced
<1>4. \A state : Whole(d, state)' <=> Whole(d, state)
  BY <1>1, <1>2, <1>3 DEF Whole
<1>5. Progress(d)
  BY DEF ReportsInv
<1> QED BY <1>1, <1>2, <1>3, <1>4, <1>5 DEF Progress

\* ... and leaves the tables of the folds and the promotions alone.
LEMMA QuietStepOfOthers ==
  ASSUME ReportsInv, ReportsTypeOK',
         UNCHANGED <<nonces, reports, actions, projection, outbox, job, reply, overtaken>>,
         clock' >= clock
  PROVE  ReportsInv'
<1>1. \A d \in Deliveries : Progress(d)'
  BY Bystanders
<1>2. Filed'
  <2>1. clock \in Nat /\ clock' \in Nat /\ \A d \in Deliveries : job[d].now \in Nat
    BY DEF ReportsInv, ReportsTypeOK, Submission
  <2> QED BY <2>1 DEF ReportsInv, Filed
<1>3. Spent'
  BY DEF ReportsInv, Spent
<1>4. Folded'
  BY DEF ReportsInv, Folded
<1>5. PermanentBlockIsCorroborated'
  BY DEF ReportsInv, PermanentBlockIsCorroborated
<1> QED BY <1>1, <1>2, <1>3, <1>4, <1>5 DEF ReportsInv

LEMMA PromoteStep == ASSUME ReportsInv, Promote PROVE ReportsInv'
<1> USE ReportsAssumption
<1>0. /\ ReportsTypeOK /\ Filed /\ Spent /\ Folded /\ PermanentBlockIsCorroborated
      /\ Eligible(reports, clock) /\ overtaken' = (Listed # {})
      /\ projection' = [state |-> "policy_blocked_perm", at |-> review.at]
      /\ review' = [pc |-> "idle", at |-> 0]
      /\ UNCHANGED <<clock, claim, stamp, nonces, reports, outbox, job, reply, budget>>
      /\ clock \in Nat /\ review.at \in Nat /\ budget.promotions \in Nat
  BY DEF Promote, MayPromote, ReportsInv, ReportsTypeOK
<1>1. PICK row : /\ actions' = actions \cup {row}
                 /\ row = [id |-> <<"perm", budget.promotions>>, state |-> "policy_blocked_perm",
                           at |-> review.at, expires |-> 0, made |-> clock]
  BY DEF Promote
<1>2. /\ row.id = <<"perm", budget.promotions>> /\ row.state = "policy_blocked_perm"
      /\ row.expires = 0 /\ row.made = clock
  BY <1>1
<1>3. row \in Action
  BY <1>0, <1>1 DEF Action
<1>4. row.id \notin Deliveries
  BY <1>2 DEF Deliveries
<1>5. ReportsTypeOK'
  <2>1. review' \in [pc : {"idle", "promote"}, at : Nat] /\ overtaken' \in BOOLEAN
    BY <1>0
  <2> QED BY <1>0, <1>1, <1>3, <2>1 DEF ReportsTypeOK
<1>6. \A d \in Deliveries : Progress(d)'
  BY <1>0, <1>1, <1>4, Bystanders
<1>7. Filed' /\ Spent'
  BY <1>0 DEF Filed, Spent
<1>8. Folded'
  <2> SUFFICES ASSUME ~overtaken'
               PROVE  /\ \A d \in Deliveries : job[d].pc # "project"
                      /\ Project(actions', review.at) = "policy_blocked_perm"
    BY <1>0 DEF Folded
  <2>1. \A d \in Deliveries : job[d].pc # "project"
    BY <1>0 DEF Listed
  <2> DEFINE S == InForce(actions', review.at)
             strongest(a) == \A b \in S : Precedence[a.state] <= Precedence[b.state]
  <2>2. row \in S
    BY <1>1, <1>2 DEF InForce
  <2>3. \A a \in S : a.state \in {"flagged", "policy_blocked_temp", "policy_blocked_perm"}
    BY <1>0, <1>1, <1>3 DEF InForce, ReportsTypeOK, Action
  <2>4. \A a \in S : /\ Precedence[a.state] \in Nat
                     /\ Precedence[a.state] <= 0 => a.state = "policy_blocked_perm"
    BY <2>3 DEF Precedence
  <2>5. Precedence[row.state] = 0
    BY <1>2 DEF Precedence
  <2>6. strongest(row)
    BY <2>4, <2>5
  <2> HIDE DEF S
  <2> DEFINE x == CHOOSE a \in S : strongest(a)
  <2>7. x \in S /\ strongest(x)
    BY <2>2, <2>6
  <2>8. x.state = "policy_blocked_perm"
    BY <2>2, <2>4, <2>5, <2>7
  <2>9. S # {} /\ Project(actions', review.at) = x.state
    BY <2>2 DEF Project, S
  <2> QED BY <2>1, <2>8, <2>9
<1>9. PermanentBlockIsCorroborated'
  <2> SUFFICES ASSUME NEW a \in actions', a.state = "policy_blocked_perm"
               PROVE  Eligible({r \in reports : r.at <= a.made}, a.made)
    BY <1>0 DEF PermanentBlockIsCorroborated
  <2>1. CASE a = row
    <3>1. {r \in reports : r.at <= clock} = reports
      BY <1>0 DEF Filed
    <3> QED BY <1>0, <1>2, <2>1, <3>1
  <2>2. CASE a \in actions
    BY <1>0, <2>2 DEF PermanentBlockIsCorroborated
  <2> QED BY <1>1, <2>1, <2>2
<1> QED BY <1>5, <1>6, <1>7, <1>8, <1>9 DEF ReportsInv

LEMMA QuietOthersStep ==
  ASSUME ReportsInv,
         \/ UNCHANGED reportVars \/ Tick \/ ValidatePromotion \/ RefusePromotion
         \/ \E q \in Requests : Sign(q)
  PROVE  ReportsInv'
<1> USE ReportsAssumption
<1>0. ReportsTypeOK /\ clock \in Nat
  BY DEF ReportsInv, ReportsTypeOK
<1>1. CASE UNCHANGED reportVars
  <2>1. ReportsTypeOK' /\ clock' >= clock
    BY <1>0, <1>1 DEF reportVars, ReportsTypeOK
  <2> QED BY <1>1, <2>1, QuietStepOfOthers DEF reportVars
<1>2. CASE Tick
  <2>1. ReportsTypeOK' /\ clock' >= clock
    BY <1>0, <1>2 DEF Tick, ReportsTypeOK
  <2> QED BY <1>2, <2>1, QuietStepOfOthers DEF Tick
<1>3. CASE ValidatePromotion
  <2>1. review' \in [pc : {"idle", "promote"}, at : Nat] /\ budget.promotions - 1 \in Nat
    BY <1>0, <1>3 DEF ValidatePromotion, ReportsTypeOK
  <2>2. ReportsTypeOK' /\ clock' >= clock
    BY <1>0, <1>3, <2>1 DEF ValidatePromotion, ReportsTypeOK
  <2> QED BY <1>3, <2>2, QuietStepOfOthers DEF ValidatePromotion
<1>4. CASE RefusePromotion
  <2>1. review' \in [pc : {"idle", "promote"}, at : Nat]
    BY <1>4 DEF RefusePromotion
  <2>2. ReportsTypeOK' /\ clock' >= clock
    BY <1>0, <1>4, <2>1 DEF RefusePromotion, ReportsTypeOK
  <2> QED BY <1>4, <2>2, QuietStepOfOthers DEF RefusePromotion
<1>5. ASSUME NEW q \in Requests, Sign(q) PROVE ReportsInv'
  <2>1. PICK c \in Claims, t \in clock..clock + Skew :
          claim' = [claim EXCEPT ![q] = c] /\ stamp' = [stamp EXCEPT ![q] = t]
    BY <1>5 DEF Sign
  <2>2. ReportsTypeOK' /\ clock' >= clock
    BY <1>0, <1>5, <2>1 DEF Sign, ReportsTypeOK
  <2> QED BY <1>5, <2>2, QuietStepOfOthers DEF Sign
<1> QED BY <1>1, <1>2, <1>3, <1>4, <1>5

LEMMA ReportsStep == ReportsInv /\ [Next]_vars => ReportsInv'
<1> SUFFICES ASSUME ReportsInv, [Next]_vars PROVE ReportsInv'
  OBVIOUS
<1>1. CASE UNCHANGED vars
  BY <1>1, QuietOthersStep DEF vars
<1>2. ASSUME NEW d \in Deliveries, Submit(d) PROVE ReportsInv'
  BY <1>2, ReceiveStep, CheckNonceStep, PutNonceStep, ResolveRolloutStep, AppendReportStep,
     AppendActionStep, ListActionsStep, UpsertProjectionStep, PublishAcceptedStep,
     PublishRecomputeStep, CutStep DEF Submit
<1>3. CASE Promote
  BY <1>3, PromoteStep
<1> QED BY <1>1, <1>2, <1>3, QuietOthersStep DEF Next

LEMMA ReportsInit == Init => ReportsInv
<1> SUFFICES ASSUME Init PROVE ReportsInv
  OBVIOUS
<1> USE ReportsAssumption
<1>1. PICK b \in Budgets :
        budget = [ticks |-> b.ticks, deliveries |-> b.deliveries, cuts |-> b.cuts,
                  promotions |-> b.promotions]
  BY DEF Init
<1>2. /\ clock = 1 /\ claim = [q \in Requests |-> Unsigned] /\ stamp = [q \in Requests |-> 0]
      /\ nonces = [q \in Requests |-> 0] /\ reports = {} /\ actions = {} /\ outbox = {}
      /\ projection = [state |-> "none", at |-> 0] /\ job = [d \in Deliveries |-> NewJob]
      /\ reply = [d \in Deliveries |-> "none"] /\ review = [pc |-> "idle", at |-> 0]
      /\ overtaken = FALSE
  BY DEF Init
<1>3. NewJob \in Submission /\ NewJob.pc = "new" /\ NewJob.now = 0 /\ NewJob.state = "none"
  BY DEF NewJob, Submission, Pcs, Reported
<1>4. ReportsTypeOK
  <2>1. budget \in [ticks : Nat, deliveries : Nat, cuts : Nat, promotions : Nat]
    BY <1>1
  <2>2. review \in [pc : {"idle", "promote"}, at : Nat] /\ reply \in [Deliveries -> Answers]
    BY <1>2 DEF Answers
  <2> QED BY <1>2, <1>3, <2>1, <2>2 DEF ReportsTypeOK
<1>5. Filed /\ Spent
  BY <1>2, <1>3, FS_EmptySet DEF Filed, Spent
<1>6. \A d \in Deliveries : Progress(d)
  BY <1>2, <1>3 DEF Progress, Stored, Enforced, Announced, Ended
<1>7. Folded
  BY <1>2, <1>3 DEF Folded, Project, InForce
<1>8. PermanentBlockIsCorroborated
  BY <1>2 DEF PermanentBlockIsCorroborated
<1> QED BY <1>4, <1>5, <1>6, <1>7, <1>8 DEF ReportsInv

LEMMA ReportsAreInvariant == Spec => []ReportsInv
BY ReportsInit, ReportsStep, PTL DEF Spec

-------------------------------------------------------------------------------
(* The trust gates under the reports *)

\* The decisions that have passed before a behaviour begins are as many as were passed.
LEMMA PastPasses ==
  ASSUME NEW n \in 0..MaxEvaluations, NEW id \in Injection(1..n, RunIds)
  PROVE  /\ Past(n, id) \subseteq Decision
         /\ IsFiniteSet(Past(n, id)) /\ Cardinality(Past(n, id)) <= n
         /\ \A d \in Past(n, id) : d.at \in 1..n
         /\ \A d, e \in Past(n, id) : d.at = e.at => d = e
<1> USE GatesAssumption
<1> DEFINE row == [i \in 1..n |-> [run |-> id[i], window |-> IF i < NumWindows THEN i ELSE NumWindows,
                                   at |-> i, fp |-> TRUE, ap |-> TRUE]]
<1>1. n \in Nat /\ \A i \in 1..n : id[i] \in RunIds
  BY DEF Injection
<1>2. Past(n, id) = {row[i] : i \in 1..n}
  BY DEF Past
<1>3. \A i \in 1..n : (IF i < NumWindows THEN i ELSE NumWindows) \in 1..NumWindows
  BY <1>1
<1>4. \A i \in 1..n : row[i] \in Decision
  BY <1>1, <1>3 DEF Decision, Windows
<1>5. \A i \in 1..n : row[i].at = i
  OBVIOUS
<1>6. IsFiniteSet(1..n) /\ Cardinality(1..n) = n
  BY <1>1, FS_Interval
<1>7. row \in Surjection(1..n, {row[i] : i \in 1..n})
  BY DEF Surjection
<1> HIDE DEF row
<1>8. IsFiniteSet({row[i] : i \in 1..n}) /\ Cardinality({row[i] : i \in 1..n}) <= n
  BY <1>6, <1>7, FS_Surjection
<1> QED BY <1>2, <1>4, <1>5, <1>8

LEMMA GatesHoldAtInit == Init => GatesInv
<1> SUFFICES ASSUME Init PROVE GatesInv
  OBVIOUS
<1> USE GatesAssumption
<1>0. PICK b \in Budgets :
        /\ rollout = Earned(b.passed)
        /\ \E id \in Injection(1..b.passed, RunIds) : decisions = Past(b.passed, id)
        /\ started = MaxEvaluations - b.evaluations /\ passes = b.passed
  BY DEF Init
<1> DEFINE n == b.passed
<1>1. PICK id \in Injection(1..n, RunIds) :
        /\ rollout = Earned(n) /\ decisions = Past(n, id)
        /\ started = MaxEvaluations - b.evaluations /\ passes = n
  BY <1>0
<1>2. b.evaluations \in Nat /\ n \in Int /\ n >= 0 /\ b.evaluations + n <= MaxEvaluations
  BY ReportsAssumption
<1>3. n \in 0..MaxEvaluations /\ started \in Nat /\ n <= started /\ passes \in Nat
  BY <1>1, <1>2
<1>4. eval = [v \in Evaluators |-> Asleep]
  BY DEF Init
<1>5. rollout \in Rollout
  BY <1>1 DEF Earned, Rollout, Modes
<1>6. decisions \subseteq Decision
  BY <1>1, <1>3, PastPasses
<1>7. GatesTypeOK
  BY <1>3, <1>4, <1>5, <1>6 DEF GatesTypeOK
<1>8. Ordered
  <2>1. IsFiniteSet(decisions) /\ \A d, e \in decisions : d.at = e.at => d = e
    BY <1>1, <1>3, PastPasses
  <2>2. \A d \in decisions : d.at \in 1..n
    BY <1>1, <1>3, PastPasses
  <2>3. \A d \in decisions : d.at <= started
    BY <1>2, <1>3, <2>2
  <2> QED BY <1>4, <2>1, <2>3 DEF Ordered, Asleep
<1>9. Cardinality(Passing) <= passes
  <2>1. IsFiniteSet(decisions) /\ Cardinality(decisions) <= n
    BY <1>1, <1>3, PastPasses
  <2>2. Passing \subseteq decisions
    BY DEF Passing
  <2>3. /\ Cardinality(Passing) <= Cardinality(decisions)
        /\ Cardinality(Passing) \in Nat /\ Cardinality(decisions) \in Nat
    BY <2>1, <2>2, FS_Subset, FS_CardinalityType
  <2> QED BY <1>1, <1>2, <2>1, <2>3
<1>10. EnforcementIsEarned
  BY <1>1, <1>2 DEF Earned, EnforcementIsEarned
<1>11. \A v \in Evaluators : Earning(eval[v])
  BY <1>4 DEF Earning, Asleep
<1> QED BY <1>7, <1>8, <1>9, <1>10, <1>11 DEF GatesInv

\* No submission and no promotion touches the gates.
LEMMA GatesKept == [Next]_vars => [GatesNext]_gateVars
<1> SUFFICES ASSUME [Next]_vars PROVE [GatesNext]_gateVars
  OBVIOUS
<1>1. ASSUME NEW d \in Deliveries, Submit(d) PROVE UNCHANGED gateVars
  BY <1>1 DEF Submit, Receive, CheckNonce, PutNonce, ResolveRollout, AppendReport, AppendAction,
     ListActions, UpsertProjection, PublishAccepted, PublishRecompute, Cut
<1>2. ASSUME NEW q \in Requests, Sign(q) PROVE UNCHANGED gateVars
  BY <1>2 DEF Sign
<1>3. CASE Tick \/ ValidatePromotion \/ Promote \/ RefusePromotion
  BY <1>3 DEF Tick, ValidatePromotion, Promote, RefusePromotion
<1> QED BY <1>1, <1>2, <1>3 DEF Next, vars

-------------------------------------------------------------------------------
(* The theorems about the reports *)

\* Enforcement is never wider than the gates have earned while reports come in and are
\* judged by the row the gates write, from any number of evaluations that passed before.
THEOREM EnforcementStaysEarned == Spec => []EnforcementIsEarned
<1>1. GatesInv => EnforcementIsEarned
  BY DEF GatesInv
<1> QED BY <1>1, GatesHoldAtInit, GatesKept, GatesStep, PTL DEF Spec

\* A signed request is stored, and accepted, at most once, however often and concurrently
\* it is delivered.
THEOREM StoresOncePerRequest == Spec => []StoredOncePerRequest
<1>1. ASSUME ReportsInv PROVE StoredOncePerRequest
  <2> SUFFICES ASSUME NEW q \in Requests
               PROVE  /\ Cardinality({r \in reports : r.request = q}) <= 1
                      /\ Cardinality({d \in Deliveries : d[1] = q /\ reply[d] = "accepted"}) <= 1
    BY DEF StoredOncePerRequest
  <2>1. \A S : (\A x, y \in S : x = y) => Cardinality(S) <= 1
    <3> SUFFICES ASSUME NEW S, \A x, y \in S : x = y PROVE Cardinality(S) <= 1
      OBVIOUS
    <3>1. CASE S = {}
      BY <3>1, FS_EmptySet
    <3>2. ASSUME NEW x \in S PROVE Cardinality(S) <= 1
      <4>1. S = {x}
        OBVIOUS
      <4> QED BY <4>1, FS_Singleton
    <3> QED BY <3>1, <3>2
  <2>2. \A r, s \in reports : r.request = s.request => r = s
    BY <1>1 DEF ReportsInv, Filed
  <2>3. \A d \in Deliveries : reply[d] = "accepted" => \E r \in reports : r.id = d /\ r.request = d[1]
    BY <1>1 DEF ReportsInv, Filed, Progress, Whole, Stored
  <2>4. \A d, e \in Deliveries :
          d[1] = e[1] /\ reply[d] = "accepted" /\ reply[e] = "accepted" => d = e
    BY <2>2, <2>3
  <2> QED BY <2>1, <2>2, <2>4
<1> QED BY <1>1, ReportsAreInvariant, PTL

\* An accepted report is stored, enforced and announced; a refused one enforces and
\* announces nothing; a replayed one was delivered before.
THEOREM AnswersStayTrue == Spec => []AnswersAreTrue
<1>1. ASSUME ReportsInv PROVE AnswersAreTrue
  <2> SUFFICES ASSUME NEW d \in Deliveries
               PROVE  /\ reply[d] = "accepted" =>
                           \E r \in {s \in reports : s.id = d} :
                             /\ r.queue # "rejected"
                             /\ Announced("security.report.accepted", d)
                             /\ r.state # "none" =>
                                  /\ Enforced(d)
                                  /\ Announced("security.enforcement.recompute.requested", d)
                      /\ reply[d] \notin {"none", "accepted", "error"} =>
                           ~Enforced(d) /\ ~Announced("security.report.accepted", d)
                      /\ reply[d] = "nonce_replayed" =>
                           \E e \in Deliveries \ {d} : e[1] = d[1] /\ job[e].pc # "new"
    BY DEF AnswersAreTrue, Enforced, Announced
  <2>0. Progress(d)
    BY <1>1 DEF ReportsInv
  <2>1. ASSUME reply[d] = "accepted"
        PROVE  \E r \in {s \in reports : s.id = d} :
                 /\ r.queue # "rejected"
                 /\ Announced("security.report.accepted", d)
                 /\ r.state # "none" =>
                      /\ Enforced(d)
                      /\ Announced("security.enforcement.recompute.requested", d)
    BY <2>0, <2>1 DEF Progress, Whole, Stored
  <2>2. ASSUME reply[d] \notin {"none", "accepted", "error"}
        PROVE  ~Enforced(d) /\ ~Announced("security.report.accepted", d)
    BY <2>0, <2>2 DEF Progress, Ended
  <2> QED BY <2>0, <2>1, <2>2 DEF Progress
<1> QED BY <1>1, ReportsAreInvariant, PTL

\* A projection row written from a current list is the fold of every action there is, and
\* stays so until an action overtakes a list in use, whatever was overtaken before.
THEOREM ProjectionStaysTheFold == Spec => []ProjectionIsTheFold
<1>1. ReportsInv => ProjectionIsTheFold
  BY DEF ReportsInv, Folded, ProjectionIsTheFold
<1> QED BY <1>1, ReportsAreInvariant, PTL

\* A permanent block rests on two reporters and two keys that were inside the window when
\* it was written.
THEOREM PermanentBlocksAreCorroborated == Spec => []PermanentBlockIsCorroborated
<1>1. ReportsInv => PermanentBlockIsCorroborated
  BY DEF ReportsInv
<1> QED BY <1>1, ReportsAreInvariant, PTL
=============================================================================
