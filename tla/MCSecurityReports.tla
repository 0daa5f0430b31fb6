-------------------------- MODULE MCSecurityReports --------------------------
(* Instances of SecurityReports, with the trust gates it reads, for TLC. *)
EXTENDS SecurityReports, TLC

CONSTANTS q1, q2, v1, v2, a1, a2, a3

TwoRequests   == {q1, q2}
TwoEvaluators == {v1, v2}
ThreeRunIds   == {a1, a2, a3}
Interchangeable ==
  Permutations(TwoRequests) \cup Permutations(TwoEvaluators) \cup Permutations(ThreeRunIds)

\* All gates pass, or one of them fails.
MCMetrics == {m \in [fp : BOOLEAN, ap : BOOLEAN, backlog : BOOLEAN] :
                Cardinality({f \in DOMAIN m : ~m[f]}) <= 1}

TierA == [reporter |-> "ra", key |-> "ka", tier |-> "A", status |-> "active",
          severity |-> "critical", source |-> "raw", evidence |-> TRUE, abuse |-> FALSE,
          wellFormed |-> TRUE, signed |-> TRUE]
TierB == [TierA EXCEPT !.reporter = "rb", !.key = "kb", !.tier = "B", !.source = "curated"]

\* A temporary block, a second reporter's flag, an advisory, and claims refused
\* before the nonce is spent, while it is, and after the report was stored.
MCClaims ==
  {TierA, TierB, [TierA EXCEPT !.tier = "C"], [TierA EXCEPT !.status = "suspended"],
   [TierA EXCEPT !.signed = FALSE], [TierA EXCEPT !.wellFormed = FALSE]}

Bounds(ticks, deliveries, cuts, promotions, evaluations, passed) ==
  [ticks |-> ticks, deliveries |-> deliveries, cuts |-> cuts, promotions |-> promotions,
   evaluations |-> evaluations, passed |-> passed]

\* Three deliveries; two with a cut and a promotion, before and after enforcement
\* widened; one evaluation, and two after one that passed; and a delivery beside an evaluation.
MCBudgets ==
  {Bounds(1, 3, 0, 0, 0, 0), Bounds(1, 2, 1, 1, 0, 0), Bounds(1, 2, 0, 1, 0, 2),
   Bounds(0, 0, 0, 0, 1, 0), Bounds(0, 0, 0, 0, 2, 1), Bounds(0, 1, 0, 0, 1, 2)}
==============================================================================
