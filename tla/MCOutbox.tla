------------------------------ MODULE MCOutbox ------------------------------
(* Instances of Outbox for TLC. *)
EXTENDS Outbox, TLC

CONSTANTS r1, r2

MCRuns == {r1, r2}
Interchangeable == Permutations(MCRuns)

\* One job the internal dispatcher handles with the ranking sync, one it rejects.
RankingAndUnsupported == [j \in Jobs |-> IF j = 1 THEN "ranking" ELSE "unsupported"]
RankingAndRecorded    == [j \in Jobs |-> IF j = 1 THEN "ranking" ELSE "recorded"]

BothVias     == {"internal", "endpoint"}
InternalOnly == {"internal"}
=============================================================================
