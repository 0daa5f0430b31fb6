------------------------- MODULE MCInstallLifecycle -------------------------
(* Instances of InstallLifecycle for TLC. *)
EXTENDS InstallLifecycle, TLC

CONSTANTS q1, q2, k1

TwoRequests == {q1, q2}
OneKey      == {k1}
NoKeys      == {}
Interchangeable == Permutations(TwoRequests)
=============================================================================
