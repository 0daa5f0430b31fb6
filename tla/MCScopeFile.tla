----------------------------- MODULE MCScopeFile -----------------------------
(* Instances of ScopeFile for TLC. *)
EXTENDS ScopeFile, TLC

CONSTANTS o1, o2, o3, p1, p2

ThreeOps    == {o1, o2, o3}
TwoPackages == {p1, p2}
=============================================================================
