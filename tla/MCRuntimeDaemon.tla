--------------------------- MODULE MCRuntimeDaemon ---------------------------
(* Instances of RuntimeDaemon for TLC. *)
EXTENDS RuntimeDaemon

CONSTANTS r1, r2, p1, p2

TwoRuns     == {r1, r2}
TwoPackages == {p1, p2}
=============================================================================
