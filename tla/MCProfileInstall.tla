---------------------------- MODULE MCProfileInstall ----------------------------
(* Instances of ProfileInstall for TLC. *)
EXTENDS ProfileInstall, TLC

CONSTANTS r1, r2, p1, p2, p3, c1, none

TwoRuns == {r1, r2}
Interchangeable == Permutations(TwoRuns)

\* p3 declares no permissions.
MCPermissions == [p \in {p1, p2, p3} |-> IF p = p3 THEN none ELSE {"network"}]

Open   == [mcp |-> TRUE, allow |-> {}, max |-> 1, denied |-> {}, blockFlagged |-> FALSE]
Narrow == [Open EXCEPT !.allow = {p2}]

Apply(policy, correlation) ==
  [mode |-> "apply_verify", policy |-> policy, correlation |-> correlation]
PlanOnly == [Apply(Open, c1) EXCEPT !.mode = "plan_only"]

Same     == {Apply(Open, c1)}
Other    == Same \cup {Apply(Narrow, c1)}
Apart    == Same \cup {Apply(Open, none)}
MCInputs == Other \cup Apart \cup {PlanOnly}

Listing(p, k, required) == [package |-> p, order |-> k, required |-> required]

One   == {Listing(p1, 1, TRUE)}
Two   == {Listing(p1, 2, TRUE), Listing(p2, 1, TRUE)}
Mixed == {Listing(p1, 1, TRUE), Listing(p2, 2, FALSE), Listing(p3, 3, TRUE)}

\* Refused before or while they are written: a position, or a package, listed twice.
Refused == {{Listing(p1, 1, TRUE), Listing(p2, 1, TRUE)},
            {Listing(p1, 1, TRUE), Listing(p1, 2, TRUE)}}

Bounds(bundles, inputs, n, failures, cuts, changes) ==
  [bundles |-> bundles, inputs |-> inputs, runs |-> n, failures |-> failures,
   cuts |-> cuts, changes |-> changes]

\* Two runs of one package: with the same, another or no correlation id, a statement
\* that throws, a cut, a change of the enforcement; and of three packages, one run or two.
MCScenarios ==
  {Bounds({One} \cup Refused, Same, 2, 1, 0, 0), Bounds({One}, Same, 2, 0, 1, 0),
   Bounds({One}, Other, 2, 0, 0, 0), Bounds({One}, Apart \cup {PlanOnly}, 2, 0, 0, 0),
   Bounds({Two}, Other, 1, 1, 0, 1), Bounds({Mixed}, MCInputs, 1, 1, 1, 0)}
==============================================================================
