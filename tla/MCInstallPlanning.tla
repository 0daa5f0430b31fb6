-------------------------- MODULE MCInstallPlanning --------------------------
(* Instances of InstallPlanning for TLC. *)
EXTENDS InstallPlanning, SequencesExt, FiniteSetsExt

Open == [mcp |-> TRUE, allow |-> {}, max |-> 1, denied |-> {}, blockFlagged |-> FALSE]
Write      == <<"write", "lower">>
WriteUpper == <<"write", "upper">>
Read       == <<"read", "lower">>

\* Up to three edges of three known packages and one that is not known, in any order and
\* in two versions, of which the first may be optional (of two edges, both) ...
Edge(from, to, required, constraint) ==
  [from |-> from, to |-> to, required |-> required, constraint |-> constraint]
Edges(needs) == {Edge(f, t, r, "v1") : f \in 1..3, t \in 1..4, r \in needs}
FewEdges ==
  {<<e>> : e \in Edges(BOOLEAN)} \cup (Edges(BOOLEAN) \X Edges(BOOLEAN))
    \cup (Edges(BOOLEAN) \X Edges({TRUE}) \X Edges({TRUE}))
    \cup {<<Edge(1, 2, TRUE, "v1"), Edge(1, 2, r, "v2")>> : r \in BOOLEAN}
\* ... and four or five required edges of four packages.
ManyEdges ==
  {SetToSeq({Edge(p[1], p[2], TRUE, "v1") : p \in S}) :
     S \in UNION {kSubset(k, {p \in (1..4) \X (1..4) : p[1] # p[2]}) : k \in 4..5}}

Plain == [package |-> 1, edges |-> <<>>, known |-> 1..3, policy |-> Open, permissions |-> {Read},
          state |-> "none", trust |-> "trusted", trigger |-> "none"]

AllOwned == [s \in {"workspace", "user_profile", "daemon_default"} |-> "owned"]
GraphCases ==
  {[request |-> [Plain EXCEPT !.edges = e], found |-> AllOwned, supervisor |-> TRUE, edits |-> 0] :
     e \in FewEdges}
    \cup {[request |-> [Plain EXCEPT !.edges = e, !.known = 1..4], found |-> AllOwned,
           supervisor |-> TRUE, edits |-> 0] : e \in ManyEdges}

\* Every policy with every state of the package and of its trust, where no scope, one or
\* all of them can be written ...
Policies == {Open, [Open EXCEPT !.mcp = FALSE], [Open EXCEPT !.allow = {2}],
             [Open EXCEPT !.denied = {Write}], [Open EXCEPT !.max = 0],
             [Open EXCEPT !.blockFlagged = TRUE]}
PolicyCases ==
  {[request |-> [Plain EXCEPT !.policy = p, !.permissions = m, !.state = s, !.trust = t,
                              !.trigger = g],
    found |-> f, supervisor |-> TRUE, edits |-> 0] :
     p \in Policies, m \in {{}, {Write}, {WriteUpper}, {Read, Write}},
     s \in {"none", "flagged", "policy_blocked_temp"}, t \in TrustStates, g \in Triggers,
     f \in {AllOwned, [AllOwned EXCEPT !["workspace"] = "absent", !["daemon_default"] = "foreign"],
           [AllOwned EXCEPT !["workspace"] = "foreign", !["user_profile"] = "absent",
                            !["daemon_default"] = "absent"]}}

\* ... and everything that can be found in the scopes and done to them.
ScopeCases ==
  {[request |-> [Plain EXCEPT !.policy = p], found |-> f, supervisor |-> u, edits |-> 2] :
     p \in {Open, [Open EXCEPT !.mcp = FALSE]}, f \in [Kinds -> {"absent", "owned", "foreign"}],
     u \in BOOLEAN}

AllCases == GraphCases \cup PolicyCases \cup ScopeCases
===============================================================================
