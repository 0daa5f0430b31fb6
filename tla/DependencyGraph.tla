--------------------------- MODULE DependencyGraph ---------------------------
(***************************************************************************)
(* The dependency edges of an install request                              *)
(* (packages/shared-contracts/src/dependency-graph.ts): what the resolver  *)
(* takes from them before it sorts.  An edge declares that one package     *)
(* needs another, or would like it, in some version.  Packages are         *)
(* numbers, in the order of their ids as text.                             *)
(***************************************************************************)
EXTENDS Integers, Sequences, FiniteSets

DependencyEdge == [from : Nat, to : Nat, required : BOOLEAN, constraint : STRING]

Pair(edge) == <<edge.from, edge.to>>

\* seenEdges: of several edges for one pair only the first one counts, whether it
\* is required or not.
Counted(edges) == {i \in DOMAIN edges : \A j \in 1..(i - 1) : Pair(edges[j]) # Pair(edges[i])}

Duplicated(edges) == {Pair(edges[i]) : i \in DOMAIN edges \ Counted(edges)}

MissingOrWanted(edges, known) ==                                        \* mutant
  {Pair(edges[i]) : i \in {k \in Counted(edges) : edges[k].to \notin known}}
\* Required packages that the registry does not know.
Missing(edges, known) ==
  {Pair(edges[i]) : i \in {k \in Counted(edges) : edges[k].to \notin known /\ edges[k].required}}

\* buildAdjacency; an optional package that is not known is skipped.
Adjacency(edges, known) ==
  {Pair(edges[i]) : i \in {k \in Counted(edges) : edges[k].to \in known}}

\* collectReachable: breadth first, one more level of neighbours at a time.
Reachable(root, adjacency) ==
  LET visited[n \in 0..Cardinality(adjacency)] ==
        IF n = 0 THEN {root}
        ELSE visited[n - 1] \cup {e[2] : e \in {f \in adjacency : f[1] \in visited[n - 1]}}
  IN visited[Cardinality(adjacency)]

\* buildVersionConflicts: pairs declared with more than one constraint.
Disputed(edges) ==
  {Pair(edges[i]) : i \in {k \in DOMAIN edges : \E j \in DOMAIN edges :
     Pair(edges[j]) = Pair(edges[k]) /\ edges[j].constraint # edges[k].constraint}}
===============================================================================
