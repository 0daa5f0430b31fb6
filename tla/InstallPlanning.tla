--------------------------- MODULE InstallPlanning ---------------------------
(***************************************************************************)
(* How an install plan is made and what the runtime says of it later       *)
(* (apps/control-plane/src/install-lifecycle.ts, createPlan and            *)
(* verifyPlan).  createPlan evaluates the policy, discovers the scopes,    *)
(* sorts the packages of the request so that dependencies come first, and  *)
(* reports conflicts.  verifyPlan discovers the scopes again and has the   *)
(* runtime judge them with the policy input the plan was made with, by     *)
(* rules of its own.  In between a user may put a file of their own in a   *)
(* scope, or take it away.                                                 *)
(*                                                                         *)
(* The rows of the plan and the keys under which it is made belong to      *)
(* ProfileInstall, the operations on it to InstallLifecycle.               *)
(***************************************************************************)
EXTENDS DependencyGraph, PolicyPreflight, RuntimePipeline

\* What may be asked and where: a request, what is found in each scope to begin with,
\* whether the local supervisor is on, and how many files users still put in scopes or
\* take away (a bound).
CONSTANT Cases

\* Every request names its package among those that are known (createPlan adds it), and
\* lists finitely many permissions.
ASSUME PlanningAssumption ==
  \A c \in Cases :
    /\ c.request.known \subseteq Nat /\ c.request.package \in c.request.known
    /\ c.request.edges \in Seq(DependencyEdge)
    /\ IsFiniteSet(c.request.permissions) /\ c.request.policy.max \in Nat
    /\ c.edits \in Nat

Kinds == {"workspace", "user_profile", "daemon_default"}

VARIABLES
  request,     \* what the client asks for
  found,       \* what discover_scopes finds in each scope
  supervisor,  \* the flag of the local supervisor
  pc,          \* how far createPlan is
  asked,       \* the scopes as createPlan discovers them, and the outcome of the policy
  degree, queue, sorted,   \* localInDegree, queue and sorted of topologicalSort
  plan,        \* the plan
  verdict,     \* of the last verification, with the scopes it discovered
  edits        \* files that may still come or go

sort == <<degree, queue, sorted>>
planningVars == <<request, found, supervisor, pc, asked, sort, plan, verdict, edits>>

Nothing == [none |-> TRUE]

PlanningInit ==
  /\ \E c \in Cases :
       request = c.request /\ found = c.found /\ supervisor = c.supervisor /\ edits = c.edits
  /\ pc = "idle"
  /\ asked = Nothing
  /\ degree = <<>> /\ queue = {} /\ sorted = <<>>
  /\ plan = Nothing
  /\ verdict = Nothing

adjacency == Adjacency(request.edges, request.known)
nodes     == Reachable(request.package, adjacency)

Outcome ==
  Preflight(request.policy, request.package, request.permissions, request.state, FALSE)

\* The request arrives, the policy is evaluated and the scopes are discovered.
Ask ==
  /\ pc = "idle"
  /\ asked' = [found |-> found, outcome |-> Outcome]
  /\ pc' = IF request.edges = <<>> THEN "plan" ELSE "resolve"
  /\ UNCHANGED <<request, found, supervisor, sort, plan, verdict, edits>>

\* resolveDependencyGraph up to the sort: a required package that is not known ends it.
Resolve ==
  /\ pc = "resolve"
  /\ IF Missing(request.edges, request.known) # {}
     THEN pc' = "rejected" /\ UNCHANGED sort
     ELSE /\ degree' = [n \in nodes |-> Cardinality({m \in nodes : <<n, m>> \in adjacency})]
          /\ queue' = {n \in nodes : \A m \in nodes : <<n, m>> \notin adjacency}
          /\ sorted' = <<>>
          /\ pc' = "sort"
  /\ UNCHANGED <<request, found, supervisor, asked, plan, verdict, edits>>

SortEager ==                                                            \* mutant
  /\ pc = "sort" /\ queue # {}
  /\ LET next == CHOOSE n \in queue : \A m \in queue : n <= m
         freed == {n \in nodes : <<n, next>> \in adjacency}
     IN /\ sorted' = Append(sorted, next)
        /\ degree' = [n \in nodes |-> IF n \in freed THEN degree[n] - 1 ELSE degree[n]]
        /\ queue' = (queue \ {next}) \cup {n \in freed : degree[n] >= 1}
  /\ UNCHANGED <<request, found, supervisor, pc, asked, plan, verdict, edits>>
\* One turn of the loop of topologicalSort, which takes the least id first.
Sort ==
  /\ pc = "sort" /\ queue # {}
  /\ LET next == CHOOSE n \in queue : \A m \in queue : n <= m
         freed == {n \in nodes : <<n, next>> \in adjacency}
     IN /\ sorted' = Append(sorted, next)
        /\ degree' = [n \in nodes |-> IF n \in freed THEN degree[n] - 1 ELSE degree[n]]
        /\ queue' = (queue \ {next}) \cup {n \in freed : degree[n] = 1}
  /\ UNCHANGED <<request, found, supervisor, pc, asked, plan, verdict, edits>>

\* The end of the loop: packages that are left depend on a cycle.
Sorted ==
  /\ pc = "sort" /\ queue = {}
  /\ pc' = IF Len(sorted) < Cardinality(nodes) THEN "rejected" ELSE "plan"
  /\ UNCHANGED <<request, found, supervisor, asked, sort, plan, verdict, edits>>

\* orderCopilotScopeWrites.
PlannedScopes ==
  LET Owned(scope) == If(asked.found[scope] = "owned", scope)
  IN Owned("workspace") \o Owned("user_profile") \o Owned("daemon_default")

\* Permissions are compared with those of the policy after trimming and lowercasing
\* here, but as they are in the preflight: a permission is a name and a spelling.
ExceedsCaps(q) ==
  \/ {p[1] : p \in q.permissions} \cap {p[1] : p \in q.policy.denied} # {}
  \/ Cardinality(q.permissions) > q.policy.max

ConflictsOf(q) ==
  {c \in {"dependency_duplicate", "version_incompatible", "capability_incompatible",
          "runtime_incompatible", "policy_blocked"} :
     CASE c = "dependency_duplicate"    -> Duplicated(q.edges) # {}
       [] c = "version_incompatible"    -> Disputed(q.edges) # {}
       [] c = "capability_incompatible" -> ExceedsCaps(q)
       [] c = "runtime_incompatible"    -> PlannedScopes = <<>>
       [] c = "policy_blocked"          -> asked.outcome = "policy_blocked"}

\* The rest of createPlan: the actions, the conflicts, the insert.
MakePlan ==
  /\ pc = "plan"
  /\ plan' = [writes    |-> IF asked.outcome = "policy_blocked" THEN <<>> ELSE PlannedScopes,
              order     |-> sorted,
              conflicts |-> ConflictsOf(request)]
  /\ pc' = "planned"
  /\ UNCHANGED <<request, found, supervisor, asked, sort, verdict, edits>>

\* verifyPlan: the scopes as they are by now, the rest as it was.
Verify ==
  /\ pc = "planned"
  /\ verdict' = [found  |-> found,
                 scopes |-> RuntimeScopes(found),
                 reason |-> Verdict(request.trust, request.trigger, Outcome, found, supervisor)]
  /\ UNCHANGED <<request, found, supervisor, pc, asked, sort, plan, edits>>

\* A user puts a file of their own in a scope that is there, or takes it away.
Edit(kind) ==
  /\ edits > 0 /\ edits' = edits - 1
  /\ found[kind] # "absent"
  /\ found' = [found EXCEPT ![kind] = IF @ = "owned" THEN "foreign" ELSE "owned"]
  /\ UNCHANGED <<request, supervisor, pc, asked, sort, plan, verdict>>

PlanningNext ==
  \/ Ask
  \/ Resolve
  \/ Sort
  \/ Sorted
  \/ MakePlan
  \/ Verify
  \/ \E kind \in Kinds : Edit(kind)

PlanningSpec == PlanningInit /\ [][PlanningNext]_planningVars

(***************************************************************************)
(* Properties                                                              *)
(***************************************************************************)
\* What a request says, without regard to the order of its edges.
Declared(q) == {Pair(q.edges[i]) : i \in {k \in DOMAIN q.edges : q.edges[k].to \in q.known}}

\* The packages the root needs: what is in every set that holds it and what its members need.
Needed(q) ==
  LET packages == {q.package} \cup {e[2] : e \in Declared(q)}
  IN {p \in packages : \A S \in SUBSET packages :
        q.package \in S /\ (\A e \in Declared(q) : e[1] \in S => e[2] \in S) => p \in S}

\* The ways to install them, dependencies first.
Orders(q) ==
  LET n == Cardinality(Needed(q))
  IN {o \in [1..n -> Needed(q)] :
        /\ \A i, j \in 1..n : o[i] = o[j] => i = j
        /\ \A i, j \in 1..n : <<o[i], o[j]>> \in Declared(q) => j < i}

Before(o, p) ==
  \E i \in DOMAIN o : o[i] < p[i] /\ \A j \in 1..(i - 1) : o[j] = p[j]

\* Required packages that are not known.  An edge that comes after an optional one for
\* the same pair is taken for a duplicate and not looked at.
Unknown(q) ==
  {i \in DOMAIN q.edges : q.edges[i].required /\ q.edges[i].to \notin q.known}
Hidden(q, i) ==
  \E j \in 1..(i - 1) : Pair(q.edges[j]) = Pair(q.edges[i]) /\ ~q.edges[j].required

\* The resolver (dependency-graph.ts) finds the first of the orders in which every package
\* the root needs comes once and after what it needs, if there is one and every required
\* package is known; otherwise no plan is made.
ResolutionIsRight ==
  LET q == request IN
  /\ (pc = "plan" /\ q.edges # <<>>) =>
       /\ sorted \in Orders(q)
       /\ \A o \in Orders(q) : ~Before(o, sorted)
       /\ \A i \in Unknown(q) : Hidden(q, i)
  /\ pc = "rejected" => (Unknown(q) # {} \/ Orders(q) = {})

\* A plan foretells its verification (v1-lifecycle-api-contract.md): if the scopes are
\* still what they were, the runtime refuses for the policy or the scopes exactly the plans
\* that report it as a conflict, and supervises with the scopes the plan writes, in the same
\* order; a plan refused for its permissions alone reports it.
PlanForetellsVerification ==
  /\ (pc = "planned" /\ ~WithinCaps(request.policy, request.permissions)) =>
       "capability_incompatible" \in plan.conflicts
  /\ (verdict # Nothing /\ verdict.found = asked.found) =>
       /\ (verdict.reason = "policy_preflight_blocked") <=> ("policy_blocked" \in plan.conflicts)
       /\ (verdict.reason = "no_writable_scope_available") => ("runtime_incompatible" \in plan.conflicts)
       /\ (verdict.reason = "supervise") =>
            ("runtime_incompatible" \notin plan.conflicts /\ plan.writes = verdict.scopes)
===============================================================================
