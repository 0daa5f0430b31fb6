--------------------------- MODULE PolicyPreflight ---------------------------
(***************************************************************************)
(* The policy preflight (packages/policy-engine/src/index.ts): what an     *)
(* organisation's policy and the enforcement projection of a package let   *)
(* an installation or a runtime do.  A pure function: the first check that *)
(* refuses decides, and a flag is a warning unless a feature gate makes it *)
(* a block.                                                                *)
(***************************************************************************)
EXTENDS Integers, FiniteSets

Blocking == {"policy_blocked_temp", "policy_blocked_perm"}

\* An empty allowlist allows every package.
Listed(policy, package) == policy.allow = {} \/ package \in policy.allow

\* getPermissionCapViolations is empty.
WithinCaps(policy, permissions) ==
  /\ Cardinality(permissions) <= policy.max
  /\ permissions \cap policy.denied = {}

\* evaluatePolicyPreflight; strict is the gate allowStrictFlaggedBlocking.
Preflight(policy, package, permissions, state, strict) ==
  IF \/ ~policy.mcp
     \/ ~Listed(policy, package)
     \/ ~WithinCaps(policy, permissions)
     \/ state \in Blocking
     \/ state = "flagged" /\ policy.blockFlagged /\ strict
  THEN "policy_blocked"
  ELSE IF state = "flagged" THEN "flagged" ELSE "allowed"
===============================================================================
