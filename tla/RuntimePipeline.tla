--------------------------- MODULE RuntimePipeline ---------------------------
(***************************************************************************)
(* What a runtime decides before it launches anything                      *)
(* (apps/runtime-daemon/src/index.ts and runtime-bootstrap.ts), for the    *)
(* local requests the control plane verifies a plan with: policy, trust,   *)
(* scopes, then the checks of the local supervisor.  Scopes are given by   *)
(* what is found in each: discovery reports every scope that is there as   *)
(* writable and approved, so only the owner of its file makes a            *)
(* difference.                                                             *)
(***************************************************************************)
EXTENDS Sequences

TrustStates == {"untrusted", "trusted", "trust_expired", "denied", "policy_blocked"}
\* The triggers but "none" (a major version, another author, ...) have one effect.
Triggers == {"none", "reset"}

\* An element of a list that is filtered.
If(test, element) == IF test THEN <<element>> ELSE <<>>

RuntimeScopesUnowned(found) ==                                          \* mutant
  LET Present(scope) == If(found[scope] # "absent", scope)
  IN Present("workspace") \o Present("user_profile") \o Present("daemon_default")
\* resolveRuntimeScopeWriteOrder.
RuntimeScopes(found) ==
  LET Owned(scope) == If(found[scope] = "owned", scope)
  IN Owned("workspace") \o Owned("user_profile") \o Owned("daemon_default")

\* evaluateTrustTransition.  A first installation earns trust, a trigger takes it.
TrustAfter(trust, trigger, outcome) ==
  IF outcome = "policy_blocked" THEN "policy_blocked"
  ELSE IF trust = "denied" THEN "denied"
  ELSE IF trigger # "none" THEN "trust_expired"
  ELSE IF trust \in {"untrusted", "trust_expired"} THEN "trusted"
  ELSE trust

\* createRuntimeStartPipeline: the first stage that fails names the reason.  The
\* local hooks fail if the supervisor is switched off, and pass everything on stdio.
Verdict(trust, trigger, outcome, found, supervisor) ==
  IF outcome = "policy_blocked" THEN "policy_preflight_blocked"
  ELSE IF TrustAfter(trust, trigger, outcome) # "trusted" THEN "trust_gate_blocked"
  ELSE IF RuntimeScopes(found) = <<>> THEN "no_writable_scope_available"
  ELSE IF ~supervisor THEN "preflight_checks_failed"
  ELSE "supervise"
===============================================================================
