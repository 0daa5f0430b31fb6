--------------------------- MODULE SecurityReports ---------------------------
(***************************************************************************)
(* Signed security reports, from the request to the enforcement projection *)
(* installs are checked against.  A submission is a chain of statements    *)
(* with an await between any two: it consumes the reporter's nonce, reads  *)
(* the rollout row the trust gates write, stores the report, and, when the *)
(* report calls for enforcement, appends an action, lists the package's    *)
(* actions, folds them and overwrites the projection.  A reviewer may      *)
(* promote a package to a permanent block in a transaction of its own.     *)
(*                                                                         *)
(* One package is modelled: packages share the nonces and nothing else.    *)
(* A request stands for its nonce; deliveries of it are the client's       *)
(* retries and the network's copies.                                       *)
(***************************************************************************)
EXTENDS TrustGates, Functions

CONSTANTS
  Requests,     \* requests the reporters sign
  Copies,       \* a request is delivered at most Copies times
  Claims,       \* what a request may say and who signs it
  Unsigned,     \* stands for the claim of a request nobody has signed yet
  Skew,         \* maxTimestampSkewMs
  NonceTtl,     \* nonceTtlMs
  NonceLimit,   \* maxActiveNoncesPerReporter
  BlockTtl,     \* the 72 hours of a temporary block
  Window,       \* the 30 days a permanent block is judged on
  Budgets       \* bounds on clock ticks, deliveries, submissions cut off half-way and
                \* promotions asked for, on evaluations, and how many passed already

ASSUME ReportsAssumption ==
  /\ Skew \in Nat /\ NonceTtl \in Nat /\ NonceTtl > 2 * Skew
  /\ NonceLimit \in Nat /\ BlockTtl \in Nat /\ Window \in Nat
  /\ Unsigned \notin Claims /\ "perm" \notin Requests   \* so that promotions have ids of their own
  /\ Copies \in Nat
  /\ Budgets \subseteq [ticks : Nat, deliveries : Nat, cuts : Nat, promotions : Nat,
                        evaluations : Nat, passed : 0..Cardinality(RunIds)]
  /\ \A b \in Budgets : b.evaluations + b.passed <= MaxEvaluations

Deliveries == Requests \X (1..Copies)

VARIABLES
  clock,
  claim,       \* request -> its claim, Unsigned before the reporter signs it
  stamp,       \* request -> x-timestamp
  nonces,      \* request -> expires_at of its nonce row, 0 when there is none
  reports,     \* security_reports
  actions,     \* security_enforcement_actions
  projection,  \* the security_enforcement_projections row
  outbox,      \* ingestion_outbox rows of the two report events
  job,         \* delivery -> the local variables of its submission
  reply,       \* delivery -> what it was answered
  review,      \* the reviewer's promotion in flight
  budget,      \* what is left of the bounds
  overtaken    \* history: the row may lack an action, as a list of the actions went
               \* stale or was never written, and no list that was current came after

reportVars == <<clock, claim, stamp, nonces, reports, actions, projection, outbox,
                job, reply, review, budget, overtaken>>
vars == <<gateVars, reportVars>>

\* parseSecurityReportPayload and the checks of method, headers and body hash.
WellFormed(c) == c.wellFormed

\* createDbBackedReporterSignatureVerifier: the key is the reporter's, active, not
\* revoked, and the signature is that of the canonical string.
SignatureVerifies(c) == c.signed

\* evaluateSecurityReportValidation, for a signature already verified.
Verdict(c) ==
  LET reject(reason) == [accepted |-> FALSE, reason |-> reason, state |-> "none",
                         queue |-> "rejected"]
      accept(reason, state, queue) == [accepted |-> TRUE, reason |-> reason,
                                       state |-> state, queue |-> queue]
  IN CASE c.status # "active"  -> reject("reporter_not_active")
       [] c.status = "active" /\ ~c.evidence -> reject("evidence_minimums_missing")
       [] c.status = "active" /\ c.evidence /\ c.abuse -> reject("abuse_suspected")
       [] OTHER ->
          CASE c.tier = "A" /\ c.severity = "critical" /\ c.source = "raw" ->
                 accept("malware_critical_tier_a", "policy_blocked_temp", "queued_review")
            [] c.tier = "C" -> accept("tier_c_advisory", "none", "advisory")
            [] c.tier # "C" /\ c.severity \in {"low", "medium"} ->
                 accept("no_action", "none", "queued_review")
            [] OTHER -> accept("needs_human_review", "flagged", "queued_review")

\* resolveRolloutProjectedState: how much of it the rollout row lets through.
Resolve(state, source, row) ==
  LET mode == IF row.freeze THEN "raw-only" ELSE row.mode
      downgraded == \/ mode = "raw-only" /\ source # "raw"
                    \/ mode = "flagged-first"
                       /\ state \in {"policy_blocked_perm", "policy_blocked_temp"}
  IN IF state # "none" /\ downgraded THEN "flagged" ELSE state

\* ENFORCEMENT_PRECEDENCE, strongest first.
Precedence == [policy_blocked_perm |-> 0, policy_blocked_temp |-> 1, flagged |-> 2,
               reinstated |-> 3, none |-> 4]

\* projectSecurityEnforcementCurrent: the strongest action not expired at t.  (No
\* code path deactivates or supersedes an action.)
InForce(S, t) == {a \in S : a.expires = 0 \/ a.expires > t}
Project(S, t) ==
  IF InForce(S, t) = {} THEN "none"
  ELSE (CHOOSE a \in InForce(S, t) : \A b \in InForce(S, t) :
          Precedence[a.state] <= Precedence[b.state]).state

\* security_validate_perm_block_requirements at time t.
Corroborating(S, t) ==
  {r \in S : r.queue # "rejected" /\ r.evidence /\ r.status = "active" /\ r.at >= t - Window}
Eligible(S, t) ==
  LET C == Corroborating(S, t)
  IN /\ Cardinality({r.reporter : r \in C}) >= 2
     /\ Cardinality({r.key : r \in C}) >= 2
     /\ Cardinality(C) >= 2

NewJob == [pc |-> "new", now |-> 0, state |-> "none", list |-> {}]
Answered(d, answer) ==
  /\ reply' = [reply EXCEPT ![d] = answer]
  /\ job' = [job EXCEPT ![d] = [NewJob EXCEPT !.pc = "done"]]
Goto(d, pc) == /\ job' = [job EXCEPT ![d].pc = pc]
               /\ UNCHANGED reply

\* A list of actions that some submission has read and not yet folded in.
Listed == {d \in Deliveries : job[d].pc = "project"}

\* ... and that an action written since is missing from.
Stale == {d \in Listed : job[d].list # actions}

-------------------------------------------------------------------------------
\* What n passing evaluations, one after the other, have left behind.
Earned(n) == IF n < Required THEN [mode |-> "raw-only", freeze |-> TRUE]
             ELSE IF n = Required THEN [mode |-> "flagged-first", freeze |-> FALSE]
             ELSE [mode |-> "full-catalog", freeze |-> FALSE]
Past(n, id) ==
  {[run |-> id[i], window |-> IF i < NumWindows THEN i ELSE NumWindows, at |-> i,
    fp |-> TRUE, ap |-> TRUE] : i \in 1..n}

Init ==
  /\ \E b \in Budgets :
       /\ budget = [ticks |-> b.ticks, deliveries |-> b.deliveries, cuts |-> b.cuts,
                    promotions |-> b.promotions]
       /\ rollout = Earned(b.passed)
       /\ \E id \in Injection(1..b.passed, RunIds) : decisions = Past(b.passed, id)
       /\ started = MaxEvaluations - b.evaluations
       /\ passes = b.passed
  /\ eval = [v \in Evaluators |-> Asleep]
  /\ clock = 1
  /\ claim = [q \in Requests |-> Unsigned]
  /\ stamp = [q \in Requests |-> 0]
  /\ nonces = [q \in Requests |-> 0]
  /\ reports = {} /\ actions = {} /\ outbox = {}
  /\ projection = [state |-> "none", at |-> 0]
  /\ job = [d \in Deliveries |-> NewJob]
  /\ reply = [d \in Deliveries |-> "none"]
  /\ review = [pc |-> "idle", at |-> 0]
  /\ overtaken = FALSE

Tick ==
  /\ budget.ticks > 0
  /\ budget' = [budget EXCEPT !.ticks = @ - 1]
  /\ clock' = clock + 1
  /\ UNCHANGED <<gateVars, claim, stamp, nonces, reports, actions, projection, outbox,
                 job, reply, review, overtaken>>

\* A reporter signs a request; its clock is at most Skew ahead of the server's.
Sign(q) ==
  /\ claim[q] = Unsigned
  /\ \E c \in Claims, t \in clock..clock + Skew :
       /\ claim' = [claim EXCEPT ![q] = c]
       /\ stamp' = [stamp EXCEPT ![q] = t]
  /\ UNCHANGED <<gateVars, clock, nonces, reports, actions, projection, outbox,
                 job, reply, review, budget, overtaken>>

\* A copy of the request arrives: headers, body, body hash and timestamp are checked.
Receive(d) ==
  /\ job[d].pc = "new" /\ claim[d[1]] # Unsigned
  /\ budget.deliveries > 0
  /\ budget' = [budget EXCEPT !.deliveries = @ - 1]
  /\ \/ ~WellFormed(claim[d[1]]) /\ Answered(d, "invalid_request")
     \/ /\ WellFormed(claim[d[1]]) /\ clock > stamp[d[1]] + Skew
        /\ Answered(d, "timestamp_skew_exceeded")
     \/ /\ WellFormed(claim[d[1]]) /\ clock <= stamp[d[1]] + Skew
        /\ job' = [job EXCEPT ![d].pc = "nonce", ![d].now = clock]
        /\ UNCHANGED reply
  /\ UNCHANGED <<gateVars, clock, claim, stamp, nonces, reports, actions, projection,
                 outbox, review, overtaken>>

\* The nonces a get or a count at time t sees: expires_at > t.
LiveNonces(t) == {p \in Requests : nonces[p] > t}

\* purgeExpired, get and countActiveForReporter.  The purge removes only rows the
\* two reads skip, so the three statements are one step.
CheckNonce(d) ==
  LET q == d[1]
      live == LiveNonces(job[d].now)
      held == {p \in live : claim[p].reporter = claim[q].reporter}
  IN /\ job[d].pc = "nonce"
     /\ nonces' = [p \in Requests |-> IF p \in live THEN nonces[p] ELSE 0]
     /\ \/ q \in live /\ Answered(d, "nonce_replayed")
        \/ q \notin live /\ Cardinality(held) >= NonceLimit
           /\ Answered(d, "nonce_rate_limited")
        \/ q \notin live /\ Cardinality(held) < NonceLimit /\ Goto(d, "verify")
     /\ UNCHANGED <<gateVars, clock, claim, stamp, reports, actions, projection, outbox,
                    review, budget, overtaken>>

\* The signature is verified (no state), then the nonce is upserted.
PutNonce(d) ==
  /\ job[d].pc = "verify"
  /\ \/ ~SignatureVerifies(claim[d[1]]) /\ Answered(d, "signature_invalid") /\ UNCHANGED nonces
     \/ /\ SignatureVerifies(claim[d[1]])
        /\ nonces' = [nonces EXCEPT ![d[1]] = job[d].now + NonceTtl]
        /\ Goto(d, "resolve")
  /\ UNCHANGED <<gateVars, clock, claim, stamp, reports, actions, projection, outbox,
                 review, budget, overtaken>>

\* The report is judged, and the rollout row read, which may turn a block into a flag.
ResolveRollout(d) ==
  /\ job[d].pc = "resolve"
  /\ LET c == claim[d[1]]
     IN job' = [job EXCEPT ![d].pc = "store",
                           ![d].state = Resolve(Verdict(c).state, c.source, rollout)]
  /\ UNCHANGED <<gateVars, clock, claim, stamp, nonces, reports, actions, projection,
                 outbox, reply, review, budget, overtaken>>

\* Mutant: only the nonce table keeps a request from being stored twice.
NoUniqueNonce(q) == FALSE

\* UNIQUE (reporter_id, request_nonce): a second insert of the request throws.
NonceIsStored(q) == \E r \in reports : r.request = q

ReportRow(d) ==
  LET c == claim[d[1]]
  IN [id |-> d, request |-> d[1], reporter |-> c.reporter, key |-> c.key,
      status |-> c.status, evidence |-> c.evidence, queue |-> Verdict(c).queue,
      state |-> job[d].state, at |-> job[d].now]

\* appendReport.  A rejected report is stored too, and the submission ends there.
AppendReport(d) ==
  LET v == Verdict(claim[d[1]])
  IN /\ job[d].pc = "store"
     /\ \/ NonceIsStored(d[1]) /\ Answered(d, "error") /\ UNCHANGED reports
        \/ /\ ~NonceIsStored(d[1])
           /\ reports' = reports \cup {ReportRow(d)}
           /\ IF v.accepted
              THEN Goto(d, IF job[d].state = "none" THEN "publish" ELSE "enforce")
              ELSE Answered(d, v.reason)
     /\ UNCHANGED <<gateVars, clock, claim, stamp, nonces, actions, projection, outbox,
                    review, budget, overtaken>>

\* A block the rollout downgraded to a flag loses its 72 hours too.
ActionRow(d) ==
  [id |-> d, state |-> job[d].state, at |-> job[d].now, made |-> clock,
   expires |-> IF job[d].state = "policy_blocked_temp" THEN job[d].now + BlockTtl ELSE 0]

AppendAction(d) ==
  /\ job[d].pc = "enforce"
  /\ actions' = actions \cup {ActionRow(d)}
  /\ overtaken' = (overtaken \/ Listed # {})
  /\ Goto(d, "list")
  /\ UNCHANGED <<gateVars, clock, claim, stamp, nonces, reports, projection, outbox,
                 review, budget>>

\* recomputeSecurityEnforcementProjection, first statement.
ListActions(d) ==
  /\ job[d].pc = "list"
  /\ job' = [job EXCEPT ![d].pc = "project", ![d].list = actions]
  /\ UNCHANGED <<gateVars, clock, claim, stamp, nonces, reports, actions, projection,
                 outbox, reply, review, budget, overtaken>>

\* Mutant: the row takes the state of the report at hand.
ProjectReport(d) ==
  /\ job[d].pc = "project"
  /\ projection' = [state |-> job[d].state, at |-> job[d].now]
  /\ overtaken' = (Stale # {})
  /\ job' = [job EXCEPT ![d].pc = "publish", ![d].list = {}]
  /\ UNCHANGED <<gateVars, clock, claim, stamp, nonces, reports, actions, outbox,
                 reply, review, budget>>

\* ... and second: the fold of what was listed overwrites the row.
UpsertProjection(d) ==
  /\ job[d].pc = "project"
  /\ projection' = [state |-> Project(job[d].list, job[d].now), at |-> job[d].now]
  /\ overtaken' = (Stale # {})
  /\ job' = [job EXCEPT ![d].pc = "publish", ![d].list = {}]
  /\ UNCHANGED <<gateVars, clock, claim, stamp, nonces, reports, actions, outbox,
                 reply, review, budget>>

\* The outbox publisher: the dedupe key holds the report's id, so no row is there yet.
Announce(event, d) == outbox' = outbox \cup {<<event, d>>}

\* Mutant: the answer leaves before the recompute is asked for.
AnswerBeforeRecompute(d) ==
  /\ job[d].pc = "publish"
  /\ Announce("security.report.accepted", d)
  /\ Answered(d, "accepted")
  /\ UNCHANGED <<gateVars, clock, claim, stamp, nonces, reports, actions, projection,
                 review, budget, overtaken>>

PublishAccepted(d) ==
  /\ job[d].pc = "publish"
  /\ Announce("security.report.accepted", d)
  /\ IF job[d].state = "none" THEN Answered(d, "accepted") ELSE Goto(d, "announce")
  /\ UNCHANGED <<gateVars, clock, claim, stamp, nonces, reports, actions, projection,
                 review, budget, overtaken>>

PublishRecompute(d) ==
  /\ job[d].pc = "announce"
  /\ Announce("security.enforcement.recompute.requested", d)
  /\ Answered(d, "accepted")
  /\ UNCHANGED <<gateVars, clock, claim, stamp, nonces, reports, actions, projection,
                 review, budget, overtaken>>

\* The process dies, or a statement throws, before the submission's next write.
Cut(d) ==
  /\ job[d].pc \notin {"new", "done"}
  /\ budget.cuts > 0
  /\ budget' = [budget EXCEPT !.cuts = @ - 1]
  /\ Answered(d, "error")
  /\ overtaken' = (overtaken \/ job[d].pc \in {"list", "project"})
  /\ UNCHANGED <<gateVars, clock, claim, stamp, nonces, reports, actions, projection,
                 outbox, review>>

\* createPermanentBlockPromotionService.promote: a first validation ...
ValidatePromotion ==
  /\ review.pc = "idle"
  /\ budget.promotions > 0
  /\ budget' = [budget EXCEPT !.promotions = @ - 1]
  /\ review' = IF Eligible(reports, clock) THEN [pc |-> "promote", at |-> clock]
                                           ELSE review
  /\ UNCHANGED <<gateVars, clock, claim, stamp, nonces, reports, actions, projection,
                 outbox, job, reply, overtaken>>

\* Mutant: the transaction trusts the validation made before it.
TrustTheFirstValidation == TRUE

\* ... and security_promote_policy_block_perm, which validates again in the
\* transaction that inserts the action and overwrites the projection.
MayPromote == Eligible(reports, clock)
Promote ==
  /\ review.pc = "promote"
  /\ MayPromote
  /\ actions' = actions \cup {[id |-> <<"perm", budget.promotions>>,
                               state |-> "policy_blocked_perm", at |-> review.at,
                               expires |-> 0, made |-> clock]}
  /\ projection' = [state |-> "policy_blocked_perm", at |-> review.at]
  /\ overtaken' = (Listed # {})
  /\ review' = [pc |-> "idle", at |-> 0]
  /\ UNCHANGED <<gateVars, clock, claim, stamp, nonces, reports, outbox, job, reply,
                 budget>>

\* perm_block_requirements_not_met: nothing is written and the promotion is rejected.
RefusePromotion ==
  /\ review.pc = "promote"
  /\ ~MayPromote
  /\ review' = [pc |-> "idle", at |-> 0]
  /\ UNCHANGED <<gateVars, clock, claim, stamp, nonces, reports, actions, projection,
                 outbox, job, reply, budget, overtaken>>

Submit(d) ==
  \/ Receive(d) \/ CheckNonce(d) \/ PutNonce(d) \/ ResolveRollout(d)
  \/ AppendReport(d) \/ AppendAction(d) \/ ListActions(d) \/ UpsertProjection(d)
  \/ PublishAccepted(d) \/ PublishRecompute(d) \/ Cut(d)

Next ==
  \/ GatesNext /\ UNCHANGED reportVars
  \/ Tick
  \/ \E q \in Requests : Sign(q)
  \/ \E d \in Deliveries : Submit(d)
  \/ ValidatePromotion \/ Promote \/ RefusePromotion

Spec == Init /\ [][Next]_vars

-------------------------------------------------------------------------------
\* A signed request is stored, and accepted, at most once however often and however
\* concurrently it is delivered: get and put of the nonce are two statements, so the
\* nonce table alone does not ensure it.
StoredOncePerRequest ==
  \A q \in Requests :
    /\ Cardinality({r \in reports : r.request = q}) <= 1
    /\ Cardinality({d \in Deliveries : d[1] = q /\ reply[d] = "accepted"}) <= 1

\* An accepted report is whole - stored, enforced when it calls for enforcement,
\* and announced - and a refused one enforces and announces nothing.
AnswersAreTrue ==
  \A d \in Deliveries :
    LET stored == {r \in reports : r.id = d}
        enforced == \E a \in actions : a.id = d
        announced(event) == <<event, d>> \in outbox
    IN /\ reply[d] = "accepted" =>
            \E r \in stored :
              /\ r.queue # "rejected"
              /\ announced("security.report.accepted")
              /\ r.state # "none" =>
                   enforced /\ announced("security.enforcement.recompute.requested")
       /\ reply[d] \notin {"none", "accepted", "error"} =>
            ~enforced /\ ~announced("security.report.accepted")
       /\ reply[d] = "nonce_replayed" =>
            \E e \in Deliveries \ {d} : e[1] = d[1] /\ job[e].pc # "new"

\* Whatever went wrong before - a list that an action overtook, a submission that died
\* with its list - the next recomputation from a current list, and the next permanent
\* block, leave a projection row that is the fold of every action there is, at the row's
\* own time, and it stays so until an action overtakes a list once more: no block is
\* hidden by a later, weaker report, nor by an earlier fault.
ProjectionIsTheFold ==
  (~overtaken /\ \A d \in Deliveries : job[d].pc \notin {"list", "project"}) =>
    projection.state = Project(actions, projection.at)

\* A permanent block rests on reports of two reporters, under two keys, that were
\* inside the window when the block was written, not only when it was asked for.
PermanentBlockIsCorroborated ==
  \A a \in actions : a.state = "policy_blocked_perm" =>
    Eligible({r \in reports : r.at <= a.made}, a.made)
===============================================================================
