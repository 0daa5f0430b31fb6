-------------------------- MODULE InstallLifecycle --------------------------
(***************************************************************************)
(* One install plan and the requests that work on it at the same time      *)
(* (apps/control-plane/src/install-lifecycle.ts): apply, update, remove,   *)
(* rollback and verify.  A request looks up its idempotency key, loads the *)
(* plan, checks its status, reads the next attempt number, writes the      *)
(* entry into (or removes it from) every scope file inside a database      *)
(* transaction that records the attempt, then publishes an outbox event    *)
(* and at last stores its response under the key.                          *)
(*                                                                         *)
(* The checks and the attempt number are read before the transaction; the  *)
(* scope files are not part of it; the event and the idempotency record    *)
(* come after it.  One action is what happens between two awaits that      *)
(* others can see.                                                         *)
(***************************************************************************)
EXTENDS Integers, FiniteSets

CONSTANTS
  Requests,     \* slots for requests in flight together
  NumScopes,    \* writable scopes of the plan, its write_entry actions
  Keys,         \* idempotency keys the clients use
  NoKey,        \* no idempotency-key header
  NoOne,        \* nobody holds the row locks
  MaxRequests,  \* bound: requests begun
  MaxFailures,  \* bound: failing scope writes and removals
  MaxCrashes    \* bound: requests cut off (process killed, or a statement throws)

ASSUME LifecycleAssumption ==
  /\ NumScopes \in Nat \ {0}
  /\ NoKey \notin Keys
  /\ NoOne \notin Requests
  /\ MaxRequests \in Nat
  /\ MaxFailures \in Nat
  /\ MaxCrashes \in Nat

Scopes  == 1..NumScopes
Ops     == {"apply", "update", "remove", "rollback", "verify"}
\* The target version an update asks for is the only payload beside the plan id
\* that request hashes tell apart.
Hashes  == {"v1", "v2"}

VARIABLES
  blocked,   \* the plan's policy_outcome is policy_blocked: every action is skip_scope
  status,    \* install_plans.status
  action,    \* install_plan_actions.status of the write_entry actions
  attempts,  \* rows of install_apply_attempts and install_verify_attempts
  files,     \* whether the entry of the package is in each scope file
  required,  \* some profile requires the package
  outbox,    \* dedupe keys of the plan's rows in ingestion_outbox
  idem,      \* ingestion_idempotency_records of the plan's operations
  lock,      \* who holds the row locks on install_plan_actions
  req,       \* the requests in flight
  overlapped,   \* history: two requests have been in flight together
  begun, failures, crashes   \* what has been used of the bounds

budget == <<overlapped, begun, failures, crashes>>
db     == <<status, action, attempts, outbox, idem>>
vars   == <<blocked, status, action, attempts, files, required, outbox, idem,
            lock, req, overlapped, begun, failures, crashes>>

(***************************************************************************)
(* State                                                                   *)
(***************************************************************************)
Statuses == {"planned", "apply_succeeded", "apply_failed", "verify_succeeded",
             "verify_failed", "remove_succeeded", "remove_failed",
             "rollback_succeeded", "rollback_failed"}

Tables == {"apply", "verify"}
Table(op) == IF op = "verify" THEN "verify" ELSE "apply"

\* An attempt: mode is what it did to the scope files.  key and hash are history,
\* the code does not store them with the attempt.
Modes   == {"write", "remove", "none"}
Attempt == [number : Nat, op : Ops, ok : BOOLEAN, mode : Modes,
            key : Keys \cup {NoKey}, hash : Hashes]

InTable(t)  == {a \in attempts : Table(a.op) = t}
MaxNumber(t) ==
  IF InTable(t) = {} THEN 0
  ELSE CHOOSE n \in {a.number : a \in InTable(t)} : \A a \in InTable(t) : a.number <= n
Latest(t) == CHOOSE a \in InTable(t) : a.number = MaxNumber(t)

StatusAfterRenamed(op, ok) ==                                           \* mutant
  CASE op \in {"apply", "update"} -> IF ok THEN "apply_succeeded"    ELSE "apply_failed"
    [] op = "remove"              -> IF ok THEN "remove_succeeded"   ELSE "remove_failed"
    [] op = "rollback"            -> IF ok THEN "rolled_back"        ELSE "rollback_failed"
    [] op = "verify"              -> IF ok THEN "verify_succeeded"   ELSE "verify_failed"
StatusAfter(op, ok) ==
  CASE op \in {"apply", "update"} -> IF ok THEN "apply_succeeded"    ELSE "apply_failed"
    [] op = "remove"              -> IF ok THEN "remove_succeeded"   ELSE "remove_failed"
    [] op = "rollback"            -> IF ok THEN "rollback_succeeded" ELSE "rollback_failed"
    [] op = "verify"              -> IF ok THEN "verify_succeeded"   ELSE "verify_failed"

NoRecord == [hash |-> "none", number |-> 0, ok |-> FALSE]
Record   == [hash : Hashes \cup {"none"}, number : Nat, ok : BOOLEAN]
Event    == [op : Ops, number : Nat, ok : BOOLEAN]

Points  == {"idle", "load", "source", "references", "number", "file", "row",
            "commit", "publish", "store"}
Request == [pc : Points, op : Ops \cup {"none"}, key : Keys \cup {NoKey},
            hash : Hashes, mode : Modes, number : Nat, at : Scopes, failed : BOOLEAN]

NoRequest == [pc |-> "idle", op |-> "none", key |-> NoKey, hash |-> "v1",
              mode |-> "none", number |-> 0, at |-> 1, failed |-> FALSE]

At(r, point) == req[r].pc = point
Goto(r, point) == [req EXCEPT ![r].pc = point]

AnsweredUncommitted(r) ==                                               \* mutant
  /\ req' = [req EXCEPT ![r] = NoRequest]
  /\ UNCHANGED lock
\* The request is answered, with a response or with an error; an open
\* transaction is over and its locks are free.
Answered(r) ==
  /\ req' = [req EXCEPT ![r] = NoRequest]
  /\ lock' = IF lock = r THEN NoOne ELSE lock

\* createPlan: one committed plan, entry nowhere written.
Init ==
  /\ blocked \in BOOLEAN
  /\ status = "planned"
  /\ action = [s \in Scopes |-> "pending"]
  /\ attempts = {}
  /\ files = [s \in Scopes |-> FALSE]
  /\ required = FALSE
  /\ outbox = {}
  /\ idem = [ok \in Ops \X Keys |-> NoRecord]
  /\ lock = NoOne
  /\ req = [r \in Requests |-> NoRequest]
  /\ overlapped = FALSE
  /\ begun = 0 /\ failures = 0 /\ crashes = 0

(***************************************************************************)
(* Before the transaction                                                  *)
(***************************************************************************)
BeginUnlooked(r, op, key, hash) ==                                      \* mutant
  /\ At(r, "idle")
  /\ begun < MaxRequests
  /\ hash # "v1" => op = "update"
  /\ req' = [req EXCEPT ![r] = [NoRequest EXCEPT !.pc = "load", !.op = op, !.key = key,
                                                 !.hash = hash]]
  /\ overlapped' = (overlapped \/ \E q \in Requests : ~At(q, "idle"))
  /\ begun' = begun + 1
  /\ UNCHANGED <<blocked, db, files, required, lock, failures, crashes>>

\* A request arrives and looks up its key.  One that finds a record is replayed
\* or refused and changes nothing.
Begin(r, op, key, hash) ==
  /\ At(r, "idle")
  /\ begun < MaxRequests
  /\ key # NoKey => idem[<<op, key>>] = NoRecord
  /\ hash # "v1" => op = "update"
  /\ req' = [req EXCEPT ![r] = [NoRequest EXCEPT !.pc = "load", !.op = op, !.key = key,
                                                 !.hash = hash]]
  /\ overlapped' = (overlapped \/ \E q \in Requests : ~At(q, "idle"))
  /\ begun' = begun + 1
  /\ UNCHANGED <<blocked, db, files, required, lock, failures, crashes>>

\* The plan statuses an operation starts from; apply and verify do not look.
AllowedFrom(op) ==
  CASE op = "update"   -> {"apply_succeeded", "verify_succeeded", "verify_failed"}
    [] op = "remove"   -> {"apply_succeeded", "verify_succeeded", "verify_failed",
                           "rollback_succeeded"}
    [] op = "rollback" -> {"apply_failed", "remove_failed", "rollback_failed"}
    [] OTHER           -> Statuses

\* What an operation does to the scope files; for a rollback it depends on the
\* attempt it undoes.
ModeOf(op) == CASE op \in {"apply", "update"} -> "write"
                [] op = "remove"              -> "remove"
                [] OTHER                      -> "none"

LoadPlan(r) ==
  /\ At(r, "load")
  /\ IF status \in AllowedFrom(req[r].op)
     THEN /\ req' = [req EXCEPT ![r].pc = CASE req[r].op = "rollback" -> "source"
                                            [] req[r].op = "remove"   -> "references"
                                            [] OTHER                  -> "number",
                                ![r].mode = ModeOf(req[r].op)]
          /\ UNCHANGED lock
     ELSE Answered(r)
  /\ UNCHANGED <<blocked, db, files, required, budget>>

\* resolveLatestApplyAttempt: what the rollback undoes, and how.
ResolveSource(r) ==
  /\ At(r, "source")
  /\ IF InTable("apply") # {} /\ ~Latest("apply").ok
     THEN /\ req' = [req EXCEPT ![r].pc = "number",
                                ![r].mode = IF Latest("apply").op = "remove" THEN "write"
                                                                             ELSE "remove"]
          /\ UNCHANGED lock
     ELSE Answered(r)
  /\ UNCHANGED <<blocked, db, files, required, budget>>

\* resolveRequiredProfileReferenceCount.
CheckReferences(r) ==
  /\ At(r, "references")
  /\ IF required THEN Answered(r) ELSE req' = Goto(r, "number") /\ UNCHANGED lock
  /\ UNCHANGED <<blocked, db, files, required, budget>>

NextNumberOfEither(t) ==                                                \* mutant
  1 + (IF MaxNumber("apply") > MaxNumber("verify") THEN MaxNumber("apply")
                                                   ELSE MaxNumber("verify"))
NextNumber(t) == MaxNumber(t) + 1

ResolveAttemptNumberUngated(r) ==                                       \* mutant
  /\ At(r, "number")
  /\ \E failed \in BOOLEAN :
       /\ CASE req[r].op = "verify" -> blocked => failed
            [] req[r].op = "apply"  -> failed = blocked
            [] OTHER                -> ~failed
       /\ req' = [req EXCEPT ![r].number = NextNumber(Table(req[r].op)),
                             ![r].failed = failed,
                             ![r].pc = IF req[r].op = "verify" THEN "commit" ELSE "file"]
  /\ UNCHANGED <<blocked, db, files, required, lock, budget>>

\* resolveAttemptNumber, and for a verification the run of the runtime, which
\* never becomes ready when the policy blocks the plan.
ResolveAttemptNumber(r) ==
  /\ At(r, "number")
  /\ \E failed \in BOOLEAN :
       /\ CASE req[r].op = "verify" -> blocked => failed
            [] req[r].op = "apply"  -> failed = blocked
            [] OTHER                -> ~failed
       /\ req' = [req EXCEPT ![r].number = NextNumber(Table(req[r].op)),
                             ![r].failed = failed,
                             ![r].pc = IF req[r].op = "verify" THEN "commit"
                                       ELSE IF blocked THEN "row" ELSE "file"]
  /\ UNCHANGED <<blocked, db, files, required, lock, budget>>

(***************************************************************************)
(* The transaction: for every write_entry action the scope file, then the  *)
(* action's row; then the attempt, the plan and the audit.                 *)
(***************************************************************************)
\* write_entry and writeScopeSidecarGuarded, or remove_entry.  A write may fail
\* after the entry is in the file (the sidecar comes second).
TouchFile(r) ==
  LET touched == [files EXCEPT ![req[r].at] = (req[r].mode = "write")] IN
  /\ At(r, "file")
  /\ \/ /\ files' = touched
        /\ req' = Goto(r, "row")
        /\ UNCHANGED failures
     \/ /\ failures < MaxFailures
        /\ failures' = failures + 1
        /\ files' \in {files} \cup (IF req[r].mode = "write" THEN {touched} ELSE {})
        /\ req' = [req EXCEPT ![r].pc = "row", ![r].failed = TRUE]
  /\ UNCHANGED <<blocked, db, required, lock, overlapped, begun, crashes>>

UpdateActionRowShort(r) ==                                              \* mutant
  /\ At(r, "row")
  /\ lock \in {NoOne, r}
  /\ lock' = r
  /\ req' = IF req[r].failed \/ blocked \/ req[r].at + 1 >= NumScopes
            THEN Goto(r, "commit")
            ELSE [req EXCEPT ![r].pc = "file", ![r].at = @ + 1]
  /\ UNCHANGED <<blocked, db, files, required, budget>>

\* UPDATE install_plan_actions: waits for the row lock, which the first update of
\* a transaction takes and the end of the transaction gives back.
UpdateActionRow(r) ==
  /\ At(r, "row")
  /\ lock \in {NoOne, r}
  /\ lock' = r
  /\ req' = IF req[r].failed \/ blocked \/ req[r].at = NumScopes
            THEN Goto(r, "commit")
            ELSE [req EXCEPT ![r].pc = "file", ![r].at = @ + 1]
  /\ UNCHANGED <<blocked, db, files, required, budget>>

\* The rows the transaction has updated when it commits.
ActionsAfter(r) ==
  [s \in Scopes |->
     IF blocked THEN "skipped"
     ELSE CASE s < req[r].at -> "applied"
            [] s = req[r].at -> IF req[r].failed THEN "failed" ELSE "applied"
            [] s > req[r].at -> action[s]]

AttemptOf(r) == [number |-> req[r].number, op |-> req[r].op, ok |-> ~req[r].failed,
                 mode |-> req[r].mode, key |-> req[r].key, hash |-> req[r].hash]

NumberTaken(r) ==
  \E a \in InTable(Table(req[r].op)) : a.number = req[r].number

CommitIgnoringConflict(r) ==                                            \* mutant
  /\ At(r, "commit")
  /\ IF NumberTaken(r)
     THEN UNCHANGED <<status, action, attempts>>
     ELSE /\ attempts' = attempts \cup {AttemptOf(r)}
          /\ status' = StatusAfter(req[r].op, ~req[r].failed)
          /\ action' = IF req[r].op = "verify" THEN action ELSE ActionsAfter(r)
  /\ req' = Goto(r, "publish")
  /\ lock' = IF lock = r THEN NoOne ELSE lock
  /\ UNCHANGED <<blocked, files, required, outbox, idem, budget>>

\* INSERT of the attempt, UPDATE of the plan whatever its status is by now, audit
\* row, COMMIT.  UNIQUE (plan_internal_id, attempt_number) makes the request fail
\* and roll back instead when the number has been taken meanwhile.
CommitUnchecked(r) ==                                                   \* mutant
  /\ At(r, "commit")
  /\ attempts' = attempts \cup {AttemptOf(r)}
  /\ status' = StatusAfter(req[r].op, ~req[r].failed)
  /\ action' = IF req[r].op = "verify" THEN action ELSE ActionsAfter(r)
  /\ req' = Goto(r, "publish")
  /\ lock' = IF lock = r THEN NoOne ELSE lock
  /\ UNCHANGED <<blocked, files, required, outbox, idem, budget>>

Commit(r) ==
  /\ At(r, "commit")
  /\ IF NumberTaken(r)
     THEN Answered(r) /\ UNCHANGED <<status, action, attempts>>
     ELSE /\ attempts' = attempts \cup {AttemptOf(r)}
          /\ status' = StatusAfter(req[r].op, ~req[r].failed)
          /\ action' = IF req[r].op = "verify" THEN action ELSE ActionsAfter(r)
          /\ req' = Goto(r, "publish")
          /\ lock' = IF lock = r THEN NoOne ELSE lock
  /\ UNCHANGED <<blocked, files, required, outbox, idem, budget>>

(***************************************************************************)
(* After the transaction                                                   *)
(***************************************************************************)
PublishSuccess(r) ==                                                    \* mutant
  /\ At(r, "publish")
  /\ outbox' = IF req[r].failed THEN outbox
               ELSE outbox \cup {[op |-> req[r].op, number |-> req[r].number, ok |-> TRUE]}
  /\ IF req[r].key = NoKey THEN Answered(r) ELSE req' = Goto(r, "store") /\ UNCHANGED lock
  /\ UNCHANGED <<blocked, status, action, attempts, files, required, idem, budget>>

\* INSERT ... ON CONFLICT (dedupe_key) DO NOTHING.
Publish(r) ==
  /\ At(r, "publish")
  /\ outbox' = outbox \cup {[op |-> req[r].op, number |-> req[r].number, ok |-> ~req[r].failed]}
  /\ IF req[r].key = NoKey THEN Answered(r) ELSE req' = Goto(r, "store") /\ UNCHANGED lock
  /\ UNCHANGED <<blocked, status, action, attempts, files, required, idem, budget>>

\* The upsert of the idempotency record writes only over the same request hash; a
\* request with another hash fails here, after all it has done.
Store(r) ==
  LET k == <<req[r].op, req[r].key>> IN
  /\ At(r, "store")
  /\ idem' = IF idem[k].hash \in {"none", req[r].hash}
             THEN [idem EXCEPT ![k] = [hash   |-> req[r].hash, number |-> req[r].number,
                                       ok     |-> ~req[r].failed]]
             ELSE idem
  /\ Answered(r)
  /\ UNCHANGED <<blocked, status, action, attempts, files, required, outbox, budget>>

\* A statement throws, or the process dies with the request in it.
Abandon(r) ==
  /\ ~At(r, "idle")
  /\ crashes < MaxCrashes
  /\ crashes' = crashes + 1
  /\ Answered(r)
  /\ UNCHANGED <<blocked, db, files, required, overlapped, begun, failures>>

\* A profile that requires the package is created.
RequirePackage ==
  /\ ~required
  /\ required' = TRUE
  /\ UNCHANGED <<blocked, db, files, lock, req, budget>>

Step(r) ==
  \/ LoadPlan(r)
  \/ ResolveSource(r)
  \/ CheckReferences(r)
  \/ ResolveAttemptNumber(r)
  \/ TouchFile(r)
  \/ UpdateActionRow(r)
  \/ Commit(r)
  \/ Publish(r)
  \/ Store(r)

Next ==
  \/ \E r \in Requests, op \in Ops, key \in Keys \cup {NoKey}, hash \in Hashes :
       Begin(r, op, key, hash)
  \/ \E r \in Requests : Step(r) \/ Abandon(r)
  \/ RequirePackage

Spec == Init /\ [][Next]_vars

\* The event loop and the database get every request on, and PostgreSQL gives a
\* row lock that is freed again and again to everyone who waits for it in turn.
Fairness == \A r \in Requests : WF_vars(Step(r)) /\ SF_vars(UpdateActionRow(r))

LiveSpec == Spec /\ Fairness

(***************************************************************************)
(* Properties                                                              *)
(***************************************************************************)
TypeOK ==
  /\ blocked \in BOOLEAN /\ required \in BOOLEAN /\ overlapped \in BOOLEAN
  /\ status \in Statuses
  /\ action \in [Scopes -> {"pending", "applied", "failed", "skipped"}]
  /\ attempts \subseteq Attempt
  /\ files \in [Scopes -> BOOLEAN]
  /\ outbox \subseteq Event
  /\ idem \in [Ops \X Keys -> Record]
  /\ lock \in Requests \cup {NoOne}
  /\ req \in [Requests -> Request]
  /\ begun \in 0..MaxRequests /\ failures \in 0..MaxFailures /\ crashes \in 0..MaxCrashes

\* The attempts of a plan are numbered from 1 without a gap or a double, in
\* either table, although every request reads MAX + 1 outside its transaction.
GaplessHistory ==
  \A t \in Tables :
    /\ {a.number : a \in InTable(t)} = 1..Cardinality(InTable(t))
    /\ \A a, b \in InTable(t) : a.number = b.number => a = b

\* The plan, its action rows and its attempts tell the same story: the status is
\* what the latest attempt of one of the tables left, and the action rows are those
\* of the latest attempt that wrote them.
RecordsAgree ==
  /\ status = "planned" <=> attempts = {}
  /\ attempts # {} =>
       \E t \in Tables : /\ InTable(t) # {}
                         /\ status = StatusAfter(Latest(t).op, Latest(t).ok)
  /\ InTable("apply") # {} /\ ~blocked =>
       (Latest("apply").ok <=> \A s \in Scopes : action[s] = "applied")

\* The outbox holds no event of an attempt that was never committed, and a stored
\* response is that of a committed attempt of the same operation, key and payload.
EventsAndRepliesAreTrue ==
  /\ \A e \in outbox : \E a \in attempts : a.op = e.op /\ a.number = e.number /\ a.ok = e.ok
  /\ \A op \in Ops, key \in Keys :
       idem[<<op, key>>] # NoRecord =>
         \E a \in attempts : /\ a.op = op /\ a.key = key
                             /\ a.hash = idem[<<op, key>>].hash
                             /\ a.number = idem[<<op, key>>].number
                             /\ a.ok = idem[<<op, key>>].ok

\* While requests come one after the other and none is cut off ...
InSequence == ~overlapped /\ crashes = 0
Quiet      == \A r \in Requests : req[r].pc \in {"idle", "load", "source", "references", "number"}

\* ... the scope files of a plan that no request is working on are what its latest
\* attempt says, all written or all removed, if it succeeded, however many failed
\* writes and rollbacks came before.  A plan the policy blocks, on which every other
\* operation is allowed, has no entry at any time (install-lifecycle-policy-gate.test.ts).
FilesFollowTheAttempt ==
  /\ blocked => \A s \in Scopes : ~files[s]
  /\ InSequence /\ Quiet /\ ~blocked /\ InTable("apply") # {} /\ Latest("apply").ok =>
       \A s \in Scopes : files[s] = (Latest("apply").mode = "write")

\* Same key, same request hash: replay (v1-lifecycle-api-contract.md).  An operation
\* is carried out once per key and payload.
OncePerKey ==
  \A a, b \in attempts : a.key # NoKey /\ a.key = b.key /\ a.op = b.op /\ a.hash = b.hash => a = b

\* The idempotency records achieve that for requests that come one after the other.
OncePerKeyInSequence == InSequence => OncePerKey

\* Every request is answered, whoever else is cut off in the middle of a
\* transaction: none waits for ever for a row lock.
EveryRequestAnswered == \A r \in Requests : ~At(r, "idle") ~> At(r, "idle")

\* Every committed attempt gets its outbox event, if no request is cut off.
EveryAttemptPublished ==
  \A op \in Ops, n \in 1..MaxRequests, ok \in BOOLEAN :
    (\E a \in attempts : a.op = op /\ a.number = n /\ a.ok = ok)
      ~> [op |-> op, number |-> n, ok |-> ok] \in outbox \/ crashes > 0
=============================================================================
