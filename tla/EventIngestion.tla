--------------------------- MODULE EventIngestion ---------------------------
(***************************************************************************)
(* POST /v1/events (apps/control-plane/src/index.ts, ingest, over the      *)
(* adapters of postgres-adapters.ts): an event is looked up by its         *)
(* idempotency key, stored in raw_events, evaluated for fraud, recorded    *)
(* under its key and at last announced by two outbox events.  Every step   *)
(* is a statement of its own, none is in a transaction with another, and   *)
(* clients send events again, at the same time and after lost answers.     *)
(***************************************************************************)
EXTENDS Integers, FiniteSets

CONSTANTS
  Events,     \* what clients send
  Id, Key,    \* event_id and idempotency_key of an event
  Hash,       \* getRequestHash: everything that identifies it but the payload
  NumRules,   \* fraud evaluations an event gets
  Requests,   \* slots for requests in flight together
  NoEvent,
  MaxSends,   \* bound: requests begun
  MaxCrashes  \* bound: requests cut off

Keys == {Key[e] : e \in Events}

ASSUME IngestionAssumption ==
  /\ NoEvent \notin Events
  /\ \A e, f \in Events : Hash[e] = Hash[f] => Id[e] = Id[f] /\ Key[e] = Key[f]
  /\ NumRules \in Nat /\ MaxSends \in Nat /\ MaxCrashes \in Nat

VARIABLES
  raw,       \* events with a row in raw_events
  flags,     \* how many of its evaluations are in event_flags
  idem,      \* whose response is recorded under a key
  outbox,    \* dedupe keys in ingestion_outbox
  req,       \* the requests in flight
  answers,   \* history: what clients have been told of an event
  accepted,  \* history: how often a key has been answered "accepted"
  sends, crashes   \* what has been used of the bounds

vars == <<raw, flags, idem, outbox, req, answers, accepted, sends, crashes>>

Points  == {"idle", "lookup", "append", "evaluate", "put", "fraud", "ranking"}
Request == [pc : Points, event : Events \cup {NoEvent}]
Replies == {"accepted", "replayed", "conflict", "failed"}

NoRequest      == [pc |-> "idle", event |-> NoEvent]
At(r, point)   == req[r].pc = point
Event(r)       == req[r].event
Goto(r, point) == req' = [req EXCEPT ![r].pc = point]

Fanout == {"fraud", "ranking"}
DedupeKey(e, kind) == <<Id[e], Key[e], kind>>

Init ==
  /\ raw = {} /\ outbox = {} /\ answers = {}
  /\ flags = [e \in Events |-> 0]
  /\ idem = [k \in Keys |-> NoEvent]
  /\ req = [r \in Requests |-> NoRequest]
  /\ accepted = [k \in Keys |-> 0]
  /\ sends = 0 /\ crashes = 0

Answer(r, reply) ==
  /\ req' = [req EXCEPT ![r] = NoRequest]
  /\ answers' = answers \cup {<<Event(r), reply>>}

(***************************************************************************)
(* ingest                                                                  *)
(***************************************************************************)
\* A valid event arrives, for the first time or again.
Send(r, e) ==
  /\ At(r, "idle")
  /\ sends < MaxSends /\ sends' = sends + 1
  /\ req' = [req EXCEPT ![r] = [pc |-> "lookup", event |-> e]]
  /\ UNCHANGED <<raw, flags, idem, outbox, answers, accepted, crashes>>

LookupAnyHash(r) ==                                                     \* mutant
  /\ At(r, "lookup")
  /\ IF idem[Key[Event(r)]] = NoEvent
     THEN Goto(r, "append") /\ UNCHANGED answers
     ELSE Answer(r, "replayed")
  /\ UNCHANGED <<raw, flags, idem, outbox, accepted, sends, crashes>>
Lookup(r) ==
  LET known == idem[Key[Event(r)]] IN
  /\ At(r, "lookup")
  /\ \/ known = NoEvent /\ Goto(r, "append") /\ UNCHANGED answers
     \/ /\ known # NoEvent
        /\ Answer(r, IF Hash[known] = Hash[Event(r)] THEN "replayed" ELSE "conflict")
  /\ UNCHANGED <<raw, flags, idem, outbox, accepted, sends, crashes>>

AppendScoped(r) ==                                                      \* mutant
  /\ At(r, "append")
  /\ raw' = raw \cup {Event(r)} /\ Goto(r, "evaluate") /\ UNCHANGED answers
  /\ UNCHANGED <<flags, idem, outbox, accepted, sends, crashes>>
\* INSERT INTO raw_events, where event_id and (scope, idempotency_key) are unique: a
\* second event with either makes the request fail.
AppendRawEvent(r) ==
  /\ At(r, "append")
  /\ IF \E e \in raw : Id[e] = Id[Event(r)] \/ Key[e] = Key[Event(r)]
     THEN Answer(r, "failed") /\ UNCHANGED raw
     ELSE raw' = raw \cup {Event(r)} /\ Goto(r, "evaluate") /\ UNCHANGED answers
  /\ UNCHANGED <<flags, idem, outbox, accepted, sends, crashes>>

\* evaluate, then an upsert for every evaluation.
RecordEvaluation(r) ==
  /\ At(r, "evaluate")
  /\ IF flags[Event(r)] < NumRules
     THEN flags' = [flags EXCEPT ![Event(r)] = @ + 1] /\ UNCHANGED req
     ELSE Goto(r, "put") /\ UNCHANGED flags
  /\ UNCHANGED <<raw, idem, outbox, answers, accepted, sends, crashes>>

PutLast(r) ==                                                           \* mutant
  /\ At(r, "put")
  /\ Goto(r, "fraud")
  /\ UNCHANGED <<raw, flags, idem, outbox, answers, accepted, sends, crashes>>
\* The upsert of the record, which refuses to write over another hash.
PutIdempotencyRecord(r) ==
  LET k == Key[Event(r)] IN
  /\ At(r, "put")
  /\ IF idem[k] = NoEvent \/ Hash[idem[k]] = Hash[Event(r)]
     THEN idem' = [idem EXCEPT ![k] = Event(r)] /\ Goto(r, "fraud") /\ UNCHANGED answers
     ELSE Answer(r, "failed") /\ UNCHANGED idem
  /\ UNCHANGED <<raw, flags, outbox, accepted, sends, crashes>>

PublishFraudOnly(r) ==                                                  \* mutant
  /\ At(r, "fraud")
  /\ outbox' = outbox \cup {DedupeKey(Event(r), "fraud")}
  /\ Answer(r, "accepted")
  /\ accepted' = [accepted EXCEPT ![Key[Event(r)]] = @ + 1]
  /\ UNCHANGED <<raw, flags, idem, sends, crashes>>
\* The two events, ON CONFLICT (dedupe_key) DO NOTHING.
PublishFraud(r) ==
  /\ At(r, "fraud")
  /\ outbox' = outbox \cup {DedupeKey(Event(r), "fraud")}
  /\ Goto(r, "ranking")
  /\ UNCHANGED <<raw, flags, idem, answers, accepted, sends, crashes>>

PublishRanking(r) ==
  /\ At(r, "ranking")
  /\ outbox' = outbox \cup {DedupeKey(Event(r), "ranking")}
  /\ Answer(r, "accepted")
  /\ accepted' = [accepted EXCEPT ![Key[Event(r)]] = @ + 1]
  /\ UNCHANGED <<raw, flags, idem, sends, crashes>>

\* A statement throws, or the process dies: the client is not told what was done.
Abandon(r) ==
  /\ ~At(r, "idle")
  /\ crashes < MaxCrashes /\ crashes' = crashes + 1
  /\ Answer(r, "failed")
  /\ UNCHANGED <<raw, flags, idem, outbox, accepted, sends>>

Step(r) ==
  \/ Lookup(r)
  \/ AppendRawEvent(r)
  \/ RecordEvaluation(r)
  \/ PutIdempotencyRecord(r)
  \/ PublishFraud(r)
  \/ PublishRanking(r)

Next ==
  \/ \E r \in Requests, e \in Events : Send(r, e)
  \/ \E r \in Requests : Step(r) \/ Abandon(r)

Spec == Init /\ [][Next]_vars

\* Statements are answered and their continuations run.
Fairness == \A r \in Requests : WF_vars(Step(r))

LiveSpec == Spec /\ Fairness

(***************************************************************************)
(* Properties                                                              *)
(***************************************************************************)
TypeOK ==
  /\ raw \subseteq Events
  /\ flags \in [Events -> 0..NumRules]
  /\ idem \in [Keys -> Events \cup {NoEvent}]
  /\ outbox \subseteq {DedupeKey(e, kind) : e \in Events, kind \in Fanout}
  /\ req \in [Requests -> Request]
  /\ answers \subseteq Events \X Replies
  /\ accepted \in [Keys -> Nat]
  /\ sends \in 0..MaxSends /\ crashes \in 0..MaxCrashes

\* A key is accepted once, whatever is sent under it at the same time.
AcceptedOncePerKey == \A k \in Keys : accepted[k] <= 1

\* An event that a client was told is accepted is stored, evaluated, recorded and
\* announced in full, and "outbox fanout only occurs on accepted events"
\* (event-ingestion-fraud-baseline.md): nothing is announced that a later request
\* with the same key would not find recorded.
AcceptedIsComplete ==
  \A e \in Events :
    /\ <<e, "accepted">> \in answers =>
         /\ e \in raw
         /\ flags[e] = NumRules
         /\ idem[Key[e]] = e
         /\ \A kind \in Fanout : DedupeKey(e, kind) \in outbox
    /\ e \in raw /\ (\E kind \in Fanout : DedupeKey(e, kind) \in outbox) => idem[Key[e]] = e

\* A client is told "replayed" only of an event that is stored and evaluated, under
\* the same hash, and "conflict" only if another one has its key.
RepliesAreTrue ==
  \A e \in Events :
    /\ <<e, "replayed">> \in answers =>
         \E f \in raw : Hash[f] = Hash[e] /\ flags[f] = NumRules
    /\ <<e, "conflict">> \in answers =>
         \E f \in raw : Key[f] = Key[e] /\ Hash[f] # Hash[e]

\* While no request is cut off, every stored event is announced.
EveryEventIsAnnounced ==
  \A e \in Events, kind \in Fanout :
    e \in raw ~> DedupeKey(e, kind) \in outbox \/ crashes > 0
=============================================================================
