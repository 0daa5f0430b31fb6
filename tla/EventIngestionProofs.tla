------------------------ MODULE EventIngestionProofs ------------------------
(***************************************************************************)
(* Theorems about EventIngestion, for any events, keys, hashes, fraud      *)
(* rules, requests in flight and requests cut off.                         *)
(***************************************************************************)
EXTENDS EventIngestion, TLAPS

\* The request has stored its event and works on it.
Past(r) == req[r].pc \in {"evaluate", "put", "fraud", "ranking"}

\* A stored event is the only one with its id, and with its key.
RawIsUnique ==
  \A e, f \in raw : Id[e] = Id[f] \/ Key[e] = Key[f] => e = f

\* An event is worked on by the request that stored it and by no other, and how far
\* the request has come tells what is on record of the event.
WorkIsRecorded ==
  \A r \in Requests :
    /\ req[r].pc # "idle" => req[r].event \in Events
    /\ Past(r) =>
         /\ req[r].event \in raw
         /\ \A s \in Requests : Past(s) /\ s # r => req[s].event # req[r].event
    /\ req[r].pc \in {"put", "fraud", "ranking"} => flags[req[r].event] = NumRules
    /\ req[r].pc \in {"evaluate", "put"} => idem[Key[req[r].event]] = NoEvent
    /\ req[r].pc \in {"fraud", "ranking"} => idem[Key[req[r].event]] = req[r].event
    /\ req[r].pc = "ranking" => DedupeKey(req[r].event, "fraud") \in outbox

\* The record of a key is a stored and evaluated event with that key.
RecordIsStored ==
  \A k \in Keys : idem[k] # NoEvent =>
    /\ idem[k] \in raw
    /\ Key[idem[k]] = k
    /\ flags[idem[k]] = NumRules

\* An accepted key is recorded, and nobody works on it any more.
AcceptedIsOver ==
  \A k \in Keys :
    \/ accepted[k] = 0
    \/ /\ accepted[k] = 1
       /\ idem[k] # NoEvent
       /\ \A r \in Requests : Past(r) => Key[req[r].event] # k

\* Nothing is announced of an event that is not stored.
AnnouncedIsStored ==
  \A d \in outbox : \E e \in raw, kind \in Fanout : d = DedupeKey(e, kind)

IInv == /\ TypeOK /\ AnnouncedIsStored /\ RawIsUnique /\ WorkIsRecorded /\ RecordIsStored /\ AcceptedIsOver
        /\ AcceptedIsComplete /\ RepliesAreTrue

(***************************************************************************)
(* How a request moves on, and how it ends.                                *)
(***************************************************************************)
LEMMA GotoFacts ==
  ASSUME req \in [Requests -> Request], NEW r \in Requests, NEW p \in Points, Goto(r, p)
  PROVE  /\ req' \in [Requests -> Request]
         /\ req'[r].pc = p /\ req'[r].event = req[r].event
         /\ \A s \in Requests : s # r => req'[s] = req[s]
BY DEF Goto, Request

LEMMA AnswerFacts ==
  ASSUME TypeOK, WorkIsRecorded, NEW r \in Requests, req[r].pc # "idle",
         NEW reply \in Replies, Answer(r, reply)
  PROVE  /\ req' \in [Requests -> Request]
         /\ req'[r].pc = "idle"
         /\ \A s \in Requests : s # r => req'[s] = req[s]
         /\ answers' = answers \cup {<<req[r].event, reply>>}
         /\ answers' \subseteq Events \X Replies
<1>1. req[r].event \in Events
  BY DEF WorkIsRecorded
<1> QED BY <1>1 DEF Answer, NoRequest, Request, Points, TypeOK, Event

\* Two stored events with one dedupe key are one event.
LEMMA DedupeKeyIsOne ==
  ASSUME NEW e, NEW f, NEW kind, NEW other, DedupeKey(e, kind) = DedupeKey(f, other)
  PROVE  Id[e] = Id[f] /\ Key[e] = Key[f]
BY DEF DedupeKey

LEMMA InitInvariant == Init => IInv
BY IngestionAssumption
   DEF Init, IInv, TypeOK, RawIsUnique, WorkIsRecorded, RecordIsStored, AcceptedIsOver,
       AcceptedIsComplete, RepliesAreTrue, AnnouncedIsStored, Past, NoRequest, Request, Points

\* A request that only moves between idle and append, or ends, changes nothing else.
LEMMA OthersStay ==
  ASSUME IInv, NEW r \in Requests, req' \in [Requests -> Request],
         \A s \in Requests : s # r => req'[s] = req[s],
         req'[r].pc \in {"idle", "lookup", "append"},
         req'[r].pc # "idle" => req'[r].event \in Events,
         UNCHANGED <<raw, flags, idem, outbox>>
  PROVE  AnnouncedIsStored' /\ RawIsUnique' /\ WorkIsRecorded' /\ RecordIsStored'
         /\ (accepted' = accepted => AcceptedIsOver')
<1>1. \A s \in Requests : Past(s)' => Past(s) /\ s # r
  BY DEF Past
<1>2. AnnouncedIsStored' /\ RawIsUnique' /\ RecordIsStored'
  BY DEF IInv, AnnouncedIsStored, RawIsUnique, RecordIsStored, DedupeKey
<1>3. WorkIsRecorded'
  BY <1>1 DEF IInv, WorkIsRecorded, Past, DedupeKey
<1>4. ASSUME accepted' = accepted PROVE AcceptedIsOver'
  BY <1>1, <1>4 DEF IInv, AcceptedIsOver
<1> QED BY <1>2, <1>3, <1>4

\* What clients have been told stays true while the tables only grow.
LEMMA TalkStays ==
  ASSUME IInv, answers' = answers, UNCHANGED <<raw, flags, idem, outbox>>
  PROVE  AcceptedIsComplete' /\ RepliesAreTrue'
BY DEF IInv, AcceptedIsComplete, RepliesAreTrue, DedupeKey

(***************************************************************************)
(* The steps.                                                              *)
(***************************************************************************)
LEMMA SendKeeps ==
  ASSUME IInv, NEW r \in Requests, NEW e \in Events, Send(r, e) PROVE IInv'
<1>1. /\ req' \in [Requests -> Request] /\ req'[r].pc = "lookup" /\ req'[r].event = e
      /\ \A s \in Requests : s # r => req'[s] = req[s]
  BY DEF Send, IInv, TypeOK, Request, Points
<1>2. TypeOK'
  BY <1>1, IngestionAssumption DEF Send, IInv, TypeOK, DedupeKey
<1>3. AnnouncedIsStored' /\ RawIsUnique' /\ WorkIsRecorded' /\ RecordIsStored' /\ AcceptedIsOver'
  BY <1>1, OthersStay DEF Send
<1>4. AcceptedIsComplete' /\ RepliesAreTrue'
  BY TalkStays DEF Send
<1> QED BY <1>2, <1>3, <1>4 DEF IInv

LEMMA LookupKeeps ==
  ASSUME IInv, NEW r \in Requests, Lookup(r) PROVE IInv'
<1> DEFINE known == idem[Key[Event(r)]]
<1>1. /\ req[r].pc = "lookup" /\ Event(r) \in Events /\ Key[Event(r)] \in Keys
      /\ UNCHANGED <<raw, flags, idem, outbox, accepted, sends, crashes>>
  BY DEF Lookup, At, IInv, WorkIsRecorded, Event, Keys
<1>2. CASE known = NoEvent /\ Goto(r, "append") /\ UNCHANGED answers
  <2>1. /\ req' \in [Requests -> Request] /\ req'[r].pc = "append"
        /\ req'[r].event = req[r].event /\ \A s \in Requests : s # r => req'[s] = req[s]
    BY <1>2, GotoFacts DEF IInv, TypeOK, Points
  <2>2. AnnouncedIsStored' /\ RawIsUnique' /\ WorkIsRecorded' /\ RecordIsStored' /\ AcceptedIsOver'
    BY <1>1, <2>1, OthersStay DEF Event
  <2>3. AcceptedIsComplete' /\ RepliesAreTrue'
    BY <1>1, <1>2, TalkStays
  <2>4. TypeOK'
    BY <1>1, <1>2, <2>1 DEF IInv, TypeOK, DedupeKey
  <2> QED BY <2>2, <2>3, <2>4 DEF IInv
<1>3. CASE known # NoEvent
           /\ Answer(r, IF Hash[known] = Hash[Event(r)] THEN "replayed" ELSE "conflict")
  <2> DEFINE reply == IF Hash[known] = Hash[Event(r)] THEN "replayed" ELSE "conflict"
  <2>1. reply \in Replies
    BY DEF Replies
  <2>2. /\ req' \in [Requests -> Request] /\ req'[r].pc = "idle"
        /\ \A s \in Requests : s # r => req'[s] = req[s]
        /\ answers' = answers \cup {<<req[r].event, reply>>}
        /\ answers' \subseteq Events \X Replies
    BY <1>1, <1>3, <2>1, AnswerFacts DEF IInv
  <2>3. AnnouncedIsStored' /\ RawIsUnique' /\ WorkIsRecorded' /\ RecordIsStored' /\ AcceptedIsOver'
    BY <1>1, <2>2, OthersStay
  <2>4. TypeOK'
    BY <1>1, <2>2 DEF IInv, TypeOK, DedupeKey
  <2>5. known \in raw /\ Key[known] = Key[Event(r)] /\ flags[known] = NumRules
    BY <1>1, <1>3 DEF IInv, RecordIsStored
  <2>6. RepliesAreTrue'
    <3>1. /\ reply = "replayed" => Hash[known] = Hash[Event(r)]
          /\ reply = "conflict" => Hash[known] # Hash[Event(r)]
      OBVIOUS
    <3>2. ASSUME NEW e \in Events, <<e, "replayed">> \in answers'
          PROVE  \E f \in raw : Hash[f] = Hash[e] /\ flags[f] = NumRules
      <4>1. <<e, "replayed">> \in answers \/ (e = Event(r) /\ reply = "replayed")
        BY <2>2, <3>2 DEF Event
      <4>2. CASE <<e, "replayed">> \in answers
        BY <4>2 DEF IInv, RepliesAreTrue
      <4>3. CASE e = Event(r) /\ reply = "replayed"
        <5>1. Hash[known] = Hash[e]
          BY <2>5, <3>1, <4>3
        <5> QED BY <2>5, <5>1
      <4> QED BY <4>1, <4>2, <4>3
    <3>3. ASSUME NEW e \in Events, <<e, "conflict">> \in answers'
          PROVE  \E f \in raw : Key[f] = Key[e] /\ Hash[f] # Hash[e]
      <4>1. <<e, "conflict">> \in answers \/ (e = Event(r) /\ reply = "conflict")
        BY <2>2, <3>3 DEF Event
      <4>2. CASE <<e, "conflict">> \in answers
        BY <4>2 DEF IInv, RepliesAreTrue
      <4>3. CASE e = Event(r) /\ reply = "conflict"
        <5>1. Key[known] = Key[e] /\ Hash[known] # Hash[e]
          BY <2>5, <3>1, <4>3
        <5> QED BY <2>5, <5>1
      <4> QED BY <4>1, <4>2, <4>3
    <3> QED BY <1>1, <3>2, <3>3 DEF RepliesAreTrue
  <2>7. AcceptedIsComplete'
    BY <1>1, <2>2 DEF IInv, AcceptedIsComplete, DedupeKey
  <2> QED BY <2>3, <2>4, <2>6, <2>7 DEF IInv
<1> QED BY <1>2, <1>3 DEF Lookup

LEMMA AbandonKeeps ==
  ASSUME IInv, NEW r \in Requests, Abandon(r) PROVE IInv'
<1>1. req[r].pc # "idle" /\ Answer(r, "failed") /\ "failed" \in Replies
  BY DEF Abandon, At, Replies
<1>2. /\ req' \in [Requests -> Request] /\ req'[r].pc = "idle"
      /\ \A s \in Requests : s # r => req'[s] = req[s]
      /\ answers' = answers \cup {<<req[r].event, "failed">>}
      /\ answers' \subseteq Events \X Replies
  BY <1>1, AnswerFacts DEF IInv
<1>3. AnnouncedIsStored' /\ RawIsUnique' /\ WorkIsRecorded' /\ RecordIsStored' /\ AcceptedIsOver'
  BY <1>2, OthersStay DEF Abandon
<1>4. TypeOK'
  BY <1>2, IngestionAssumption DEF Abandon, IInv, TypeOK, DedupeKey
<1>5. AcceptedIsComplete' /\ RepliesAreTrue'
  BY <1>2 DEF Abandon, IInv, AcceptedIsComplete, RepliesAreTrue, DedupeKey
<1> QED BY <1>3, <1>4, <1>5 DEF IInv

LEMMA AppendKeeps ==
  ASSUME IInv, NEW r \in Requests, AppendRawEvent(r) PROVE IInv'
<1>1. /\ req[r].pc = "append" /\ Event(r) \in Events /\ Key[Event(r)] \in Keys
      /\ UNCHANGED <<flags, idem, outbox, accepted, sends, crashes>>
  BY DEF AppendRawEvent, At, IInv, WorkIsRecorded, Event, Keys
<1>2. CASE \E e \in raw : Id[e] = Id[Event(r)] \/ Key[e] = Key[Event(r)]
  <2>1. Answer(r, "failed") /\ raw' = raw /\ "failed" \in Replies
    BY <1>2 DEF AppendRawEvent, Replies
  <2>2. /\ req' \in [Requests -> Request] /\ req'[r].pc = "idle"
        /\ \A s \in Requests : s # r => req'[s] = req[s]
        /\ answers' = answers \cup {<<req[r].event, "failed">>}
        /\ answers' \subseteq Events \X Replies
    BY <1>1, <2>1, AnswerFacts DEF IInv
  <2>3. AnnouncedIsStored' /\ RawIsUnique' /\ WorkIsRecorded' /\ RecordIsStored' /\ AcceptedIsOver'
    BY <1>1, <2>1, <2>2, OthersStay
  <2>4. TypeOK'
    BY <1>1, <2>1, <2>2 DEF IInv, TypeOK, DedupeKey
  <2>5. AcceptedIsComplete' /\ RepliesAreTrue'
    BY <1>1, <2>1, <2>2 DEF IInv, AcceptedIsComplete, RepliesAreTrue, DedupeKey
  <2> QED BY <2>3, <2>4, <2>5 DEF IInv
<1>3. CASE ~\E e \in raw : Id[e] = Id[Event(r)] \/ Key[e] = Key[Event(r)]
  <2>1. raw' = raw \cup {Event(r)} /\ Goto(r, "evaluate") /\ answers' = answers
    BY <1>3 DEF AppendRawEvent
  <2>2. /\ req' \in [Requests -> Request] /\ req'[r].pc = "evaluate"
        /\ req'[r].event = Event(r) /\ \A s \in Requests : s # r => req'[s] = req[s]
    BY <2>1, GotoFacts DEF IInv, TypeOK, Points, Event
  <2>3. Event(r) \notin raw /\ idem[Key[Event(r)]] = NoEvent
    BY <1>1, <1>3 DEF IInv, RecordIsStored
  <2>4. TypeOK'
    BY <1>1, <2>1, <2>2 DEF IInv, TypeOK, DedupeKey
  <2>5. RawIsUnique'
    BY <1>3, <2>1 DEF IInv, RawIsUnique
  <2>6. RecordIsStored'
    BY <1>1, <2>1 DEF IInv, RecordIsStored
  <2>7. WorkIsRecorded'
    <3>1. \A s \in Requests : s # r /\ Past(s) => req[s].event # Event(r)
      BY <2>3 DEF IInv, WorkIsRecorded
    <3>2. \A s \in Requests : s # r => (Past(s)' <=> Past(s))
      BY <2>2 DEF Past
    <3> QED BY <1>1, <2>1, <2>2, <2>3, <3>1, <3>2 DEF IInv, WorkIsRecorded, Past, DedupeKey
  <2>8. AcceptedIsOver'
    <3>1. \A k \in Keys : idem[k] # NoEvent => k # Key[Event(r)]
      BY <2>3
    <3>2. \A s \in Requests : s # r => (Past(s)' <=> Past(s))
      BY <2>2 DEF Past
    <3> QED BY <1>1, <2>2, <3>1, <3>2 DEF IInv, AcceptedIsOver
  <2>9. RepliesAreTrue'
    BY <1>1, <2>1 DEF IInv, RepliesAreTrue
  <2>10. AcceptedIsComplete'
    <3> SUFFICES ASSUME NEW kind \in Fanout, DedupeKey(Event(r), kind) \in outbox PROVE FALSE
      BY <1>1, <2>1 DEF IInv, AcceptedIsComplete, DedupeKey
    <3>1. PICK e \in raw, other \in Fanout : DedupeKey(Event(r), kind) = DedupeKey(e, other)
      BY DEF IInv, AnnouncedIsStored
    <3> QED BY <1>3, <3>1, DedupeKeyIsOne
  <2>11. AnnouncedIsStored'
    BY <1>1, <2>1 DEF IInv, AnnouncedIsStored, DedupeKey
  <2> QED BY <2>4, <2>5, <2>6, <2>7, <2>8, <2>9, <2>10, <2>11 DEF IInv
<1> QED BY <1>2, <1>3
LEMMA EvaluateKeeps ==
  ASSUME IInv, NEW r \in Requests, RecordEvaluation(r) PROVE IInv'
<1>1. /\ req[r].pc = "evaluate" /\ Event(r) \in Events /\ Event(r) \in raw
      /\ Event(r) = req[r].event
      /\ idem[Key[Event(r)]] = NoEvent /\ Key[Event(r)] \in Keys
      /\ \A s \in Requests : Past(s) /\ s # r => req[s].event # Event(r)
      /\ flags[Event(r)] \in 0..NumRules /\ NumRules \in Nat
      /\ UNCHANGED <<raw, idem, outbox, answers, accepted, sends, crashes>>
  BY IngestionAssumption
     DEF RecordEvaluation, At, IInv, TypeOK, WorkIsRecorded, Event, Keys, Past
<1>2. CASE flags[Event(r)] < NumRules
  <2>1. flags' = [flags EXCEPT ![Event(r)] = @ + 1] /\ req' = req
    BY <1>2 DEF RecordEvaluation
  <2>2. /\ flags' \in [Events -> 0..NumRules]
        /\ \A e \in Events : flags[e] = NumRules => flags'[e] = NumRules
        /\ \A e \in Events : e # Event(r) => flags'[e] = flags[e]
    BY <1>1, <1>2, <2>1 DEF IInv, TypeOK
  <2>3. TypeOK'
    BY <1>1, <2>1, <2>2 DEF IInv, TypeOK, DedupeKey
  <2>4. raw \subseteq Events /\ \A k \in Keys : idem[k] \in raw => idem[k] \in Events
    BY DEF IInv, TypeOK
  <2>5. AnnouncedIsStored' /\ RawIsUnique' /\ RecordIsStored' /\ AcceptedIsOver'
    BY <1>1, <2>1, <2>2, <2>4
       DEF IInv, AnnouncedIsStored, RawIsUnique, RecordIsStored, AcceptedIsOver, Past, DedupeKey
  <2>6. WorkIsRecorded'
    BY <1>1, <2>1, <2>2 DEF IInv, WorkIsRecorded, Past, DedupeKey
  <2>7. AcceptedIsComplete' /\ RepliesAreTrue'
    BY <1>1, <2>1, <2>2, <2>4 DEF IInv, AcceptedIsComplete, RepliesAreTrue, DedupeKey
  <2> QED BY <2>3, <2>5, <2>6, <2>7 DEF IInv
<1>3. CASE ~(flags[Event(r)] < NumRules)
  <2>1. Goto(r, "put") /\ flags' = flags /\ flags[Event(r)] = NumRules
    BY <1>1, <1>3 DEF RecordEvaluation
  <2>2. /\ req' \in [Requests -> Request] /\ req'[r].pc = "put"
        /\ req'[r].event = Event(r) /\ \A s \in Requests : s # r => req'[s] = req[s]
    BY <2>1, GotoFacts DEF IInv, TypeOK, Points, Event
  <2>3. \A s \in Requests : (Past(s)' <=> Past(s)) /\ req'[s].event = req[s].event
    BY <1>1, <2>2 DEF Past
  <2>4. TypeOK'
    BY <1>1, <2>1, <2>2 DEF IInv, TypeOK, DedupeKey
  <2>5. AnnouncedIsStored' /\ RawIsUnique' /\ RecordIsStored' /\ AcceptedIsOver'
    BY <1>1, <2>1, <2>3
       DEF IInv, AnnouncedIsStored, RawIsUnique, RecordIsStored, AcceptedIsOver, DedupeKey
  <2>6. WorkIsRecorded'
    BY <1>1, <2>1, <2>2, <2>3 DEF IInv, WorkIsRecorded, DedupeKey
  <2>7. AcceptedIsComplete' /\ RepliesAreTrue'
    BY <1>1, <2>1, TalkStays
  <2> QED BY <2>4, <2>5, <2>6, <2>7 DEF IInv
<1> QED BY <1>2, <1>3

LEMMA PutKeeps ==
  ASSUME IInv, NEW r \in Requests, PutIdempotencyRecord(r) PROVE IInv'
<1> DEFINE k == Key[Event(r)]
<1>1. /\ req[r].pc = "put" /\ Event(r) \in Events /\ Event(r) \in raw
      /\ Event(r) = req[r].event /\ Event(r) # NoEvent
      /\ idem[k] = NoEvent /\ k \in Keys /\ flags[Event(r)] = NumRules
      /\ \A s \in Requests : Past(s) /\ s # r => req[s].event # Event(r)
      /\ UNCHANGED <<raw, flags, outbox, accepted, sends, crashes>>
  BY IngestionAssumption
     DEF PutIdempotencyRecord, At, IInv, TypeOK, WorkIsRecorded, Event, Keys, Past
<1>2. idem' = [idem EXCEPT ![k] = Event(r)] /\ Goto(r, "fraud") /\ answers' = answers
  BY <1>1 DEF PutIdempotencyRecord
<1>3. /\ req' \in [Requests -> Request] /\ req'[r].pc = "fraud"
      /\ req'[r].event = Event(r) /\ \A s \in Requests : s # r => req'[s] = req[s]
  BY <1>2, GotoFacts DEF IInv, TypeOK, Points, Event
<1>4. \A s \in Requests : (Past(s)' <=> Past(s)) /\ req'[s].event = req[s].event
  BY <1>1, <1>3 DEF Past
<1>5. idem' \in [Keys -> Events \cup {NoEvent}] /\ idem'[k] = Event(r)
      /\ \A q \in Keys : q # k => idem'[q] = idem[q]
  BY <1>1, <1>2 DEF IInv, TypeOK
<1>6. TypeOK'
  BY <1>1, <1>2, <1>3, <1>5 DEF IInv, TypeOK, DedupeKey
\* Whoever else works on an event works on one with another key.
<1>7. \A s \in Requests : s # r /\ Past(s) => Key[req[s].event] # k
  <2> SUFFICES ASSUME NEW s \in Requests, s # r, Past(s), Key[req[s].event] = k PROVE FALSE
    OBVIOUS
  <2>1. req[s].event \in raw /\ req[s].event # Event(r)
    BY <1>1 DEF IInv, WorkIsRecorded
  <2> QED BY <1>1, <2>1 DEF IInv, RawIsUnique
<1>8. AnnouncedIsStored' /\ RawIsUnique'
  BY <1>1 DEF IInv, AnnouncedIsStored, RawIsUnique, DedupeKey
<1>9. RecordIsStored'
  BY <1>1, <1>5 DEF IInv, RecordIsStored
<1>10. AcceptedIsOver'
  <2>1. accepted[k] = 0
    BY <1>1 DEF IInv, AcceptedIsOver
  <2> QED BY <1>1, <1>4, <1>5, <2>1 DEF IInv, AcceptedIsOver
<1>11. WorkIsRecorded'
  <2>1. \A s \in Requests : req[s].pc # "idle" => Key[req[s].event] \in Keys
    BY DEF IInv, WorkIsRecorded, Keys
  <2>2. \A s \in Requests : s # r =>
          /\ req[s].pc \in {"evaluate", "put", "fraud", "ranking"} =>
               idem'[Key[req[s].event]] = idem[Key[req[s].event]]
    BY <1>5, <1>7, <2>1 DEF Past
  <2>3. ASSUME NEW s \in Requests, s # r
        PROVE  /\ req[s].pc \in {"evaluate", "put"} => idem'[Key[req[s].event]] = NoEvent
               /\ req[s].pc \in {"fraud", "ranking"} => idem'[Key[req[s].event]] = req[s].event
    BY <2>2, <2>3 DEF IInv, WorkIsRecorded
  <2> QED BY <1>1, <1>3, <1>4, <1>5, <2>3 DEF IInv, WorkIsRecorded, DedupeKey
<1>12. \A e \in Events : idem[Key[e]] # NoEvent => idem'[Key[e]] = idem[Key[e]]
  BY <1>1, <1>5 DEF Keys
<1>13. RepliesAreTrue'
  BY <1>1, <1>2 DEF IInv, RepliesAreTrue
<1>14. AcceptedIsComplete'
  <2> SUFFICES ASSUME NEW e \in Events
               PROVE  /\ <<e, "accepted">> \in answers =>
                           /\ e \in raw /\ flags[e] = NumRules /\ idem'[Key[e]] = e
                           /\ \A kind \in Fanout : DedupeKey(e, kind) \in outbox
                      /\ e \in raw /\ (\E kind \in Fanout : DedupeKey(e, kind) \in outbox)
                           => idem'[Key[e]] = e
    BY <1>1, <1>2 DEF AcceptedIsComplete, DedupeKey
  <2>1. e # NoEvent
    BY IngestionAssumption
  <2> QED BY <1>12, <2>1 DEF IInv, AcceptedIsComplete
<1> QED BY <1>6, <1>8, <1>9, <1>10, <1>11, <1>13, <1>14 DEF IInv

\* An announcement of a recorded event leaves none of a stored and unrecorded one.
LEMMA OneMoreAnnouncement ==
  ASSUME IInv, NEW r \in Requests, NEW kind \in Fanout, Event(r) \in raw,
         idem[Key[Event(r)]] = Event(r),
         outbox' = outbox \cup {DedupeKey(Event(r), kind)}, raw' = raw, idem' = idem,
         NEW e \in raw, NEW other \in Fanout, DedupeKey(e, other) \in outbox'
  PROVE  idem[Key[e]] = e
<1>0. e \in Events
  BY DEF IInv, TypeOK
<1>1. CASE DedupeKey(e, other) \in outbox
  BY <1>0, <1>1 DEF IInv, AcceptedIsComplete
<1>2. CASE DedupeKey(e, other) = DedupeKey(Event(r), kind)
  <2>1. Key[e] = Key[Event(r)]
    BY <1>2, DedupeKeyIsOne
  <2>2. e = Event(r)
    BY <2>1 DEF IInv, RawIsUnique
  <2> QED BY <2>2
<1> QED BY <1>1, <1>2

LEMMA FraudKeeps ==
  ASSUME IInv, NEW r \in Requests, PublishFraud(r) PROVE IInv'
<1>1. /\ req[r].pc = "fraud" /\ Event(r) \in Events /\ Event(r) \in raw
      /\ Event(r) = req[r].event /\ idem[Key[Event(r)]] = Event(r)
      /\ outbox' = outbox \cup {DedupeKey(Event(r), "fraud")} /\ Goto(r, "ranking")
      /\ "fraud" \in Fanout
      /\ UNCHANGED <<raw, flags, idem, answers, accepted, sends, crashes>>
  BY DEF PublishFraud, At, IInv, WorkIsRecorded, Event, Past, Fanout
<1>2. /\ req' \in [Requests -> Request] /\ req'[r].pc = "ranking"
      /\ req'[r].event = Event(r) /\ \A s \in Requests : s # r => req'[s] = req[s]
  BY <1>1, GotoFacts DEF IInv, TypeOK, Points, Event
<1>3. \A s \in Requests : (Past(s)' <=> Past(s)) /\ req'[s].event = req[s].event
  BY <1>1, <1>2 DEF Past
<1>4. TypeOK'
  BY <1>1, <1>2 DEF IInv, TypeOK, DedupeKey
<1>5. AnnouncedIsStored' /\ RawIsUnique' /\ RecordIsStored' /\ AcceptedIsOver'
  BY <1>1, <1>3
     DEF IInv, AnnouncedIsStored, RawIsUnique, RecordIsStored, AcceptedIsOver, DedupeKey
<1>6. WorkIsRecorded'
  BY <1>1, <1>2, <1>3 DEF IInv, WorkIsRecorded, DedupeKey
<1>7. RepliesAreTrue'
  BY <1>1 DEF IInv, RepliesAreTrue
<1>8. AcceptedIsComplete'
  BY <1>1, OneMoreAnnouncement DEF IInv, AcceptedIsComplete
<1> QED BY <1>4, <1>5, <1>6, <1>7, <1>8 DEF IInv

LEMMA RankingKeeps ==
  ASSUME IInv, NEW r \in Requests, PublishRanking(r) PROVE IInv'
<1> DEFINE k == Key[Event(r)]
<1>1. /\ req[r].pc = "ranking" /\ Event(r) \in Events /\ Event(r) \in raw
      /\ Event(r) = req[r].event /\ idem[k] = Event(r) /\ k \in Keys
      /\ flags[Event(r)] = NumRules /\ Event(r) # NoEvent
      /\ DedupeKey(Event(r), "fraud") \in outbox
      /\ \A s \in Requests : Past(s) /\ s # r => req[s].event # Event(r)
      /\ outbox' = outbox \cup {DedupeKey(Event(r), "ranking")} /\ Answer(r, "accepted")
      /\ accepted' = [accepted EXCEPT ![k] = @ + 1]
      /\ "ranking" \in Fanout /\ "accepted" \in Replies
      /\ UNCHANGED <<raw, flags, idem, sends, crashes>>
  BY IngestionAssumption
     DEF PublishRanking, At, IInv, WorkIsRecorded, Event, Past, Fanout, Replies, Keys
<1>2. /\ req' \in [Requests -> Request] /\ req'[r].pc = "idle"
      /\ \A s \in Requests : s # r => req'[s] = req[s]
      /\ answers' = answers \cup {<<Event(r), "accepted">>}
      /\ answers' \subseteq Events \X Replies
  BY <1>1, AnswerFacts DEF IInv
<1>3. \A s \in Requests : Past(s)' => Past(s) /\ s # r /\ req'[s] = req[s]
  BY <1>2 DEF Past
<1>4. accepted[k] = 0
  BY <1>1 DEF IInv, AcceptedIsOver, Past
<1>5. /\ accepted' \in [Keys -> Nat] /\ accepted'[k] = 1
      /\ \A q \in Keys : q # k => accepted'[q] = accepted[q]
  BY <1>1, <1>4 DEF IInv, TypeOK
<1>6. TypeOK'
  BY <1>1, <1>2, <1>5 DEF IInv, TypeOK, DedupeKey
<1>7. AnnouncedIsStored' /\ RawIsUnique' /\ RecordIsStored'
  BY <1>1 DEF IInv, AnnouncedIsStored, RawIsUnique, RecordIsStored, DedupeKey
<1>8. AcceptedIsOver'
  <2>1. \A s \in Requests : Past(s)' => Key[req'[s].event] # k
    BY <1>1, <1>3 DEF IInv, WorkIsRecorded, RawIsUnique
  <2> QED BY <1>1, <1>3, <1>5, <2>1 DEF IInv, AcceptedIsOver
<1>9. WorkIsRecorded'
  BY <1>1, <1>2, <1>3 DEF IInv, WorkIsRecorded, Past, DedupeKey
<1>10. RepliesAreTrue'
  BY <1>1, <1>2 DEF IInv, RepliesAreTrue
<1>11. AcceptedIsComplete'
  <2>1. \A kind \in Fanout : DedupeKey(Event(r), kind) \in outbox'
    BY <1>1 DEF Fanout
  <2>2. \A e \in raw : (\E kind \in Fanout : DedupeKey(e, kind) \in outbox') => idem[Key[e]] = e
    BY <1>1, OneMoreAnnouncement
  <2>3. \A e \in Events, kind \in Fanout :
          DedupeKey(e, kind) \in outbox => DedupeKey(e, kind) \in outbox'
    BY <1>1
  <2>4. \A e \in Events : <<e, "accepted">> \in answers' =>
          e = Event(r) \/ <<e, "accepted">> \in answers
    BY <1>2
  <2>5. ASSUME NEW e \in Events, <<e, "accepted">> \in answers'
        PROVE  /\ e \in raw /\ flags[e] = NumRules /\ idem[Key[e]] = e
               /\ \A kind \in Fanout : DedupeKey(e, kind) \in outbox'
    BY <1>1, <2>1, <2>3, <2>4, <2>5 DEF IInv, AcceptedIsComplete
  <2>6. UNCHANGED <<raw, flags, idem>>
    BY <1>1
  <2> SUFFICES ASSUME NEW e \in Events
               PROVE  /\ <<e, "accepted">> \in answers' =>
                           /\ e \in raw /\ flags[e] = NumRules /\ idem[Key[e]] = e
                           /\ \A kind \in Fanout : DedupeKey(e, kind) \in outbox'
                      /\ e \in raw /\ (\E kind \in Fanout : DedupeKey(e, kind) \in outbox')
                           => idem[Key[e]] = e
    BY <2>6 DEF AcceptedIsComplete, DedupeKey
  <2> QED BY <2>2, <2>5
<1> QED BY <1>6, <1>7, <1>8, <1>9, <1>10, <1>11 DEF IInv

LEMMA Invariant == IInv /\ [Next]_vars => IInv'
<1> SUFFICES ASSUME IInv, [Next]_vars PROVE IInv'
  OBVIOUS
<1>1. CASE UNCHANGED vars
  <2>1. TypeOK'
    BY <1>1 DEF vars, IInv, TypeOK, DedupeKey
  <2>2. AnnouncedIsStored' /\ RawIsUnique' /\ RecordIsStored'
    BY <1>1 DEF vars, IInv, AnnouncedIsStored, RawIsUnique, RecordIsStored, DedupeKey
  <2>3. WorkIsRecorded' /\ AcceptedIsOver'
    BY <1>1 DEF vars, IInv, WorkIsRecorded, AcceptedIsOver, Past, DedupeKey
  <2>4. AcceptedIsComplete' /\ RepliesAreTrue'
    BY <1>1, TalkStays DEF vars
  <2> QED BY <2>1, <2>2, <2>3, <2>4 DEF IInv
<1> QED BY <1>1, SendKeeps, LookupKeeps, AppendKeeps, EvaluateKeeps, PutKeeps, FraudKeeps,
           RankingKeeps, AbandonKeeps DEF Next, Step

LEMMA Reachable == Spec => []IInv
BY InitInvariant, Invariant, PTL DEF Spec

\* Every reachable state is well typed: of no event are more evaluations stored than
\* there are rules.
THEOREM TypeCorrect == Spec => []TypeOK
<1>1. IInv => TypeOK
  BY DEF IInv
<1> QED BY <1>1, Reachable, PTL

\* A key is accepted once (the invariant AcceptedOncePerKey of the runs), although the
\* lookup and the record of the key are statements apart.
THEOREM KeysAreAcceptedOnce == Spec => []AcceptedOncePerKey
<1>1. IInv => AcceptedOncePerKey
  BY DEF IInv, AcceptedIsOver, AcceptedOncePerKey
<1> QED BY <1>1, Reachable, PTL

\* An accepted event is stored, evaluated, recorded and announced, and nothing is
\* announced before it is recorded (the invariant AcceptedIsComplete of the runs).
THEOREM AcceptanceIsComplete == Spec => []AcceptedIsComplete
<1>1. IInv => AcceptedIsComplete
  BY DEF IInv
<1> QED BY <1>1, Reachable, PTL

\* No client is told "replayed" or "conflict" without the event that justifies it (the
\* invariant RepliesAreTrue of the runs).
THEOREM AnswersAreJustified == Spec => []RepliesAreTrue
<1>1. IInv => RepliesAreTrue
  BY DEF IInv
<1> QED BY <1>1, Reachable, PTL

(***************************************************************************)
(* What liveness rests on: somebody still works on what is not done.       *)
(***************************************************************************)
Announced(e, box) == \A kind \in Fanout : DedupeKey(e, kind) \in box

\* While no request is cut off, a stored event is announced or a request is about to.
NothingIsForgotten ==
  crashes = 0 =>
    \A e \in raw : Announced(e, outbox) \/ \E r \in Requests : Past(r) /\ req[r].event = e

\* A request moves on: it keeps the event it has stored until that is announced.
LEMMA CarriedOn ==
  ASSUME NothingIsForgotten, NEW r \in Requests, crashes' = crashes,
         outbox \subseteq outbox', \A s \in Requests : s # r => req'[s] = req[s],
         \/ Past(r)' /\ req'[r].event = req[r].event /\ raw' \subseteq raw \cup {req[r].event}
         \/ ~Past(r) /\ raw' = raw
         \/ Announced(req[r].event, outbox') /\ raw' = raw
  PROVE  NothingIsForgotten'
<1> SUFFICES ASSUME crashes' = 0, NEW e \in raw'
             PROVE  Announced(e, outbox') \/ \E s \in Requests : Past(s)' /\ req'[s].event = e
  BY DEF NothingIsForgotten
<1>1. Announced(e, outbox) => Announced(e, outbox')
  BY DEF Announced, DedupeKey
<1>2. CASE e \in raw
  <2>1. Announced(e, outbox) \/ \E s \in Requests : Past(s) /\ req[s].event = e
    BY <1>2 DEF NothingIsForgotten
  <2>2. ASSUME NEW s \in Requests, Past(s), req[s].event = e
        PROVE  Announced(e, outbox') \/ \E t \in Requests : Past(t)' /\ req'[t].event = e
    <3>1. CASE s # r
      BY <2>2, <3>1 DEF Past
    <3>2. CASE s = r /\ Past(r)' /\ req'[r].event = req[r].event
      BY <2>2, <3>2
    <3>3. CASE s = r /\ Announced(req[r].event, outbox')
      BY <2>2, <3>3
    <3> QED BY <2>2, <3>1, <3>2, <3>3
  <2> QED BY <1>1, <2>1, <2>2
<1>3. CASE e \notin raw
  <2>1. Past(r)' /\ req'[r].event = e
    BY <1>3
  <2> QED BY <2>1
<1> QED BY <1>2, <1>3

LEMMA ForgottenStep == IInv /\ NothingIsForgotten /\ [Next]_vars => NothingIsForgotten'
<1> SUFFICES ASSUME IInv, NothingIsForgotten, [Next]_vars PROVE NothingIsForgotten'
  OBVIOUS
<1>1. req \in [Requests -> Request] /\ crashes \in Nat
  BY IngestionAssumption DEF IInv, TypeOK
<1>2. ASSUME NEW r \in Requests, NEW p \in Points, NEW reply
      PROVE  /\ Goto(r, p) => /\ req'[r].pc = p /\ req'[r].event = req[r].event
                              /\ \A s \in Requests : s # r => req'[s] = req[s]
             /\ Answer(r, reply) => \A s \in Requests : s # r => req'[s] = req[s]
  <2>1. Goto(r, p) => /\ req'[r].pc = p /\ req'[r].event = req[r].event
                      /\ \A s \in Requests : s # r => req'[s] = req[s]
    BY <1>1, GotoFacts
  <2>2. Answer(r, reply) => \A s \in Requests : s # r => req'[s] = req[s]
    BY <1>1 DEF Answer
  <2> QED BY <2>1, <2>2
<1>3. ASSUME NEW r \in Requests, NEW e \in Events, Send(r, e) PROVE NothingIsForgotten'
  <2>1. ~Past(r) /\ UNCHANGED <<raw, outbox, crashes>>
        /\ \A s \in Requests : s # r => req'[s] = req[s]
    BY <1>1, <1>3 DEF Send, At, Past
  <2> QED BY <2>1, CarriedOn
<1>4. ASSUME NEW r \in Requests, Lookup(r) PROVE NothingIsForgotten'
  <2>1. ~Past(r) /\ UNCHANGED <<raw, outbox, crashes>>
    BY <1>4 DEF Lookup, At, Past
  <2>2. \A s \in Requests : s # r => req'[s] = req[s]
    BY <1>2, <1>4 DEF Lookup, Points
  <2> QED BY <2>1, <2>2, CarriedOn
<1>5. ASSUME NEW r \in Requests, AppendRawEvent(r) PROVE NothingIsForgotten'
  <2>1. ~Past(r) /\ UNCHANGED <<outbox, crashes>>
    BY <1>5 DEF AppendRawEvent, At, Past
  <2>2. CASE Answer(r, "failed") /\ raw' = raw
    BY <1>2, <2>1, <2>2, CarriedOn DEF Points
  <2>3. CASE Goto(r, "evaluate") /\ raw' = raw \cup {Event(r)}
    BY <1>2, <2>1, <2>3, CarriedOn DEF Points, Past, Event
  <2> QED BY <1>5, <2>2, <2>3 DEF AppendRawEvent
<1>6. ASSUME NEW r \in Requests, RecordEvaluation(r) PROVE NothingIsForgotten'
  <2>1. UNCHANGED <<raw, outbox, crashes>> /\ req[r].pc = "evaluate"
        /\ (Goto(r, "put") \/ req' = req)
    BY <1>6 DEF RecordEvaluation, At
  <2>2. Past(r)' /\ req'[r].event = req[r].event
    BY <1>2, <2>1 DEF Points, Past
  <2>3. \A s \in Requests : s # r => req'[s] = req[s]
    BY <1>2, <2>1 DEF Points
  <2> QED BY <2>1, <2>2, <2>3, CarriedOn
<1>7. ASSUME NEW r \in Requests, PutIdempotencyRecord(r) PROVE NothingIsForgotten'
  <2>1. req[r].pc = "put" /\ UNCHANGED <<raw, outbox, crashes>>
    BY <1>7 DEF PutIdempotencyRecord, At
  <2>2. idem[Key[Event(r)]] = NoEvent
    BY <2>1 DEF IInv, WorkIsRecorded, Event
  <2>3. Goto(r, "fraud")
    BY <1>7, <2>2 DEF PutIdempotencyRecord
  <2>4. Past(r)' /\ req'[r].event = req[r].event
        /\ \A s \in Requests : s # r => req'[s] = req[s]
    BY <1>2, <2>3 DEF Points, Past
  <2> QED BY <2>1, <2>4, CarriedOn
<1>8. ASSUME NEW r \in Requests, PublishFraud(r) PROVE NothingIsForgotten'
  <2>1. Goto(r, "ranking") /\ outbox \subseteq outbox' /\ UNCHANGED <<raw, crashes>>
    BY <1>8 DEF PublishFraud
  <2>2. Past(r)' /\ req'[r].event = req[r].event
        /\ \A s \in Requests : s # r => req'[s] = req[s]
    BY <1>2, <2>1 DEF Points, Past
  <2> QED BY <2>1, <2>2, CarriedOn
<1>9. ASSUME NEW r \in Requests, PublishRanking(r) PROVE NothingIsForgotten'
  <2>1. /\ req[r].pc = "ranking" /\ Answer(r, "accepted") /\ UNCHANGED <<raw, crashes>>
        /\ outbox' = outbox \cup {DedupeKey(req[r].event, "ranking")}
    BY <1>9 DEF PublishRanking, At, Event
  <2>2. DedupeKey(req[r].event, "fraud") \in outbox
    BY <2>1 DEF IInv, WorkIsRecorded
  <2>3. Announced(req[r].event, outbox')
    <3> DEFINE e == req[r].event
    <3>1. \A kind \in Fanout : DedupeKey(e, kind) \in outbox'
      BY <2>1, <2>2 DEF Fanout
    <3> QED BY <3>1 DEF Announced, DedupeKey
  <2>4. \A s \in Requests : s # r => req'[s] = req[s]
    BY <1>2, <2>1 DEF Points
  <2> QED BY <2>1, <2>3, <2>4, CarriedOn
<1>10. ASSUME NEW r \in Requests, Abandon(r) PROVE NothingIsForgotten'
  BY <1>1, <1>10 DEF Abandon, NothingIsForgotten
<1>11. CASE UNCHANGED vars
  BY <1>11 DEF vars, NothingIsForgotten, Announced, DedupeKey, Past
<1> QED BY <1>3, <1>4, <1>5, <1>6, <1>7, <1>8, <1>9, <1>10, <1>11 DEF Next, Step

\* While no request is cut off a stored event is announced, or the request that stored it
\* still works on it and nothing will refuse it: the writes between the insert of the event
\* and its two outbox rows cannot fail on the record of another event.  Fairness then is all
\* that EveryEventIsAnnounced needs.
THEOREM NoEventIsForgotten == Spec => []NothingIsForgotten
<1>1. Init => NothingIsForgotten
  BY DEF Init, NothingIsForgotten
<1> QED BY <1>1, ForgottenStep, Reachable, PTL DEF Spec
=============================================================================
