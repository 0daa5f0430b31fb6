---------------------------- MODULE InstallProofs ----------------------------
(***************************************************************************)
(* The properties of InstallLifecycle, proved for any number of requests,  *)
(* scopes, keys, failing writes and requests cut off; then those of        *)
(* InstallPlanning, for every request and dependency graph.                *)
(***************************************************************************)
EXTENDS InstallLifecycle, InstallPlanning,
        FiniteSetTheorems, FunctionTheorems, SequenceTheorems, TLAPS

(***************************************************************************)
(* The requests.  What a request holds at each point of its way.           *)
(***************************************************************************)
Working == {"file", "row", "commit"}
Early  == {"load", "source", "references", "number"}

RequestShape(q) ==
  /\ q.pc # "idle" => q.op \in Ops
  /\ q.pc \in Early => q.at = 1
  /\ q.pc = "source" => q.op = "rollback"
  /\ q.pc \in {"references", "number"} \cup Working /\ q.op # "verify" => q.mode \in {"write", "remove"}
  /\ q.pc \in {"file", "row"} => q.op # "verify"
  /\ q.pc = "file" => ~blocked /\ ~q.failed
  /\ q.pc = "commit" /\ ~q.failed /\ ~blocked /\ q.op # "verify" => q.at = NumScopes
  /\ q.pc = "store" => q.key \in Keys

Shape == \A r \in Requests : RequestShape(req[r])

LEMMA NoRequestFacts == NoRequest \in Request /\ RequestShape(NoRequest) /\ NoRequest.pc = "idle"
BY LifecycleAssumption
   DEF NoRequest, Request, Points, Modes, Hashes, Scopes, RequestShape, Early, Working

LEMMA TypeInit == Init => TypeOK /\ Shape
<1> SUFFICES ASSUME Init PROVE TypeOK /\ Shape
  OBVIOUS
<1> USE LifecycleAssumption DEF Init
<1>1. NoRecord \in Record
  BY DEF NoRecord, Record
<1>2. idem \in [Ops \X Keys -> Record]
  BY <1>1
<1>3. req \in [Requests -> Request] /\ Shape
  BY NoRequestFacts DEF Shape
<1>4. attempts \subseteq Attempt /\ outbox \subseteq Event
  OBVIOUS
<1>5. lock \in Requests \cup {NoOne} /\ status \in Statuses
  BY DEF Statuses
<1>6. action \in [Scopes -> {"pending", "applied", "failed", "skipped"}] /\ files \in [Scopes -> BOOLEAN]
  OBVIOUS
<1>7. begun \in 0..MaxRequests /\ failures \in 0..MaxFailures /\ crashes \in 0..MaxCrashes
  OBVIOUS
<1>8. blocked \in BOOLEAN /\ required \in BOOLEAN /\ overlapped \in BOOLEAN
  OBVIOUS
<1> HIDE DEF Init
<1> QED BY <1>2, <1>3, <1>4, <1>5, <1>6, <1>7, <1>8 DEF TypeOK

\* A request that ends leaves nothing but free locks behind.
LEMMA AnsweredFacts ==
  ASSUME TypeOK, NEW r \in Requests, Answered(r)
  PROVE  /\ req' \in [Requests -> Request]
         /\ req'[r] = NoRequest
         /\ \A s \in Requests : s # r => req'[s] = req[s]
         /\ lock' \in Requests \cup {NoOne}
BY NoRequestFacts DEF Answered, TypeOK

\* Everything about types but the requests and the lock, for a step that leaves it alone.
LEMMA RequestMoves ==
  ASSUME TypeOK, Shape, NEW r \in Requests, req' \in [Requests -> Request],
         RequestShape(req'[r]), \A s \in Requests : s # r => req'[s] = req[s], blocked' = blocked
  PROVE  Shape'
BY DEF Shape, RequestShape

(***************************************************************************)
(* The numbers.  A table holds the attempts 1..n and the number a request  *)
(* has read is at most one more, for the table only grows: the number is   *)
(* either taken or the next.                                               *)
(***************************************************************************)
Numbered ==
  /\ \A t \in Tables : IsFiniteSet(InTable(t))
  /\ GaplessHistory
  /\ \A r \in Requests : req[r].pc \in Working =>
       req[r].number \in 1..(Cardinality(InTable(Table(req[r].op))) + 1)

LEMMA TableFacts == Tables = {"apply", "verify"} /\ \A op : Table(op) \in Tables
BY DEF Tables, Table

LEMMA MaxIsCount ==
  ASSUME TypeOK, Numbered, NEW t \in Tables
  PROVE  /\ Cardinality(InTable(t)) \in Nat
         /\ MaxNumber(t) = Cardinality(InTable(t))
         /\ InTable(t) # {} => Latest(t) \in InTable(t) /\ Latest(t).number = MaxNumber(t)
<1> DEFINE c == Cardinality(InTable(t))
<1>1. c \in Nat /\ (c = 0 <=> InTable(t) = {})
  BY FS_CardinalityType, FS_EmptySet DEF Numbered
<1>2. {a.number : a \in InTable(t)} = 1..c
  BY DEF Numbered, GaplessHistory
<1> HIDE DEF c
<1>3. CASE InTable(t) = {}
  BY <1>1, <1>3 DEF MaxNumber, c
<1>4. CASE InTable(t) # {}
  <2>1. c \in 1..c
    BY <1>1, <1>4
  <2>2. \A a \in InTable(t) : a.number \in 1..c
    BY <1>2
  <2>3. PICK m \in InTable(t) : m.number = c
    BY <1>2, <2>1
  <2> DEFINE Top(n) == \A a \in InTable(t) : a.number <= n
  <2>4. Top(c) /\ \A n \in 1..c : Top(n) => n = c
    BY <1>1, <2>2, <2>3
  <2>5. MaxNumber(t) = CHOOSE n \in 1..c : Top(n)
    BY <1>2, <1>4 DEF MaxNumber
  <2>6. MaxNumber(t) = c
    BY <2>1, <2>4, <2>5
  <2>7. Latest(t) \in InTable(t) /\ Latest(t).number = MaxNumber(t)
    BY <2>3, <2>6 DEF Latest
  <2> QED BY <1>1, <2>6, <2>7 DEF c
<1> QED BY <1>3, <1>4

Count ==
  \A t \in Tables : /\ MaxNumber(t) = Cardinality(InTable(t))
                    /\ InTable(t) # {} => Latest(t) \in InTable(t) /\ Latest(t).number = MaxNumber(t)

LEMMA CountHolds == TypeOK /\ Numbered => Count
BY MaxIsCount DEF Count

LEMMA AttemptType ==
  ASSUME NEW r \in Requests, req[r] \in Request, req[r].op \in Ops
  PROVE  AttemptOf(r) \in Attempt
BY DEF AttemptOf, Attempt, Request

LEMMA ActionsType ==
  ASSUME TypeOK, NEW r \in Requests
  PROVE  ActionsAfter(r) \in [Scopes -> {"pending", "applied", "failed", "skipped"}]
<1>1. req[r].at \in Nat /\ \A s \in Scopes : s \in Nat
  BY LifecycleAssumption DEF TypeOK, Request, Scopes
<1>2. \A s \in Scopes : action[s] \in {"pending", "applied", "failed", "skipped"}
  BY DEF TypeOK
<1>3. ASSUME NEW s \in Scopes
      PROVE  ActionsAfter(r)[s] \in {"pending", "applied", "failed", "skipped"}
  <2>1. s < req[r].at \/ s = req[r].at \/ s > req[r].at
    BY <1>1
  <2> QED BY <1>1, <1>2, <2>1 DEF ActionsAfter
<1> QED BY <1>3 DEF ActionsAfter

LEMMA TypeStep == TypeOK /\ Shape /\ Numbered /\ [Next]_vars => TypeOK' /\ Shape'
<1> SUFFICES ASSUME TypeOK, Shape, Numbered, [Next]_vars PROVE TypeOK' /\ Shape'
  OBVIOUS
<1> USE LifecycleAssumption
<1>0. /\ req \in [Requests -> Request] /\ lock \in Requests \cup {NoOne}
      /\ blocked \in BOOLEAN /\ failures \in 0..MaxFailures /\ crashes \in 0..MaxCrashes
      /\ begun \in 0..MaxRequests /\ attempts \subseteq Attempt /\ status \in Statuses
  BY DEF TypeOK
<1>1. CASE UNCHANGED vars
  <2>1. TypeOK'
    BY <1>1 DEF vars, TypeOK
  <2>2. Shape'
    BY <1>1 DEF vars, Shape, RequestShape
  <2> QED BY <2>1, <2>2
<1>2. ASSUME NEW r \in Requests, NEW op \in Ops, NEW key \in Keys \cup {NoKey}, NEW hash \in Hashes,
             Begin(r, op, key, hash)
      PROVE  TypeOK' /\ Shape'
  <2>1. PICK q : q = [NoRequest EXCEPT !.pc = "load", !.op = op, !.key = key, !.hash = hash]
    OBVIOUS
  <2>2. q \in Request /\ RequestShape(q)
    BY <2>1, NoRequestFacts DEF NoRequest, Request, RequestShape, Early, Working, Points
  <2>3. req' = [req EXCEPT ![r] = q]
    BY <1>2, <2>1 DEF Begin
  <2>4. /\ req' \in [Requests -> Request] /\ req'[r] = q
        /\ \A s \in Requests : s # r => req'[s] = req[s]
    BY <1>0, <2>2, <2>3
  <2>5. Shape'
    BY <1>2, <2>2, <2>4, RequestMoves DEF Begin
  <2>6. TypeOK'
    BY <1>2, <2>4 DEF Begin, TypeOK, db
  <2> QED BY <2>5, <2>6
\* A step that changes a request and a lock, and scope files perhaps.
<1>3. ASSUME NEW r \in Requests, UNCHANGED <<blocked, db, required, overlapped, begun>>,
             failures' \in 0..MaxFailures, crashes' \in 0..MaxCrashes,
             files' \in [Scopes -> BOOLEAN],
             lock' \in Requests \cup {NoOne}, req' \in [Requests -> Request],
             RequestShape(req'[r]), \A s \in Requests : s # r => req'[s] = req[s]
      PROVE  TypeOK' /\ Shape'
  <2>1. Shape'
    BY <1>3, RequestMoves
  <2>2. TypeOK'
    BY <1>3 DEF TypeOK, db
  <2> QED BY <2>1, <2>2
<1>4. ASSUME NEW r \in Requests, Answered(r), UNCHANGED <<blocked, db, required, overlapped, begun>>,
             failures' \in 0..MaxFailures, crashes' \in 0..MaxCrashes, files' = files
      PROVE  TypeOK' /\ Shape'
  <2>1. files' \in [Scopes -> BOOLEAN]
    BY <1>4 DEF TypeOK
  <2> QED BY <1>3, <1>4, <2>1, AnsweredFacts, NoRequestFacts
<1>5. ASSUME NEW r \in Requests, UNCHANGED <<blocked, db, files, required, lock, budget>>,
             NEW q \in Request, req' = [req EXCEPT ![r] = q], RequestShape(q)
      PROVE  TypeOK' /\ Shape'
  <2>1. files' \in [Scopes -> BOOLEAN] /\ lock' \in Requests \cup {NoOne}
        /\ failures' \in 0..MaxFailures /\ crashes' \in 0..MaxCrashes
        /\ UNCHANGED <<blocked, db, required, overlapped, begun>>
    BY <1>5 DEF TypeOK, budget
  <2>2. req' \in [Requests -> Request] /\ req'[r] = q /\ \A s \in Requests : s # r => req'[s] = req[s]
    BY <1>0, <1>5
  <2> QED BY <1>3, <1>5, <2>1, <2>2
<1>6. ASSUME NEW r \in Requests, LoadPlan(r) PROVE TypeOK' /\ Shape'
  <2>1. CASE status \in AllowedFrom(req[r].op)
    <3>1. PICK q : q = [req[r] EXCEPT !.pc = CASE req[r].op = "rollback" -> "source"
                                               [] req[r].op = "remove"   -> "references"
                                               [] OTHER                  -> "number",
                                      !.mode = ModeOf(req[r].op)]
      OBVIOUS
    <3>2. req[r] \in Request /\ RequestShape(req[r]) /\ req[r].pc = "load"
      BY <1>0, <1>6 DEF Shape, LoadPlan, At
    <3>3. ModeOf(req[r].op) \in Modes
          /\ (req[r].op \notin {"rollback", "verify"} => ModeOf(req[r].op) \in {"write", "remove"})
      BY <3>2 DEF ModeOf, Modes, RequestShape, Ops
    <3>4. q \in Request
      BY <3>1, <3>2, <3>3 DEF Request, Points
    <3>5. RequestShape(q)
      BY <3>1, <3>2, <3>3 DEF Request, RequestShape, Early, Working
    <3>6. req' = [req EXCEPT ![r] = q] /\ UNCHANGED <<blocked, db, files, required, lock, budget>>
      BY <1>0, <1>6, <2>1, <3>1 DEF LoadPlan
    <3> QED BY <1>5, <3>4, <3>5, <3>6
  <2>2. CASE status \notin AllowedFrom(req[r].op)
    <3>1. Answered(r) /\ UNCHANGED <<blocked, db, files, required, budget>>
      BY <1>6, <2>2 DEF LoadPlan
    <3> QED BY <1>0, <1>4, <3>1 DEF budget
  <2> QED BY <2>1, <2>2
<1>7. ASSUME NEW r \in Requests, ResolveSource(r) PROVE TypeOK' /\ Shape'
  <2>1. CASE InTable("apply") # {} /\ ~Latest("apply").ok
    <3>1. PICK q : q = [req[r] EXCEPT !.pc = "number",
                                      !.mode = IF Latest("apply").op = "remove" THEN "write" ELSE "remove"]
      OBVIOUS
    <3>2. req[r] \in Request /\ RequestShape(req[r]) /\ req[r].pc = "source"
      BY <1>0, <1>7 DEF Shape, ResolveSource, At
    <3>3. q \in Request /\ RequestShape(q)
      BY <3>1, <3>2 DEF Request, Points, Modes, RequestShape, Early, Working
    <3>4. req' = [req EXCEPT ![r] = q] /\ UNCHANGED <<blocked, db, files, required, lock, budget>>
      BY <1>0, <1>7, <2>1, <3>1 DEF ResolveSource
    <3> QED BY <1>5, <3>3, <3>4
  <2>2. CASE ~(InTable("apply") # {} /\ ~Latest("apply").ok)
    <3>1. Answered(r) /\ UNCHANGED <<blocked, db, files, required, budget>>
      BY <1>7, <2>2 DEF ResolveSource
    <3> QED BY <1>0, <1>4, <3>1 DEF budget
  <2> QED BY <2>1, <2>2
<1>8. ASSUME NEW r \in Requests, CheckReferences(r) PROVE TypeOK' /\ Shape'
  <2>1. CASE ~required
    <3>1. PICK q : q = [req[r] EXCEPT !.pc = "number"]
      OBVIOUS
    <3>2. req[r] \in Request /\ RequestShape(req[r]) /\ req[r].pc = "references"
      BY <1>0, <1>8 DEF Shape, CheckReferences, At
    <3>3. q \in Request /\ RequestShape(q)
      BY <3>1, <3>2 DEF Request, Points, RequestShape, Early, Working
    <3>4. req' = [req EXCEPT ![r] = q] /\ UNCHANGED <<blocked, db, files, required, lock, budget>>
      BY <1>0, <1>8, <2>1, <3>1 DEF CheckReferences, Goto
    <3> QED BY <1>5, <3>3, <3>4
  <2>2. CASE required
    <3>1. Answered(r) /\ UNCHANGED <<blocked, db, files, required, budget>>
      BY <1>8, <2>2 DEF CheckReferences
    <3> QED BY <1>0, <1>4, <3>1 DEF budget
  <2> QED BY <2>1, <2>2
<1>9. ASSUME NEW r \in Requests, ResolveAttemptNumber(r) PROVE TypeOK' /\ Shape'
  <2> DEFINE point == IF req[r].op = "verify" THEN "commit"
                     ELSE IF blocked THEN "row" ELSE "file"
  <2>1. PICK failed \in BOOLEAN :
          /\ CASE req[r].op = "verify" -> blocked => failed
               [] req[r].op = "apply"  -> failed = blocked
               [] OTHER                -> ~failed
          /\ req' = [req EXCEPT ![r].number = NextNumber(Table(req[r].op)),
                                ![r].failed = failed, ![r].pc = point]
    BY <1>9 DEF ResolveAttemptNumber
  <2>3. req[r] \in Request /\ RequestShape(req[r]) /\ req[r].pc = "number" /\ req[r].op \in Ops
    BY <1>0, <1>9 DEF Shape, ResolveAttemptNumber, At, RequestShape
  <2>4. /\ req[r].op \in {"update", "remove", "rollback"} => ~failed
        /\ req[r].op = "apply" => failed = blocked
    BY <2>1
  <2>5. /\ point \in {"commit", "row", "file"}
        /\ point = "commit" <=> req[r].op = "verify"
        /\ point = "file" => ~blocked
    OBVIOUS
  <2> HIDE DEF point
  <2>6. NextNumber(Table(req[r].op)) \in Nat
    BY MaxIsCount, TableFacts DEF NextNumber
  <2>2. PICK q : q = [req[r] EXCEPT !.number = NextNumber(Table(req[r].op)),
                                    !.failed = failed, !.pc = point]
    OBVIOUS
  <2>7. q \in Request
    BY <2>2, <2>3, <2>5, <2>6 DEF Request, Points
  <2>8. q.pc = point /\ q.op = req[r].op /\ q.failed = failed /\ q.mode = req[r].mode /\ q.at = req[r].at
    BY <2>2, <2>3 DEF Request
  <2>9. q.op \notin {"verify"} => q.mode \in {"write", "remove"}
    BY <2>3, <2>8 DEF RequestShape
  <2>10. q.pc = "file" => ~q.failed
    BY <2>3, <2>4, <2>5, <2>8 DEF Ops
  <2>11. RequestShape(q)
    BY <2>3, <2>5, <2>8, <2>9, <2>10 DEF RequestShape, Early, Working
  <2>12. req' = [req EXCEPT ![r] = q]
    BY <1>0, <2>1, <2>2
  <2>13. UNCHANGED <<blocked, db, files, required, lock, budget>>
    BY <1>9 DEF ResolveAttemptNumber
  <2> QED BY <1>5, <2>7, <2>11, <2>12, <2>13
<1>10. ASSUME NEW r \in Requests, TouchFile(r) PROVE TypeOK' /\ Shape'
  <2>1. req[r] \in Request /\ RequestShape(req[r]) /\ req[r].pc = "file"
    BY <1>0, <1>10 DEF Shape, TouchFile, At
  <2>2. PICK q : /\ q = [req[r] EXCEPT !.pc = "row"] \/ q = [req[r] EXCEPT !.pc = "row", !.failed = TRUE]
                 /\ req' = [req EXCEPT ![r] = q]
    BY <1>0, <1>10 DEF TouchFile, Goto
  <2>3. q \in Request /\ RequestShape(q)
    BY <2>1, <2>2 DEF Request, Points, RequestShape, Early, Working
  <2>4. req' \in [Requests -> Request] /\ req'[r] = q /\ \A s \in Requests : s # r => req'[s] = req[s]
    BY <1>0, <2>2, <2>3
  <2>5. files' \in [Scopes -> BOOLEAN] /\ failures' \in 0..MaxFailures
    <3>1. [files EXCEPT ![req[r].at] = (req[r].mode = "write")] \in [Scopes -> BOOLEAN]
      BY DEF TypeOK
    <3>2. files' \in {files, [files EXCEPT ![req[r].at] = (req[r].mode = "write")]}
      BY <1>10 DEF TouchFile
    <3>3. failures' \in 0..MaxFailures
      BY <1>0, <1>10 DEF TouchFile
    <3> QED BY <3>1, <3>2, <3>3 DEF TypeOK
  <2>6. UNCHANGED <<blocked, db, required, lock, overlapped, begun, crashes>>
    BY <1>10 DEF TouchFile
  <2> QED BY <1>0, <1>3, <2>3, <2>4, <2>5, <2>6
<1>11. ASSUME NEW r \in Requests, UpdateActionRow(r) PROVE TypeOK' /\ Shape'
  <2>1. req[r] \in Request /\ RequestShape(req[r]) /\ req[r].pc = "row"
    BY <1>0, <1>11 DEF Shape, UpdateActionRow, At
  <2>2. PICK q : /\ q = IF req[r].failed \/ blocked \/ req[r].at = NumScopes
                        THEN [req[r] EXCEPT !.pc = "commit"]
                        ELSE [req[r] EXCEPT !.pc = "file", !.at = req[r].at + 1]
                 /\ req' = [req EXCEPT ![r] = q]
    BY <1>0, <1>11 DEF UpdateActionRow, Goto
  <2>3. req[r].at # NumScopes => req[r].at + 1 \in Scopes
    BY <2>1 DEF Request, Scopes
  <2>4. q \in Request /\ RequestShape(q)
    BY <1>0, <2>1, <2>2, <2>3 DEF Request, Points, RequestShape, Early, Working
  <2>5. req' \in [Requests -> Request] /\ req'[r] = q /\ \A s \in Requests : s # r => req'[s] = req[s]
    BY <1>0, <2>2, <2>4
  <2>6. UNCHANGED <<blocked, db, files, required, budget>> /\ lock' = r
    BY <1>11 DEF UpdateActionRow
  <2>7. files' \in [Scopes -> BOOLEAN] /\ lock' \in Requests \cup {NoOne}
        /\ failures' \in 0..MaxFailures /\ crashes' \in 0..MaxCrashes
        /\ UNCHANGED <<blocked, db, required, overlapped, begun>>
    BY <2>6 DEF TypeOK, budget
  <2> QED BY <1>3, <2>4, <2>5, <2>7
<1>12. ASSUME NEW r \in Requests, Commit(r) PROVE TypeOK' /\ Shape'
  <2>1. req[r] \in Request /\ RequestShape(req[r]) /\ req[r].pc = "commit"
    BY <1>0, <1>12 DEF Shape, Commit, At
  <2>2. CASE NumberTaken(r)
    <3>1. Answered(r) /\ UNCHANGED <<blocked, db, files, required, budget>>
      BY <1>12, <2>2 DEF Commit, db
    <3> QED BY <1>0, <1>4, <3>1 DEF budget
  <2>3. CASE ~NumberTaken(r)
    <3>1. PICK q : q = [req[r] EXCEPT !.pc = "publish"]
      OBVIOUS
    <3>2. q \in Request /\ RequestShape(q)
      BY <2>1, <3>1 DEF Request, Points, RequestShape, Early, Working
    <3>3. req' = [req EXCEPT ![r] = q]
      BY <1>0, <1>12, <2>3, <3>1 DEF Commit, Goto
    <3>4. req' \in [Requests -> Request] /\ req'[r] = q /\ \A s \in Requests : s # r => req'[s] = req[s]
      BY <1>0, <3>2, <3>3
    <3>5. Shape'
      BY <1>12, <3>2, <3>4, RequestMoves DEF Commit
    <3>6. attempts' \subseteq Attempt
      <4>1. AttemptOf(r) \in Attempt
        BY <2>1, AttemptType DEF RequestShape
      <4>2. attempts' = attempts \cup {AttemptOf(r)}
        BY <1>12, <2>3 DEF Commit
      <4> QED BY <1>0, <4>1, <4>2
    <3>7. status' \in Statuses
      BY <1>12, <2>1, <2>3 DEF Commit, StatusAfter, Statuses, RequestShape, Ops
    <3>8. action' \in [Scopes -> {"pending", "applied", "failed", "skipped"}]
      BY <1>12, <2>3, ActionsType DEF Commit, TypeOK
    <3>9. lock' \in Requests \cup {NoOne}
      BY <1>0, <1>12, <2>3 DEF Commit
    <3> QED BY <1>12, <2>3, <3>4, <3>5, <3>6, <3>7, <3>8, <3>9 DEF Commit, TypeOK, budget
  <2> QED BY <2>2, <2>3
<1>13. ASSUME NEW r \in Requests, Publish(r) PROVE TypeOK' /\ Shape'
  <2>1. req[r] \in Request /\ RequestShape(req[r]) /\ req[r].pc = "publish"
    BY <1>0, <1>13 DEF Shape, Publish, At
  <2>2. outbox' \subseteq Event
    <3>1. [op |-> req[r].op, number |-> req[r].number, ok |-> ~req[r].failed] \in Event
      BY <2>1 DEF Event, Request, RequestShape
    <3> QED BY <1>13, <3>1 DEF Publish, TypeOK
  <2>3. req' \in [Requests -> Request] /\ RequestShape(req'[r])
        /\ lock' \in Requests \cup {NoOne}
        /\ \A s \in Requests : s # r => req'[s] = req[s]
    <3>1. CASE req[r].key = NoKey
      BY <1>13, <3>1, AnsweredFacts, NoRequestFacts DEF Publish
    <3>2. CASE req[r].key # NoKey
      <4>1. PICK q : q = [req[r] EXCEPT !.pc = "store"]
        OBVIOUS
      <4>2. q \in Request /\ RequestShape(q)
        BY <2>1, <3>2, <4>1 DEF Request, Points, RequestShape, Early, Working
      <4>3. req' = [req EXCEPT ![r] = q] /\ lock' = lock
        BY <1>0, <1>13, <3>2, <4>1 DEF Publish, Goto
      <4> QED BY <1>0, <4>2, <4>3
    <3> QED BY <3>1, <3>2
  <2>4. Shape'
    BY <1>13, <2>3, RequestMoves DEF Publish
  <2> QED BY <1>13, <2>2, <2>3, <2>4 DEF Publish, TypeOK, budget
<1>14. ASSUME NEW r \in Requests, Store(r) PROVE TypeOK' /\ Shape'
  <2>1. req[r] \in Request /\ RequestShape(req[r]) /\ req[r].pc = "store"
    BY <1>0, <1>14 DEF Shape, Store, At
  <2>2. <<req[r].op, req[r].key>> \in Ops \X Keys
    BY <2>1 DEF RequestShape
  <2>3. [hash |-> req[r].hash, number |-> req[r].number, ok |-> ~req[r].failed] \in Record
    BY <2>1 DEF Request, Record
  <2>4. idem' \in [Ops \X Keys -> Record]
    BY <1>14, <2>2, <2>3 DEF Store, TypeOK
  <2>5. Shape'
    BY <1>14, AnsweredFacts, NoRequestFacts, RequestMoves DEF Store
  <2> QED BY <1>14, <2>4, <2>5, AnsweredFacts DEF Store, TypeOK, budget
<1>15. ASSUME NEW r \in Requests, Abandon(r) PROVE TypeOK' /\ Shape'
  <2>1. crashes' \in 0..MaxCrashes
    BY <1>0, <1>15 DEF Abandon
  <2> QED BY <1>0, <1>4, <1>15, <2>1 DEF Abandon
<1>16. ASSUME RequirePackage PROVE TypeOK' /\ Shape'
  <2>1. Shape'
    BY <1>16 DEF RequirePackage, Shape, RequestShape
  <2> QED BY <1>16, <2>1 DEF RequirePackage, TypeOK, db, budget
<1> QED BY <1>1, <1>2, <1>6, <1>7, <1>8, <1>9, <1>10, <1>11, <1>12, <1>13, <1>14, <1>15, <1>16
        DEF Next, Step

\* Every variable stays in its type (TypeOK of the runs).

(***************************************************************************)
(* What a step of a request does, as far as the other invariants look.     *)
(***************************************************************************)
LEMMA StepFacts ==
  ASSUME TypeOK, Shape, NEW r \in Requests, Step(r) \/ Abandon(r)
  PROVE  /\ \A s \in Requests : s # r => req'[s] = req[s]
         /\ req[r].pc # "idle" /\ blocked' = blocked /\ overlapped' = overlapped
         /\ req'[r].pc # "idle" =>
              req'[r].op = req[r].op /\ req'[r].key = req[r].key /\ req'[r].hash = req[r].hash
         /\ req'[r].pc \in Early => req[r].pc \in Early
         /\ req'[r].pc \in Working =>
              /\ req'[r].mode = req[r].mode
              /\ \/ req[r].pc \in Working /\ req'[r].number = req[r].number
                 \/ req[r].pc = "number" /\ req'[r].number = NextNumber(Table(req[r].op))
         /\ req'[r].pc \in {"publish", "store"} =>
              /\ req[r].pc = IF req'[r].pc = "publish" THEN "commit" ELSE "publish"
              /\ req'[r].number = req[r].number /\ req'[r].failed = req[r].failed
              /\ req'[r].mode = req[r].mode
         /\ (req[r].pc # "commit" \/ req'[r].pc = "idle") => UNCHANGED <<status, action, attempts>>
<1> USE LifecycleAssumption
<1>0. req \in [Requests -> Request] /\ req[r] \in Request /\ RequestShape(req[r])
  BY DEF TypeOK, Shape
<1>1. CASE LoadPlan(r)
  <2>1. req' = [req EXCEPT ![r] = NoRequest]
        \/ \E p \in {"source", "references", "number"} :
             req' = [req EXCEPT ![r].pc = p, ![r].mode = ModeOf(req[r].op)]
    BY <1>1 DEF LoadPlan, Answered
  <2> QED BY <1>0, <1>1, <2>1, NoRequestFacts DEF LoadPlan, At, db, budget, Early, Working, Request
<1>2. CASE ResolveSource(r)
  <2>1. req' = [req EXCEPT ![r] = NoRequest]
        \/ \E m : req' = [req EXCEPT ![r].pc = "number", ![r].mode = m]
    BY <1>2 DEF ResolveSource, Answered
  <2> QED BY <1>0, <1>2, <2>1, NoRequestFacts DEF ResolveSource, At, db, budget, Early, Working, Request
<1>3. CASE CheckReferences(r)
  <2>1. req' = [req EXCEPT ![r] = NoRequest] \/ req' = [req EXCEPT ![r].pc = "number"]
    BY <1>3 DEF CheckReferences, Answered, Goto
  <2> QED BY <1>0, <1>3, <2>1, NoRequestFacts DEF CheckReferences, At, db, budget, Early, Working, Request
<1>4. CASE ResolveAttemptNumber(r)
  <2>1. \E p \in Working, failed \in BOOLEAN :
          req' = [req EXCEPT ![r].number = NextNumber(Table(req[r].op)), ![r].failed = failed, ![r].pc = p]
    BY <1>4 DEF ResolveAttemptNumber, Working
  <2> QED BY <1>0, <1>4, <2>1 DEF ResolveAttemptNumber, At, db, budget, Early, Working, Request
<1>5. CASE TouchFile(r)
  <2>1. req' = [req EXCEPT ![r].pc = "row"] \/ req' = [req EXCEPT ![r].pc = "row", ![r].failed = TRUE]
    BY <1>5 DEF TouchFile, Goto
  <2> QED BY <1>0, <1>5, <2>1 DEF TouchFile, At, db, Early, Working, Request
<1>6. CASE UpdateActionRow(r)
  <2>1. req' = [req EXCEPT ![r].pc = "commit"]
        \/ req' = [req EXCEPT ![r].pc = "file", ![r].at = req[r].at + 1]
    BY <1>0, <1>6 DEF UpdateActionRow, Goto
  <2>2. /\ \A s \in Requests : s # r => req'[s] = req[s]
        /\ req'[r].pc \in {"commit", "file"} /\ req'[r].op = req[r].op /\ req'[r].key = req[r].key
        /\ req'[r].hash = req[r].hash /\ req'[r].mode = req[r].mode
        /\ req'[r].number = req[r].number
    BY <1>0, <2>1 DEF Request
  <2>3. req[r].pc = "row" /\ UNCHANGED <<blocked, status, action, attempts, overlapped>>
    BY <1>6 DEF UpdateActionRow, At, db, budget
  <2> QED BY <2>2, <2>3 DEF Early, Working
<1>7. CASE Commit(r)
  <2>1. \/ req' = [req EXCEPT ![r] = NoRequest] /\ UNCHANGED <<status, action, attempts>>
        \/ req' = [req EXCEPT ![r].pc = "publish"]
    BY <1>7 DEF Commit, Answered, Goto
  <2> QED BY <1>0, <1>7, <2>1, NoRequestFacts DEF Commit, At, budget, Early, Working, Request
<1>8. CASE Publish(r)
  <2>1. req' = [req EXCEPT ![r] = NoRequest] \/ req' = [req EXCEPT ![r].pc = "store"]
    BY <1>8 DEF Publish, Answered, Goto
  <2> QED BY <1>0, <1>8, <2>1, NoRequestFacts DEF Publish, At, budget, Early, Working, Request
<1>9. CASE Store(r) \/ Abandon(r)
  <2>1. req' = [req EXCEPT ![r] = NoRequest] /\ req[r].pc # "idle"
        /\ UNCHANGED <<blocked, status, action, attempts, overlapped>>
    BY <1>9 DEF Store, Abandon, Answered, At, db, budget
  <2> QED BY <1>0, <2>1, NoRequestFacts DEF Early, Working
<1> QED BY <1>1, <1>2, <1>3, <1>4, <1>5, <1>6, <1>7, <1>8, <1>9 DEF Step

LEMMA BeginFacts ==
  ASSUME TypeOK, NEW r \in Requests, NEW op \in Ops, NEW key \in Keys \cup {NoKey}, NEW hash \in Hashes,
         Begin(r, op, key, hash)
  PROVE  /\ \A s \in Requests : s # r => req'[s] = req[s]
         /\ req[r].pc = "idle" /\ req'[r].pc = "load" /\ req'[r].op = op /\ req'[r].key = key
         /\ req'[r].at = 1
         /\ UNCHANGED <<blocked, db, files, required, lock, failures, crashes>>
<1>1. PICK q : q = [NoRequest EXCEPT !.pc = "load", !.op = op, !.key = key, !.hash = hash]
  OBVIOUS
<1>2. req' = [req EXCEPT ![r] = q]
  BY <1>1 DEF Begin
<1>3. q.pc = "load" /\ q.op = op /\ q.key = key /\ q.at = 1
  BY <1>1 DEF NoRequest
<1> QED BY <1>2, <1>3 DEF Begin, At, TypeOK

\* The transaction that goes through adds the attempt under the next number.
LEMMA CommitFacts ==
  ASSUME TypeOK, Shape, Numbered, NEW r \in Requests, Step(r) \/ Abandon(r),
         req[r].pc = "commit", req'[r].pc # "idle",
         NEW t, t = Table(req[r].op)
  PROVE  /\ req'[r].pc = "publish" /\ req[r].op \in Ops /\ t \in Tables
         /\ UNCHANGED <<blocked, files, required, outbox, idem, budget>>
         /\ attempts' = attempts \cup {AttemptOf(r)}
         /\ status' = StatusAfter(req[r].op, ~req[r].failed)
         /\ action' = IF req[r].op = "verify" THEN action ELSE ActionsAfter(r)
         /\ AttemptOf(r) \notin attempts
         /\ AttemptOf(r).number = Cardinality(InTable(t)) + 1
         /\ InTable(t)' = InTable(t) \cup {AttemptOf(r)}
         /\ \A u \in Tables : u # t => InTable(u)' = InTable(u)
<1>0. req[r] \in Request /\ RequestShape(req[r])
  BY DEF TypeOK, Shape
<1>1. Commit(r)
  BY DEF Step, Abandon, LoadPlan, ResolveSource, CheckReferences, ResolveAttemptNumber, TouchFile,
         UpdateActionRow, Publish, Store, At, Answered, NoRequest, TypeOK
<1>2. ~NumberTaken(r)
  <2> SUFFICES ASSUME NumberTaken(r) PROVE FALSE
    OBVIOUS
  <2>1. req' = [req EXCEPT ![r] = NoRequest]
    BY <1>1 DEF Commit, Answered
  <2> QED BY <2>1, NoRequestFacts DEF TypeOK
<1>3. /\ attempts' = attempts \cup {AttemptOf(r)}
      /\ status' = StatusAfter(req[r].op, ~req[r].failed)
      /\ action' = IF req[r].op = "verify" THEN action ELSE ActionsAfter(r)
      /\ req' = [req EXCEPT ![r].pc = "publish"]
      /\ UNCHANGED <<blocked, files, required, outbox, idem, budget>>
  BY <1>1, <1>2 DEF Commit, Goto
<1>4. req'[r].pc = "publish" /\ req[r].op \in Ops /\ t \in Tables
  BY <1>0, <1>3, TableFacts DEF TypeOK, RequestShape
<1>5. AttemptOf(r).number = req[r].number /\ AttemptOf(r).op = req[r].op
  BY DEF AttemptOf
<1>6. \A a \in InTable(t) : a.number # req[r].number
  BY <1>2 DEF NumberTaken
<1>7. AttemptOf(r) \notin attempts
  BY <1>5, <1>6 DEF InTable
<1>8. InTable(t)' = InTable(t) \cup {AttemptOf(r)}
  BY <1>3, <1>5 DEF InTable
<1>9. \A u \in Tables : u # t => InTable(u)' = InTable(u)
  BY <1>3, <1>5 DEF InTable
<1>10. req[r].number = Cardinality(InTable(t)) + 1
  <2>1. req[r].number \in 1..(Cardinality(InTable(t)) + 1) /\ Cardinality(InTable(t)) \in Nat
    BY <1>4, MaxIsCount DEF Numbered, Working
  <2>2. {a.number : a \in InTable(t)} = 1..Cardinality(InTable(t))
    BY <1>4 DEF Numbered, GaplessHistory
  <2>3. req[r].number \notin 1..Cardinality(InTable(t))
    BY <1>6, <2>2
  <2> QED BY <2>1, <2>3
<1> QED BY <1>3, <1>4, <1>5, <1>7, <1>8, <1>9, <1>10

\* ... so it is the latest of its table.
LEMMA CommitIsLatest ==
  ASSUME TypeOK, TypeOK', Shape, Numbered, Numbered', NEW r \in Requests, Step(r) \/ Abandon(r),
         req[r].pc = "commit", req'[r].pc # "idle",
         NEW t \in Tables, t = Table(req[r].op)
  PROVE  Latest(t)' = AttemptOf(r) /\ InTable(t)' # {}
<1> DEFINE new == AttemptOf(r)
           T == InTable(t)
<1>1. /\ InTable(t)' = T \cup {new}
      /\ new.number = Cardinality(T) + 1 /\ new \notin T
  BY CommitFacts DEF InTable
<1>2. IsFiniteSet(T)
  BY DEF Numbered
<1>3. Cardinality(T \cup {new}) = Cardinality(T) + 1
  BY <1>1, <1>2, FS_AddElement
<1>4. InTable(t)' # {}
  BY <1>1
<1>5. Latest(t)' \in InTable(t)' /\ Latest(t)'.number = Cardinality(InTable(t)')
  <2>1. MaxNumber(t)' = Cardinality(InTable(t))'
        /\ (InTable(t)' # {} => Latest(t)' \in InTable(t)' /\ Latest(t)'.number = MaxNumber(t)')
    <3>1. Count'
      BY CountHolds, PTL
    <3> QED BY <3>1 DEF Count
  <2> QED BY <1>4, <2>1
<1>6. \A a, b \in InTable(t)' : a.number = b.number => a = b
  BY DEF Numbered, GaplessHistory
<1>7. Latest(t)'.number = new.number /\ new \in InTable(t)'
  BY <1>1, <1>3, <1>5
<1> QED BY <1>4, <1>5, <1>6, <1>7

LEMMA NumberedInit == Init => Numbered
<1> SUFFICES ASSUME Init PROVE Numbered
  OBVIOUS
<1>1. \A t \in Tables : InTable(t) = {}
  BY DEF Init, InTable
<1>2. \A t \in Tables : IsFiniteSet(InTable(t)) /\ Cardinality(InTable(t)) = 0
  BY <1>1, FS_EmptySet
<1>3. GaplessHistory
  BY <1>1, <1>2 DEF GaplessHistory
<1>4. \A r \in Requests : req[r].pc \notin Working
  BY NoRequestFacts DEF Init, Working
<1> QED BY <1>2, <1>3, <1>4 DEF Numbered

LEMMA NumberedStep == TypeOK /\ Shape /\ Numbered /\ [Next]_vars => Numbered'
<1> SUFFICES ASSUME TypeOK, Shape, Numbered, [Next]_vars PROVE Numbered'
  OBVIOUS
<1>0. \A t \in Tables : Cardinality(InTable(t)) \in Nat
  BY MaxIsCount
\* A step that adds no attempt: what matters is the number of the request that moves.
<1>1. ASSUME attempts' = attempts,
             \A r \in Requests : req'[r].pc \in Working =>
               req'[r].number \in 1..(Cardinality(InTable(Table(req'[r].op))) + 1)
      PROVE  Numbered'
  <2>1. \A t : InTable(t)' = InTable(t)
    BY <1>1 DEF InTable
  <2>2. GaplessHistory'
    BY <2>1 DEF Numbered, GaplessHistory
  <2>3. \A t \in Tables : IsFiniteSet(InTable(t)')
    BY <2>1 DEF Numbered
  <2>5. \A r \in Requests : (req[r].pc \in Working =>
          req[r].number \in 1..(Cardinality(InTable(Table(req[r].op))) + 1))'
    BY <1>1 DEF InTable
  <2> QED BY <2>2, <2>3, <2>5 DEF Numbered
<1>2. CASE UNCHANGED vars
  BY <1>1, <1>2 DEF vars, Numbered
<1>3. ASSUME NEW r \in Requests, NEW op \in Ops, NEW key \in Keys \cup {NoKey}, NEW hash \in Hashes,
             Begin(r, op, key, hash)
      PROVE  Numbered'
  <2>1. attempts' = attempts /\ req'[r].pc \notin Working /\ \A s \in Requests : s # r => req'[s] = req[s]
    BY <1>3, BeginFacts DEF db, Working
  <2> QED BY <1>1, <2>1 DEF Numbered
<1>4. CASE RequirePackage
  BY <1>1, <1>4 DEF RequirePackage, Numbered, db
<1>5. ASSUME NEW r \in Requests, Step(r) \/ Abandon(r),
             req[r].pc # "commit" \/ req'[r].pc = "idle"
      PROVE  Numbered'
  <2>1. attempts' = attempts /\ \A s \in Requests : s # r => req'[s] = req[s]
    BY <1>5, StepFacts
  <2>2. ASSUME req'[r].pc \in Working
        PROVE  req'[r].number \in 1..(Cardinality(InTable(Table(req'[r].op))) + 1)
    <3>1. req'[r].op = req[r].op
      BY <1>5, <2>2, StepFacts DEF Working
    <3>2. CASE req[r].pc \in Working /\ req'[r].number = req[r].number
      BY <3>1, <3>2 DEF Numbered
    <3>3. CASE req'[r].number = NextNumber(Table(req[r].op))
      BY <1>0, <3>1, <3>3, MaxIsCount, TableFacts DEF NextNumber
    <3> QED BY <1>5, <2>2, <3>2, <3>3, StepFacts
  <2> QED BY <1>1, <2>1, <2>2 DEF Numbered
<1>6. ASSUME NEW r \in Requests, Step(r) \/ Abandon(r),
             req[r].pc = "commit", req'[r].pc # "idle"
      PROVE  Numbered'
  <2> DEFINE new == AttemptOf(r)
  <2>1. PICK t \in Tables : t = Table(req[r].op)
    BY TableFacts
  <2>2. /\ req'[r].pc = "publish" /\ InTable(t)' = InTable(t) \cup {new}
        /\ \A u \in Tables : u # t => InTable(u)' = InTable(u)
        /\ new.number = Cardinality(InTable(t)) + 1 /\ new \notin InTable(t)
    BY <1>6, <2>1, CommitFacts DEF InTable
  <2> HIDE DEF new
  <2>3. \A u \in Tables : IsFiniteSet(InTable(u))
                          /\ {a.number : a \in InTable(u)} = 1..Cardinality(InTable(u))
                          /\ \A a, b \in InTable(u) : a.number = b.number => a = b
    BY DEF Numbered, GaplessHistory
  <2>4. IsFiniteSet(InTable(t)') /\ Cardinality(InTable(t)') = Cardinality(InTable(t)) + 1
    BY <2>2, <2>3, FS_AddElement
  <2>5. {a.number : a \in InTable(t)'} = {a.number : a \in InTable(t)} \cup {new.number}
    BY <2>2
  <2>6. {a.number : a \in InTable(t)'} = 1..Cardinality(InTable(t)')
    <3>1. {a.number : a \in InTable(t)'} = (1..Cardinality(InTable(t))) \cup {Cardinality(InTable(t)) + 1}
      BY <2>2, <2>3, <2>5
    <3> QED BY <1>0, <2>4, <3>1
  <2>7. \A a \in InTable(t) : a.number # new.number
    BY <1>0, <2>2, <2>3
  <2>8. \A a, b \in InTable(t)' : a.number = b.number => a = b
    BY <2>2, <2>3, <2>7
  <2>9. GaplessHistory'
    BY <2>2, <2>3, <2>6, <2>8 DEF GaplessHistory
  <2>10. \A u \in Tables : IsFiniteSet(InTable(u)')
    BY <2>2, <2>3, <2>4
  <2>11. \A s \in Requests : req'[s].pc \in Working => s # r /\ req'[s] = req[s]
    BY <1>6, <2>2, StepFacts DEF Working
  <2>12. ASSUME NEW s \in Requests, req'[s].pc \in Working, NEW u \in Tables, u = Table(req'[s].op)
         PROVE  req'[s].number \in 1..(Cardinality(InTable(u)') + 1)
    <3>1. u = Table(req[s].op) /\ req'[s] = req[s] /\ req[s].pc \in Working
      BY <2>11, <2>12
    <3>2. req[s].number \in 1..(Cardinality(InTable(u)) + 1)
      BY <3>1 DEF Numbered
    <3>3. Cardinality(InTable(u)') \in {Cardinality(InTable(u)), Cardinality(InTable(u)) + 1}
      BY <2>2, <2>4
    <3> QED BY <1>0, <3>1, <3>2, <3>3
  <2>13. \A s \in Requests : (req[s].pc \in Working =>
           req[s].number \in 1..(Cardinality(InTable(Table(req[s].op))) + 1))'
    BY <2>12, TableFacts DEF InTable
  <2> QED BY <2>9, <2>10, <2>13 DEF Numbered
<1> QED BY <1>2, <1>3, <1>4, <1>5, <1>6 DEF Next

LEMMA BasicsHold == Spec => [](TypeOK /\ Shape /\ Numbered)
<1>1. Init => TypeOK /\ Shape /\ Numbered
  BY TypeInit, NumberedInit
<1>2. TypeOK /\ Shape /\ Numbered /\ [Next]_vars => TypeOK' /\ Shape' /\ Numbered'
  BY TypeStep, NumberedStep
<1> QED BY <1>1, <1>2, PTL DEF Spec

\* Every variable stays in its type (TypeOK of the runs).
THEOREM TypeCorrect == Spec => []TypeOK
BY BasicsHold, PTL

\* The attempts of either table are numbered without a gap or a double (GaplessHistory of
\* the runs), however many requests read MAX + 1 at the same time.
THEOREM HistoryIsGapless == Spec => []GaplessHistory
<1>1. Numbered => GaplessHistory
  BY DEF Numbered
<1> QED BY <1>1, BasicsHold, PTL

(***************************************************************************)
(* The records.  The status, the action rows and the attempt are written   *)
(* by one transaction, and nothing else writes them.                       *)
(***************************************************************************)
LEMMA SameTables ==
  ASSUME attempts' = attempts
  PROVE  \A t : InTable(t)' = InTable(t) /\ MaxNumber(t)' = MaxNumber(t) /\ Latest(t)' = Latest(t)
BY DEF InTable, MaxNumber, Latest

LEMMA RecordsKept ==
  ASSUME RecordsAgree, UNCHANGED <<blocked, status, action, attempts>>
  PROVE  RecordsAgree'
<1>1. InTable("apply")' = InTable("apply") /\ Latest("apply")' = Latest("apply")
  BY SameTables
<1> QED BY <1>1, SameTables DEF RecordsAgree

LEMMA RecordsStep ==
  TypeOK /\ TypeOK' /\ Shape /\ Numbered /\ Numbered' /\ RecordsAgree /\ [Next]_vars => RecordsAgree'
<1> SUFFICES ASSUME TypeOK, TypeOK', Shape, Numbered, Numbered', RecordsAgree, [Next]_vars
             PROVE  RecordsAgree'
  OBVIOUS
<1>1. CASE UNCHANGED vars
  BY <1>1, RecordsKept DEF vars
<1>2. ASSUME NEW r \in Requests, NEW op \in Ops, NEW key \in Keys \cup {NoKey}, NEW hash \in Hashes,
             Begin(r, op, key, hash)
      PROVE  RecordsAgree'
  BY <1>2, BeginFacts, RecordsKept DEF db
<1>3. CASE RequirePackage
  BY <1>3, RecordsKept DEF RequirePackage, db
<1>4. ASSUME NEW r \in Requests, Step(r) \/ Abandon(r),
             req[r].pc # "commit" \/ req'[r].pc = "idle"
      PROVE  RecordsAgree'
  BY <1>4, StepFacts, RecordsKept
<1>5. ASSUME NEW r \in Requests, Step(r) \/ Abandon(r),
             req[r].pc = "commit", req'[r].pc # "idle"
      PROVE  RecordsAgree'
  <2>1. PICK t \in Tables : t = Table(req[r].op)
    BY TableFacts
  <2>2. /\ status' = StatusAfter(req[r].op, ~req[r].failed) /\ req[r].op \in Ops
        /\ action' = IF req[r].op = "verify" THEN action ELSE ActionsAfter(r)
        /\ attempts' = attempts \cup {AttemptOf(r)} /\ blocked' = blocked
        /\ \A u \in Tables : u # t => InTable(u)' = InTable(u)
    BY <1>5, <2>1, CommitFacts
  <2>3. Latest(t)' = AttemptOf(r) /\ InTable(t)' # {}
    BY <1>5, <2>1, CommitIsLatest
  <2>4. AttemptOf(r).op = req[r].op /\ AttemptOf(r).ok = ~req[r].failed
    BY DEF AttemptOf
  <2>5. status' # "planned"
    BY <2>2 DEF StatusAfter, Ops
  <2>6. (status = "planned" <=> attempts = {})'
    BY <2>2, <2>5
  <2>7. (attempts # {} => \E u \in Tables : /\ InTable(u) # {}
                                            /\ status = StatusAfter(Latest(u).op, Latest(u).ok))'
    BY <2>2, <2>3, <2>4
  <2>8. (InTable("apply") # {} /\ ~blocked =>
           (Latest("apply").ok <=> \A s \in Scopes : action[s] = "applied"))'
    <3>1. CASE req[r].op = "verify"
      <4>1. t # "apply" /\ "apply" \in Tables
        BY <2>1, <3>1 DEF Table, Tables
      <4>2. InTable("apply")' = InTable("apply")
        BY <2>2, <4>1
      <4>3. Latest("apply")' = Latest("apply")
        BY <4>2 DEF Latest, MaxNumber
      <4>4. action' = action
        BY <2>2, <3>1
      <4> QED BY <2>2, <4>2, <4>3, <4>4 DEF RecordsAgree
    <3>2. CASE req[r].op # "verify"
      <4>1. t = "apply"
        BY <2>1, <3>2 DEF Table
      <4>2. Latest("apply")'.ok = ~req[r].failed
        BY <2>3, <2>4, <4>1
      <4>3. req[r] \in Request /\ RequestShape(req[r])
        BY DEF TypeOK, Shape
      <4>4. ASSUME ~blocked
            PROVE  ~req[r].failed <=> \A s \in Scopes : ActionsAfter(r)[s] = "applied"
        <5>1. req[r].at \in Scopes /\ req[r].failed \in BOOLEAN
          BY <4>3 DEF Request
        <5>2. CASE req[r].failed
          <6>1. ActionsAfter(r)[req[r].at] = "failed"
            BY <4>4, <5>1, <5>2, LifecycleAssumption DEF ActionsAfter, Scopes
          <6> QED BY <5>1, <5>2, <6>1
        <5>3. CASE ~req[r].failed
          <6>1. req[r].at = NumScopes
            BY <1>5, <3>2, <4>3, <4>4, <5>3 DEF RequestShape
          <6>2. \A s \in Scopes : ActionsAfter(r)[s] = "applied"
            BY <4>4, <5>3, <6>1, LifecycleAssumption DEF ActionsAfter, Scopes
          <6> QED BY <5>3, <6>2
        <5> QED BY <5>1, <5>2, <5>3
      <4> QED BY <2>2, <3>2, <4>2, <4>4
    <3> QED BY <3>1, <3>2
  <2> QED BY <2>6, <2>7, <2>8 DEF RecordsAgree
<1> QED BY <1>1, <1>2, <1>3, <1>4, <1>5 DEF Next

LEMMA RecordsInit == Init => RecordsAgree
BY DEF Init, RecordsAgree, InTable

\* Status, action rows and attempts agree (RecordsAgree of the runs).
THEOREM RecordsAlwaysAgree == Spec => []RecordsAgree
<1>1. TypeOK /\ TypeOK' /\ Shape /\ Numbered /\ Numbered' /\ RecordsAgree /\ [Next]_vars
        => RecordsAgree'
  BY RecordsStep
<1> QED BY <1>1, RecordsInit, BasicsHold, PTL DEF Spec

(***************************************************************************)
(* Events and replies come after the commit.                               *)
(***************************************************************************)
Committed(r) == req[r].pc \in {"publish", "store"} => AttemptOf(r) \in attempts

Justified == EventsAndRepliesAreTrue /\ \A r \in Requests : Committed(r)

\* Attempts are only added: what is true of an event and a reply stays true.
LEMMA EventsKept ==
  ASSUME EventsAndRepliesAreTrue, attempts \subseteq attempts', UNCHANGED <<outbox, idem>>
  PROVE  EventsAndRepliesAreTrue'
BY DEF EventsAndRepliesAreTrue

LEMMA CommittedKept ==
  ASSUME NEW r \in Requests, Committed(r), req'[r] = req[r], attempts \subseteq attempts'
  PROVE  Committed(r)'
BY DEF Committed, AttemptOf

LEMMA JustifiedStep == TypeOK /\ Shape /\ Numbered /\ Justified /\ [Next]_vars => Justified'
<1> SUFFICES ASSUME TypeOK, Shape, Numbered, Justified, [Next]_vars PROVE Justified'
  OBVIOUS
<1>0. EventsAndRepliesAreTrue /\ \A r \in Requests : Committed(r)
  BY DEF Justified
<1>1. CASE UNCHANGED vars
  <2>1. EventsAndRepliesAreTrue'
    BY <1>0, <1>1, EventsKept DEF vars
  <2>2. \A r \in Requests : Committed(r)'
    BY <1>0, <1>1, CommittedKept DEF vars
  <2> QED BY <2>1, <2>2 DEF Justified
<1>2. ASSUME NEW r \in Requests, NEW op \in Ops, NEW key \in Keys \cup {NoKey}, NEW hash \in Hashes,
             Begin(r, op, key, hash)
      PROVE  Justified'
  <2>1. /\ UNCHANGED <<attempts, outbox, idem>> /\ req'[r].pc = "load"
        /\ \A s \in Requests : s # r => req'[s] = req[s]
    BY <1>2, BeginFacts DEF db
  <2>2. EventsAndRepliesAreTrue'
    BY <1>0, <2>1, EventsKept
  <2>3. ASSUME NEW s \in Requests PROVE Committed(s)'
    <3>1. CASE s = r
      BY <2>1, <3>1 DEF Committed
    <3>2. CASE s # r
      BY <1>0, <2>1, <3>2, CommittedKept
    <3> QED BY <3>1, <3>2
  <2> QED BY <2>2, <2>3 DEF Justified
<1>3. CASE RequirePackage
  <2>1. EventsAndRepliesAreTrue'
    BY <1>0, <1>3, EventsKept DEF RequirePackage, db
  <2>2. \A r \in Requests : Committed(r)'
    BY <1>0, <1>3, CommittedKept DEF RequirePackage, db
  <2> QED BY <2>1, <2>2 DEF Justified
<1>4. ASSUME NEW r \in Requests, Step(r) \/ Abandon(r) PROVE Justified'
  <2>1. attempts \subseteq attempts'
    <3>1. CASE req[r].pc # "commit" \/ req'[r].pc = "idle"
      BY <1>4, <3>1, StepFacts
    <3>2. CASE ~(req[r].pc # "commit" \/ req'[r].pc = "idle")
      BY <1>4, <3>2, CommitFacts
    <3> QED BY <3>1, <3>2
  <2>2. ASSUME NEW s \in Requests PROVE Committed(s)'
    <3>1. CASE s # r
      <4>1. req'[s] = req[s]
        BY <1>4, <3>1, StepFacts
      <4> QED BY <1>0, <2>1, <4>1, CommittedKept
    <3>2. CASE s = r
      <4>1. ASSUME req'[r].pc \in {"publish", "store"} PROVE AttemptOf(r)' = AttemptOf(r)
        BY <1>4, <4>1, StepFacts DEF AttemptOf
      <4>2. CASE req'[r].pc = "publish"
        <5>1. req[r].pc = "commit"
          BY <1>4, <4>2, StepFacts
        <5>2. AttemptOf(r) \in attempts'
          BY <1>4, <4>2, <5>1, CommitFacts
        <5> QED BY <3>2, <4>1, <4>2, <5>2 DEF Committed
      <4>3. CASE req'[r].pc = "store"
        <5>1. req[r].pc = "publish"
          BY <1>4, <4>3, StepFacts
        <5>2. AttemptOf(r) \in attempts
          BY <1>0, <5>1 DEF Committed
        <5> QED BY <2>1, <3>2, <4>1, <4>3, <5>2 DEF Committed
      <4>4. CASE req'[r].pc \notin {"publish", "store"}
        BY <3>2, <4>4 DEF Committed
      <4> QED BY <4>2, <4>3, <4>4
    <3> QED BY <3>1, <3>2
  <2>3. EventsAndRepliesAreTrue'
    <3>1. CASE Publish(r)
      <4>1. AttemptOf(r) \in attempts /\ attempts' = attempts /\ idem' = idem
        BY <1>0, <3>1 DEF Committed, Publish, At
      <4>2. outbox' = outbox \cup {[op |-> req[r].op, number |-> req[r].number, ok |-> ~req[r].failed]}
        BY <3>1 DEF Publish
      <4>3. \A e \in outbox' : \E a \in attempts' : a.op = e.op /\ a.number = e.number /\ a.ok = e.ok
        BY <1>0, <4>1, <4>2 DEF EventsAndRepliesAreTrue, AttemptOf
      <4> QED BY <1>0, <4>1, <4>3 DEF EventsAndRepliesAreTrue
    <3>2. CASE Store(r)
      <4>1. AttemptOf(r) \in attempts /\ attempts' = attempts /\ outbox' = outbox
        BY <1>0, <3>2 DEF Committed, Store, At
      <4>2. \/ idem' = idem
            \/ idem' = [idem EXCEPT ![<<req[r].op, req[r].key>>] =
                          [hash |-> req[r].hash, number |-> req[r].number, ok |-> ~req[r].failed]]
        BY <3>2 DEF Store
      <4>3. idem \in [Ops \X Keys -> Record]
        BY DEF TypeOK
      <4>4. ASSUME NEW op \in Ops, NEW key \in Keys, idem'[<<op, key>>] # NoRecord
            PROVE  \E a \in attempts : /\ a.op = op /\ a.key = key
                                       /\ a.hash = idem'[<<op, key>>].hash
                                       /\ a.number = idem'[<<op, key>>].number
                                       /\ a.ok = idem'[<<op, key>>].ok
        <5>1. CASE idem'[<<op, key>>] = idem[<<op, key>>]
          BY <1>0, <4>4, <5>1 DEF EventsAndRepliesAreTrue
        <5>2. CASE idem'[<<op, key>>] # idem[<<op, key>>]
          <6>1. /\ op = req[r].op /\ key = req[r].key
                /\ idem'[<<op, key>>] =
                     [hash |-> req[r].hash, number |-> req[r].number, ok |-> ~req[r].failed]
            BY <4>2, <4>3, <5>2
          <6> QED BY <4>1, <6>1 DEF AttemptOf
        <5> QED BY <5>1, <5>2
      <4> QED BY <1>0, <4>1, <4>4 DEF EventsAndRepliesAreTrue
    <3>3. CASE ~Publish(r) /\ ~Store(r)
      <4>1. UNCHANGED <<outbox, idem>>
        BY <1>4, <3>3 DEF Step, LoadPlan, ResolveSource, CheckReferences, ResolveAttemptNumber,
                          TouchFile, UpdateActionRow, Commit, Abandon, db
      <4> QED BY <1>0, <2>1, <4>1, EventsKept
    <3> QED BY <3>1, <3>2, <3>3
  <2> QED BY <2>2, <2>3 DEF Justified
<1> QED BY <1>1, <1>2, <1>3, <1>4 DEF Next

LEMMA JustifiedInit == Init => Justified
BY NoRequestFacts DEF Init, Justified, EventsAndRepliesAreTrue, Committed

\* No event and no stored response without its committed attempt (EventsAndRepliesAreTrue
\* of the runs), whoever is cut off where.
THEOREM EventsAreJustified == Spec => []EventsAndRepliesAreTrue
<1>1. Justified => EventsAndRepliesAreTrue
  BY DEF Justified
<1>2. TypeOK /\ Shape /\ Numbered /\ Justified /\ [Next]_vars => Justified'
  BY JustifiedStep
<1> QED BY <1>1, <1>2, JustifiedInit, BasicsHold, PTL DEF Spec

(***************************************************************************)
(* Nobody waits in vain.  The row lock belongs to a transaction at work,   *)
(* and an attempt without its event to a request about to publish it.      *)
(***************************************************************************)
LockOf(q) == q.pc \in Working /\ q.op # "verify"

\* The row lock is held by an open transaction that writes actions, and by nobody else:
\* no end of one, answered, refused, conflicting or cut off, leaves it behind.
LocksAreReleased == lock # NoOne => LockOf(req[lock])

LEMMA LockStep == TypeOK /\ Shape /\ LocksAreReleased /\ [Next]_vars => LocksAreReleased'
<1> SUFFICES ASSUME TypeOK, Shape, LocksAreReleased, [Next]_vars, lock' # NoOne
             PROVE  LockOf(req'[lock'])
  BY DEF LocksAreReleased
<1>0. /\ req \in [Requests -> Request] /\ lock \in Requests \cup {NoOne}
      /\ \A r \in Requests : req[r] \in Request /\ RequestShape(req[r])
  BY DEF TypeOK, Shape
<1>1. CASE UNCHANGED vars \/ RequirePackage
  BY <1>1 DEF vars, RequirePackage, LocksAreReleased
<1>2. ASSUME NEW r \in Requests, NEW op \in Ops, NEW key \in Keys \cup {NoKey}, NEW hash \in Hashes,
             Begin(r, op, key, hash)
      PROVE  LockOf(req'[lock'])
  <2>1. lock' = lock /\ LockOf(req[lock]) /\ lock \in Requests
    BY <1>0, <1>2, BeginFacts DEF LocksAreReleased
  <2>2. lock # r
    BY <1>2, <2>1, BeginFacts DEF LockOf, Working
  <2> QED BY <1>2, <2>1, <2>2, BeginFacts
<1>3. ASSUME NEW r \in Requests, Step(r) \/ Abandon(r) PROVE LockOf(req'[lock'])
  <2>1. \A s \in Requests : s # r => req'[s] = req[s]
    BY <1>3, StepFacts
  \* The lock of somebody else is where it was.
  <2>2. ASSUME lock' # r PROVE LockOf(req'[lock'])
    <3>1. lock' = lock
      BY <1>3, <2>2 DEF Step, LoadPlan, ResolveSource, CheckReferences, ResolveAttemptNumber,
         TouchFile, UpdateActionRow, Commit, Publish, Store, Abandon, Answered
    <3> QED BY <1>0, <2>1, <2>2, <3>1 DEF LocksAreReleased
  <2>3. ASSUME lock' = r PROVE LockOf(req'[lock'])
    <3>1. ~Answered(r) /\ ~Commit(r)
      BY <2>3 DEF Answered, Commit
    <3>2. CASE lock = r
      <4>1. LockOf(req[r])
        BY <2>3, <3>2 DEF LocksAreReleased
      <4>2. TouchFile(r) \/ UpdateActionRow(r)
        BY <1>3, <3>1, <4>1 DEF Step, LoadPlan, ResolveSource, CheckReferences,
           ResolveAttemptNumber, Publish, Store, Abandon, At, LockOf, Working
      <4>3. req'[r].pc \in Working
        BY <1>0, <4>2 DEF TouchFile, UpdateActionRow, Goto, Working, Request
      <4>4. req'[r].op = req[r].op
        BY <1>3, <4>3, StepFacts DEF Working
      <4> QED BY <2>3, <4>1, <4>3, <4>4 DEF LockOf
    <3>3. CASE lock # r
      <4>1. UpdateActionRow(r)
        BY <1>3, <2>3, <3>1, <3>3 DEF Step, LoadPlan, ResolveSource, CheckReferences,
           ResolveAttemptNumber, TouchFile, Publish, Store, Abandon
      <4>2. req[r].op # "verify"
        BY <1>0, <4>1 DEF UpdateActionRow, At, RequestShape
      <4>3. req'[r].pc \in Working
        BY <1>0, <4>1 DEF UpdateActionRow, Goto, Working, Request
      <4>4. req'[r].op = req[r].op
        BY <1>3, <4>3, StepFacts DEF Working
      <4> QED BY <2>3, <4>2, <4>3, <4>4 DEF LockOf
    <3> QED BY <3>2, <3>3
  <2> QED BY <2>2, <2>3
<1> QED BY <1>1, <1>2, <1>3 DEF Next

\* Who waits for the row lock waits for a transaction at work, however many requests
\* overlap and whoever is cut off (the safety half of EveryRequestAnswered).
THEOREM LocksAreNeverLeftBehind == Spec => []LocksAreReleased
<1>1. Init => LocksAreReleased
  BY DEF Init, LocksAreReleased
<1>2. (TypeOK /\ Shape /\ Numbered) /\ LocksAreReleased /\ [Next]_vars => LocksAreReleased'
  BY LockStep
<1> QED BY <1>1, <1>2, BasicsHold, PTL DEF Spec

EventOf(a) == [op |-> a.op, number |-> a.number, ok |-> a.ok]

\* Request q is about to publish the event e.
AboutToPublish(e, q) ==
  q.pc = "publish" /\ e = [op |-> q.op, number |-> q.number, ok |-> ~q.failed]

\* While no request is cut off, a committed attempt has its event in the outbox, or a
\* request in hand that publishes it next.
NoEventIsLost ==
  crashes = 0 => \A a \in attempts : \/ EventOf(a) \in outbox
                                     \/ \E r \in Requests : AboutToPublish(EventOf(a), req[r])

LEMMA NoEventIsLostStep ==
  TypeOK /\ Shape /\ Numbered /\ NoEventIsLost /\ [Next]_vars => NoEventIsLost'
<1> SUFFICES ASSUME TypeOK, Shape, Numbered, NoEventIsLost, [Next]_vars, crashes' = 0,
                    NEW a \in attempts'
             PROVE  \/ EventOf(a) \in outbox'
                    \/ \E r \in Requests : AboutToPublish(EventOf(a), req'[r])
  BY DEF NoEventIsLost
<1>1. CASE UNCHANGED vars \/ RequirePackage
  BY <1>1 DEF vars, RequirePackage, db, budget, NoEventIsLost
<1>2. ASSUME NEW r \in Requests, NEW op \in Ops, NEW key \in Keys \cup {NoKey}, NEW hash \in Hashes,
             Begin(r, op, key, hash)
      PROVE  \/ EventOf(a) \in outbox'
             \/ \E s \in Requests : AboutToPublish(EventOf(a), req'[s])
  <2>1. /\ UNCHANGED <<attempts, outbox, crashes>> /\ req[r].pc = "idle"
        /\ \A s \in Requests : s # r => req'[s] = req[s]
    BY <1>2, BeginFacts DEF db
  <2>2. EventOf(a) \in outbox \/ \E s \in Requests : AboutToPublish(EventOf(a), req[s])
    BY <2>1 DEF NoEventIsLost
  <2>3. ~AboutToPublish(EventOf(a), req[r])
    BY <2>1 DEF AboutToPublish
  <2> QED BY <2>1, <2>2, <2>3
<1>3. ASSUME NEW r \in Requests, Step(r) \/ Abandon(r)
      PROVE  \/ EventOf(a) \in outbox'
             \/ \E s \in Requests : AboutToPublish(EventOf(a), req'[s])
  <2>a. ~Abandon(r)
    BY DEF Abandon, TypeOK
  <2>b. Step(r)
    BY <1>3, <2>a
  <2>c. crashes' = crashes
    <3>1. CASE LoadPlan(r) \/ ResolveSource(r) \/ CheckReferences(r)
      BY <3>1 DEF LoadPlan, ResolveSource, CheckReferences, budget
    <3>2. CASE ResolveAttemptNumber(r) \/ TouchFile(r) \/ UpdateActionRow(r)
      BY <3>2 DEF ResolveAttemptNumber, TouchFile, UpdateActionRow, budget
    <3>3. CASE Commit(r) \/ Publish(r) \/ Store(r)
      BY <3>3 DEF Commit, Publish, Store, budget
    <3> QED BY <2>b, <3>1, <3>2, <3>3 DEF Step
  <2>1. Step(r) /\ crashes = 0
    BY <2>b, <2>c
  <2>2. outbox \subseteq outbox'
    BY <2>1 DEF Step, LoadPlan, ResolveSource, CheckReferences, ResolveAttemptNumber,
       TouchFile, UpdateActionRow, Commit, Publish, Store, db
  <2>3. \A s \in Requests : s # r => req'[s] = req[s]
    BY <1>3, StepFacts
  <2>4. CASE a \in attempts
    <3>1. EventOf(a) \in outbox \/ \E s \in Requests : AboutToPublish(EventOf(a), req[s])
      BY <2>1, <2>4 DEF NoEventIsLost
    <3>2. ASSUME AboutToPublish(EventOf(a), req[r]) PROVE EventOf(a) \in outbox'
      <4>1. Publish(r)
        BY <2>1, <3>2 DEF AboutToPublish, Step, LoadPlan, ResolveSource, CheckReferences,
           ResolveAttemptNumber, TouchFile, UpdateActionRow, Commit, Store, At
      <4> QED BY <3>2, <4>1 DEF AboutToPublish, Publish
    <3> QED BY <2>2, <2>3, <3>1, <3>2
  <2>5. CASE a \notin attempts
    <3>1. req[r].pc = "commit" /\ req'[r].pc # "idle"
      BY <1>3, <2>5, StepFacts
    <3>2. req'[r].pc = "publish" /\ a = AttemptOf(r)
      BY <1>3, <2>5, <3>1, CommitFacts
    <3>3. /\ req'[r].op = req[r].op /\ req'[r].number = req[r].number
          /\ req'[r].failed = req[r].failed
      BY <1>3, <3>1, <3>2, StepFacts
    <3>4. AboutToPublish(EventOf(a), req'[r])
      BY <3>2, <3>3 DEF AboutToPublish, EventOf, AttemptOf
    <3> QED BY <3>4
  <2> QED BY <2>4, <2>5
<1> QED BY <1>1, <1>2, <1>3 DEF Next

\* A request that is not cut off does not end, in an answer or in an error, between the
\* commit of its attempt and the event (the safety half of EveryAttemptPublished).
THEOREM CommittedAttemptsAreAnnounced == Spec => []NoEventIsLost
<1>1. Init => NoEventIsLost
  BY DEF Init, NoEventIsLost
<1>2. (TypeOK /\ Shape /\ Numbered) /\ NoEventIsLost /\ [Next]_vars => NoEventIsLost'
  BY NoEventIsLostStep
<1> QED BY <1>1, <1>2, BasicsHold, PTL DEF Spec

(***************************************************************************)
(* Requests one after the other.  Nobody else is in flight, so the number  *)
(* a request has read is still the next one, and how far it has come with  *)
(* the scope files is how far the files have come.                         *)
(***************************************************************************)
Alone == ~overlapped =>
  \A r, s \in Requests : req[r].pc # "idle" /\ req[s].pc # "idle" => r = s

LEMMA AloneStep == TypeOK /\ Shape /\ Alone /\ [Next]_vars => Alone'
<1> SUFFICES ASSUME TypeOK, Shape, Alone, [Next]_vars PROVE Alone'
  OBVIOUS
<1>1. CASE UNCHANGED vars \/ RequirePackage
  BY <1>1 DEF vars, RequirePackage, budget, Alone
<1>2. ASSUME NEW r \in Requests, NEW op \in Ops, NEW key \in Keys \cup {NoKey}, NEW hash \in Hashes,
             Begin(r, op, key, hash)
      PROVE  Alone'
  <2>1. ~overlapped' => \A q \in Requests : req[q].pc = "idle"
    BY <1>2 DEF Begin, At
  <2> QED BY <1>2, <2>1, BeginFacts DEF Alone
<1>3. ASSUME NEW r \in Requests, Step(r) \/ Abandon(r) PROVE Alone'
  BY <1>3, StepFacts DEF Alone
<1> QED BY <1>1, <1>2, <1>3 DEF Next

Touching(r) == req[r].pc \in Working /\ req[r].op # "verify"

Progress(r) == req[r].pc \in Working =>
  /\ req[r].number = Cardinality(InTable(Table(req[r].op))) + 1
  /\ req[r].op # "verify" /\ ~req[r].failed =>
       \A s \in Scopes : s < req[r].at \/ (s = req[r].at /\ req[r].pc # "file")
          => files[s] = (req[r].mode = "write")

Settled == InTable("apply") # {} /\ Latest("apply").ok =>
  \A s \in Scopes : files[s] = (Latest("apply").mode = "write")

Follows ==
  /\ blocked => \A s \in Scopes : ~files[s]
  /\ InSequence /\ ~blocked =>
       /\ \A r \in Requests : Progress(r)
       /\ (\A r \in Requests : ~Touching(r)) => Settled

LEMMA SettledKept ==
  ASSUME Settled, UNCHANGED <<attempts, files>>
  PROVE  Settled'
BY SameTables DEF Settled

LEMMA ProgressKept ==
  ASSUME NEW r \in Requests, Progress(r), req'[r] = req[r], UNCHANGED <<attempts, files>>
  PROVE  Progress(r)'
BY DEF Progress, InTable

LEMMA FollowsKept ==
  ASSUME Follows, UNCHANGED <<blocked, files, attempts, crashes>>, overlapped => overlapped',
         \A r \in Requests : req'[r] = req[r] \/ (req[r].pc = "idle" /\ req'[r].pc = "load")
  PROVE  Follows'
<1>1. InSequence' => InSequence
  BY DEF InSequence
<1>2. ASSUME NEW r \in Requests, Progress(r) PROVE Progress(r)'
  <2>1. CASE req'[r] = req[r]
    BY <1>2, <2>1, ProgressKept
  <2>2. CASE req'[r].pc = "load"
    BY <2>2 DEF Progress, Working
  <2> QED BY <2>1, <2>2
<1>3. \A r \in Requests : Touching(r) => Touching(r)'
  BY DEF Touching, Working
<1> QED BY <1>1, <1>2, <1>3, SettledKept DEF Follows

LEMMA FollowsStep ==
  TypeOK /\ TypeOK' /\ Shape /\ Numbered /\ Numbered' /\ Alone /\ Follows /\ [Next]_vars => Follows'
<1> SUFFICES ASSUME TypeOK, TypeOK', Shape, Numbered, Numbered', Alone, Follows, [Next]_vars
             PROVE  Follows'
  OBVIOUS
<1>1. CASE UNCHANGED vars \/ RequirePackage
  BY <1>1, FollowsKept DEF vars, RequirePackage, budget, db
<1>2. ASSUME NEW r \in Requests, NEW op \in Ops, NEW key \in Keys \cup {NoKey}, NEW hash \in Hashes,
             Begin(r, op, key, hash)
      PROVE  Follows'
  <2>1. overlapped => overlapped'
    BY <1>2 DEF Begin
  <2> QED BY <1>2, <2>1, BeginFacts, FollowsKept DEF db
<1>3. ASSUME NEW r \in Requests, Step(r) \/ Abandon(r) PROVE Follows'
  <2>0. /\ \A s \in Requests : s # r => req'[s] = req[s]
        /\ req[r].pc # "idle" /\ blocked' = blocked /\ overlapped' = overlapped
    BY <1>3, StepFacts
  <2>1. req[r] \in Request /\ RequestShape(req[r]) /\ req[r].at \in Scopes
    BY DEF TypeOK, Shape, Request
  <2>2. files' = files \/ TouchFile(r)
    BY <1>3 DEF Step, LoadPlan, ResolveSource, CheckReferences, ResolveAttemptNumber,
                UpdateActionRow, Commit, Publish, Store, Abandon
  <2>3. (blocked => \A s \in Scopes : ~files[s])'
    <3>1. TouchFile(r) => ~blocked
      BY <2>1 DEF TouchFile, At, RequestShape
    <3> QED BY <2>0, <2>2, <3>1 DEF Follows
  <2> SUFFICES ASSUME InSequence', ~blocked
               PROVE  /\ \A s \in Requests : Progress(s)'
                      /\ (\A s \in Requests : ~Touching(s)') => Settled'
    BY <2>0, <2>3 DEF Follows
  <2>4. Step(r) /\ InSequence
    <3>1. crashes \in Nat /\ crashes' = 0
      BY DEF TypeOK, InSequence
    <3>2. ~Abandon(r)
      BY <3>1 DEF Abandon
    <3>3. crashes' = crashes
      BY <1>3, <3>2 DEF Step, LoadPlan, ResolveSource, CheckReferences, ResolveAttemptNumber,
             TouchFile, UpdateActionRow, Commit, Publish, Store, budget
    <3> QED BY <1>3, <2>0, <3>1, <3>2, <3>3 DEF InSequence
  <2>5. \A s \in Requests : s # r => req[s].pc = "idle" /\ req'[s].pc = "idle"
    BY <2>0, <2>4 DEF Alone, InSequence
  <2>6. ASSUME Progress(r)', ~Touching(r)' => Settled'
        PROVE  /\ \A s \in Requests : Progress(s)'
               /\ (\A s \in Requests : ~Touching(s)') => Settled'
    BY <2>5, <2>6 DEF Progress, Working
  <2>7. Progress(r) /\ (~Touching(r) => Settled)
    <3>1. ~Touching(r) => \A s \in Requests : ~Touching(s)
      BY <2>5 DEF Touching, Working
    <3> QED BY <2>4, <3>1 DEF Follows
  <2>8. CASE req[r].pc \notin Working /\ req'[r].pc \notin Working
    <3>1. UNCHANGED <<attempts, files>>
      BY <1>3, <2>2, <2>8, StepFacts DEF Working, TouchFile, At
    <3>2. ~Touching(r) /\ Progress(r)'
      BY <2>8 DEF Touching, Progress
    <3> QED BY <2>6, <2>7, <3>1, <3>2, SettledKept
  <2>9. CASE req[r].pc \notin Working /\ req'[r].pc \in Working
    <3>1. ResolveAttemptNumber(r)
      <4>1. req[r].pc = "number"
        BY <1>3, <2>9, StepFacts
      <4> QED BY <2>4, <4>1 DEF Step, LoadPlan, ResolveSource, CheckReferences, TouchFile,
                 UpdateActionRow, Commit, Publish, Store, At
    <3>2. UNCHANGED <<attempts, files>>
      BY <3>1 DEF ResolveAttemptNumber, db
    <3>3. PICK t \in Tables : t = Table(req[r].op)
      BY TableFacts
    <3>4. req'[r].op = req[r].op /\ req'[r].number = Cardinality(InTable(t)) + 1
      BY <1>3, <2>9, <3>3, StepFacts, MaxIsCount DEF NextNumber, Working
    <3>5. req'[r].at = 1 /\ (req'[r].op # "verify" => req'[r].pc = "file")
      <4>1. req[r].at = 1
        BY <2>1, <3>1 DEF ResolveAttemptNumber, At, RequestShape, Early
      <4>2. \E failed \in BOOLEAN :
              req' = [req EXCEPT ![r].number = NextNumber(Table(req[r].op)), ![r].failed = failed,
                                 ![r].pc = IF req[r].op = "verify" THEN "commit"
                                           ELSE IF blocked THEN "row" ELSE "file"]
        BY <3>1 DEF ResolveAttemptNumber
      <4> QED BY <2>1, <4>1, <4>2 DEF TypeOK, Request
    <3>6. \A s \in Scopes : ~(s < 1)
      BY LifecycleAssumption DEF Scopes
    <3>7. Cardinality(InTable(Table(req[r].op)))' = Cardinality(InTable(t))
      BY <3>2, <3>3, <3>4 DEF InTable
    <3>8. Progress(r)'
      BY <3>4, <3>5, <3>6, <3>7 DEF Progress
    <3>9. ~Touching(r)' => ~Touching(r)
      BY <2>9 DEF Touching
    <3> QED BY <2>6, <2>7, <3>2, <3>8, <3>9, SettledKept
  <2>10. CASE req[r].pc \in Working /\ req'[r].pc \in Working
    <3>1. TouchFile(r) \/ UpdateActionRow(r)
      <4>1. /\ ~LoadPlan(r) /\ ~ResolveSource(r) /\ ~CheckReferences(r)
            /\ ~ResolveAttemptNumber(r) /\ ~Publish(r) /\ ~Store(r)
        BY <2>10 DEF LoadPlan, ResolveSource, CheckReferences, ResolveAttemptNumber, Publish,
                  Store, At, Working
      <4>2. ASSUME Commit(r) PROVE FALSE
        <5>1. req' = [req EXCEPT ![r].pc = "publish"] \/ req' = [req EXCEPT ![r] = NoRequest]
          BY <4>2 DEF Commit, Answered, Goto
        <5>2. req'[r].pc \in {"publish", "idle"}
          BY <2>1, <5>1 DEF TypeOK, Request, NoRequest
        <5> QED BY <2>10, <5>2 DEF Working
      <4> QED BY <2>4, <4>1, <4>2 DEF Step
    <3>2. req[r].op # "verify" /\ UNCHANGED attempts
      BY <2>1, <3>1 DEF TouchFile, UpdateActionRow, At, RequestShape, db
    <3>3. req'[r].op = req[r].op /\ req'[r].number = req[r].number /\ req'[r].mode = req[r].mode
      BY <1>3, <2>10, StepFacts DEF Working
    <3>4. req'[r].number = Cardinality(InTable(Table(req[r].op)))' + 1
      BY <2>7, <2>10, <3>2, <3>3 DEF Progress, InTable
    <3>5. ASSUME ~req'[r].failed, NEW s \in Scopes,
                 s < req'[r].at \/ (s = req'[r].at /\ req'[r].pc # "file")
          PROVE  files'[s] = (req[r].mode = "write")
      <4>1. \A k \in Scopes : k < req[r].at \/ (k = req[r].at /\ req[r].pc # "file") =>
              (~req[r].failed => files[k] = (req[r].mode = "write"))
        BY <2>7, <2>10, <3>2 DEF Progress
      <4>2. CASE TouchFile(r)
        <5>1. /\ files' = [files EXCEPT ![req[r].at] = (req[r].mode = "write")]
              /\ req' = [req EXCEPT ![r].pc = "row"]
          BY <2>1, <3>5, <4>2 DEF TouchFile, Goto, TypeOK, Request
        <5>2. req'[r].at = req[r].at /\ req'[r].failed = req[r].failed
          BY <2>1, <5>1 DEF TypeOK, Request
        <5>3. files' \in [Scopes -> BOOLEAN] /\ files \in [Scopes -> BOOLEAN]
          BY DEF TypeOK
        <5>4. CASE s = req[r].at
          BY <2>1, <5>1, <5>3, <5>4
        <5>5. CASE s # req[r].at
          BY <3>5, <4>1, <5>1, <5>2, <5>3, <5>5
        <5> QED BY <5>4, <5>5
      <4>3. CASE UpdateActionRow(r)
        <5>1. files' = files /\ req[r].pc = "row"
          BY <4>3 DEF UpdateActionRow, At
        <5>2. \/ req' = [req EXCEPT ![r].pc = "commit"]
              \/ req' = [req EXCEPT ![r].pc = "file", ![r].at = req[r].at + 1]
          BY <2>1, <4>3 DEF UpdateActionRow, Goto, TypeOK
        <5>3. req'[r].failed = req[r].failed
              /\ (req'[r].at = req[r].at \/ (req'[r].at = req[r].at + 1 /\ req'[r].pc = "file"))
          BY <2>1, <5>2 DEF TypeOK, Request
        <5>4. s < req[r].at \/ s = req[r].at
          BY <2>1, <3>5, <5>3 DEF Scopes
        <5> QED BY <3>5, <4>1, <5>1, <5>3, <5>4
      <4> QED BY <3>1, <4>2, <4>3
    <3>6. Progress(r)'
      BY <3>3, <3>4, <3>5 DEF Progress
    <3>7. Touching(r)'
      BY <2>10, <3>2, <3>3 DEF Touching
    <3> QED BY <2>6, <3>6, <3>7
  <2>11. CASE req[r].pc \in Working /\ req'[r].pc \notin Working
    <3>1. Commit(r) /\ req[r].pc = "commit" /\ files' = files
      <4>1. /\ ~LoadPlan(r) /\ ~ResolveSource(r) /\ ~CheckReferences(r)
            /\ ~ResolveAttemptNumber(r) /\ ~Publish(r) /\ ~Store(r)
        BY <2>11 DEF LoadPlan, ResolveSource, CheckReferences, ResolveAttemptNumber, Publish,
                  Store, At, Working
      <4>2. ASSUME TouchFile(r) PROVE FALSE
        <5>1. \/ req' = [req EXCEPT ![r].pc = "row"]
              \/ req' = [req EXCEPT ![r].pc = "row", ![r].failed = TRUE]
          BY <4>2 DEF TouchFile, Goto
        <5>2. req'[r].pc = "row"
          BY <2>1, <5>1 DEF TypeOK, Request
        <5> QED BY <2>11, <5>2 DEF Working
      <4>3. ASSUME UpdateActionRow(r) PROVE FALSE
        <5>1. \/ req' = [req EXCEPT ![r].pc = "commit"]
              \/ req' = [req EXCEPT ![r].pc = "file", ![r].at = req[r].at + 1]
          BY <2>1, <4>3 DEF UpdateActionRow, Goto, TypeOK
        <5>2. req'[r].pc \in {"commit", "file"}
          BY <2>1, <5>1 DEF TypeOK, Request
        <5> QED BY <2>11, <5>2 DEF Working
      <4>4. Commit(r)
        BY <2>4, <4>1, <4>2, <4>3 DEF Step
      <4> QED BY <4>4 DEF Commit, At
    <3>2. PICK t \in Tables : t = Table(req[r].op)
      BY TableFacts
    <3>3. ~NumberTaken(r)
      <4>1. req[r].number = Cardinality(InTable(t)) + 1 /\ Cardinality(InTable(t)) \in Nat
        BY <2>7, <2>11, <3>2, MaxIsCount DEF Progress
      <4>2. \A a \in InTable(t) : a.number \in 1..Cardinality(InTable(t))
        BY DEF Numbered, GaplessHistory
      <4> QED BY <3>2, <4>1, <4>2 DEF NumberTaken
    <3>4. req'[r].pc # "idle"
      BY <2>1, <3>1, <3>3 DEF Commit, Goto, TypeOK, Request
    <3>5. Progress(r)'
      BY <2>11 DEF Progress
    <3>6. Settled'
      <4>1. CASE req[r].op = "verify"
        <5>1. t # "apply" /\ "apply" \in Tables
          BY <3>2, <4>1 DEF Table, Tables
        <5>2. InTable("apply")' = InTable("apply")
          BY <1>3, <3>1, <3>2, <3>4, <5>1, CommitFacts
        <5>3. Latest("apply")' = Latest("apply")
          BY <5>2 DEF Latest, MaxNumber
        <5>4. Settled
          BY <2>7, <4>1 DEF Touching
        <5> QED BY <3>1, <5>2, <5>3, <5>4 DEF Settled
      <4>2. CASE req[r].op # "verify"
        <5>1. t = "apply"
          BY <3>2, <4>2 DEF Table
        <5>2. Latest("apply")' = AttemptOf(r)
          BY <1>3, <3>1, <3>2, <3>4, <5>1, CommitIsLatest
        <5>3. AttemptOf(r).ok = ~req[r].failed /\ AttemptOf(r).mode = req[r].mode
          BY DEF AttemptOf
        <5>4. ASSUME ~req[r].failed, NEW s \in Scopes PROVE files[s] = (req[r].mode = "write")
          <6>1. req[r].at = NumScopes
            BY <2>1, <3>1, <4>2, <5>4 DEF RequestShape
          <6>2. s < req[r].at \/ s = req[r].at
            BY <6>1, LifecycleAssumption DEF Scopes
          <6> QED BY <2>7, <2>11, <3>1, <4>2, <5>4, <6>2 DEF Progress
        <5> QED BY <3>1, <5>2, <5>3, <5>4 DEF Settled
      <4> QED BY <4>1, <4>2
    <3> QED BY <2>6, <3>5, <3>6
  <2> QED BY <2>8, <2>9, <2>10, <2>11
<1> QED BY <1>1, <1>2, <1>3 DEF Next

LEMMA FollowsInit == Init => Alone /\ Follows
BY NoRequestFacts DEF Init, Alone, Follows, InSequence, Progress, Touching, Settled, Working, InTable

\* The scope files follow the latest attempt, and a plan the policy blocks never writes them
\* (FilesFollowTheAttempt of the runs), for any number of scopes and failing writes.
THEOREM FilesFollow == Spec => []FilesFollowTheAttempt
<1>1. Follows => FilesFollowTheAttempt
  BY DEF Follows, FilesFollowTheAttempt, Quiet, Touching, Settled, Working
<1>2. TypeOK /\ Shape /\ Alone /\ [Next]_vars => Alone'
  BY AloneStep
<1>3. TypeOK /\ TypeOK' /\ Shape /\ Numbered /\ Numbered' /\ Alone /\ Follows /\ [Next]_vars => Follows'
  BY FollowsStep
<1> QED BY <1>1, <1>2, <1>3, FollowsInit, BasicsHold, PTL DEF Spec
(***************************************************************************)
(* Once per key.  The record of a key is written last, so what keeps a     *)
(* second attempt away is that every attempt has its record or is still    *)
(* being answered, and a request whose attempt is to come found no record. *)
(***************************************************************************)
Remembered(a) == a.key # NoKey =>
  \/ idem[<<a.op, a.key>>] # NoRecord
  \/ \E r \in Requests : req[r].pc \in {"publish", "store"} /\ req[r].op = a.op /\ req[r].key = a.key

Fresh(r) == req[r].pc \in Early \cup Working /\ req[r].key # NoKey =>
  \A a \in attempts : ~(a.op = req[r].op /\ a.key = req[r].key)

Keyed == InSequence =>
  /\ \A a \in attempts : Remembered(a)
  /\ \A r \in Requests : Fresh(r)
  /\ OncePerKey

LEMMA KeyedStep == TypeOK /\ Shape /\ Numbered /\ Alone /\ Alone' /\ Keyed /\ [Next]_vars => Keyed'
<1> SUFFICES ASSUME TypeOK, Shape, Numbered, Alone, Alone', Keyed, [Next]_vars, InSequence'
             PROVE  /\ \A a \in attempts' : Remembered(a)'
                    /\ \A r \in Requests : Fresh(r)'
                    /\ OncePerKey'
  BY DEF Keyed
<1>1. CASE UNCHANGED vars \/ RequirePackage
  <2>1. UNCHANGED <<attempts, idem, req, overlapped, crashes>>
    BY <1>1 DEF vars, RequirePackage, db, budget
  <2>2. InSequence
    BY <2>1 DEF InSequence
  <2> QED BY <2>1, <2>2 DEF Keyed, Remembered, Fresh, OncePerKey
<1>2. ASSUME NEW r \in Requests, NEW op \in Ops, NEW key \in Keys \cup {NoKey}, NEW hash \in Hashes,
             Begin(r, op, key, hash)
      PROVE  /\ \A a \in attempts' : Remembered(a)'
             /\ \A s \in Requests : Fresh(s)'
             /\ OncePerKey'
  <2>1. /\ UNCHANGED <<attempts, idem, crashes>> /\ req'[r].pc = "load"
        /\ req'[r].op = op /\ req'[r].key = key /\ \A s \in Requests : s # r => req'[s] = req[s]
    BY <1>2, BeginFacts DEF db
  <2>2. InSequence /\ \A q \in Requests : req[q].pc = "idle"
    BY <1>2, <2>1 DEF Begin, At, InSequence
  <2>3. \A a \in attempts : a.key # NoKey => idem[<<a.op, a.key>>] # NoRecord
    BY <2>2 DEF Keyed, Remembered
  <2>4. \A a \in attempts' : Remembered(a)'
    BY <2>1, <2>3 DEF Remembered
  <2>5. key # NoKey => idem[<<op, key>>] = NoRecord
    BY <1>2 DEF Begin
  <2>6. Fresh(r)'
    BY <2>1, <2>3, <2>5 DEF Fresh
  <2>7. \A s \in Requests : s # r => Fresh(s)'
    BY <2>1, <2>2 DEF Fresh, Early, Working
  <2> QED BY <2>1, <2>2, <2>4, <2>6, <2>7 DEF Keyed, OncePerKey
<1>3. ASSUME NEW r \in Requests, Step(r) \/ Abandon(r)
      PROVE  /\ \A a \in attempts' : Remembered(a)'
             /\ \A s \in Requests : Fresh(s)'
             /\ OncePerKey'
  <2>1. /\ \A s \in Requests : s # r => req'[s] = req[s]
        /\ req[r].pc # "idle" /\ overlapped' = overlapped
        /\ req'[r].pc # "idle" => req'[r].op = req[r].op /\ req'[r].key = req[r].key
    BY <1>3, StepFacts
  <2>2. Step(r) /\ InSequence
    <3>1. crashes \in Nat /\ crashes' = 0
      BY DEF TypeOK, InSequence
    <3>2. ~Abandon(r)
      BY <3>1 DEF Abandon
    <3>3. crashes' = crashes
      BY <1>3, <3>2 DEF Step, LoadPlan, ResolveSource, CheckReferences, ResolveAttemptNumber,
             TouchFile, UpdateActionRow, Commit, Publish, Store, budget
    <3> QED BY <1>3, <2>1, <3>1, <3>2, <3>3 DEF InSequence
  <2>3. \A s \in Requests : s # r => req[s].pc = "idle" /\ req'[s].pc = "idle"
    BY <2>1, <2>2 DEF Alone, InSequence
  <2>4. \A s \in Requests : s # r => Fresh(s)'
    BY <2>3 DEF Fresh, Early, Working
  <2>5. Fresh(r) /\ OncePerKey /\ \A a \in attempts : Remembered(a)
    BY <2>2 DEF Keyed
  <2>6. CASE ~(req[r].pc # "commit" \/ req'[r].pc = "idle")
    <3>1. PICK t : t = Table(req[r].op)
      OBVIOUS
    <3>2. req'[r].pc = "publish" /\ idem' = idem /\ attempts' = attempts \cup {AttemptOf(r)}
      BY <1>3, <2>6, <3>1, CommitFacts
    <3>3. AttemptOf(r).op = req[r].op /\ AttemptOf(r).key = req[r].key
      BY DEF AttemptOf
    <3>4. req[r].key # NoKey => \A a \in attempts : ~(a.op = req[r].op /\ a.key = req[r].key)
      BY <2>5, <2>6 DEF Fresh, Working
    <3>5. OncePerKey'
      BY <2>5, <3>2, <3>3, <3>4 DEF OncePerKey
    <3>6. ASSUME NEW a \in attempts' PROVE Remembered(a)'
      <4>1. CASE a = AttemptOf(r)
        BY <2>1, <3>2, <3>3, <4>1 DEF Remembered
      <4>2. CASE a \in attempts
        <5>1. a.key # NoKey => idem[<<a.op, a.key>>] # NoRecord
          BY <2>3, <2>5, <2>6, <4>2 DEF Remembered
        <5> QED BY <3>2, <5>1 DEF Remembered
      <4> QED BY <3>2, <4>1, <4>2
    <3>7. Fresh(r)'
      BY <3>2 DEF Fresh, Early, Working
    <3> QED BY <2>4, <3>5, <3>6, <3>7
  <2>7. CASE req[r].pc # "commit" \/ req'[r].pc = "idle"
    <3>1. attempts' = attempts
      BY <1>3, <2>7, StepFacts
    <3>2. OncePerKey'
      BY <2>5, <3>1 DEF OncePerKey
    <3>3. Fresh(r)'
      <4>1. req'[r].pc \in Early \cup Working => req[r].pc \in Early \cup Working
        BY <1>3, StepFacts DEF Early
      <4>2. req'[r].pc \in Early \cup Working => req'[r].pc # "idle"
        BY DEF Early, Working
      <4> QED BY <2>1, <2>5, <3>1, <4>1, <4>2 DEF Fresh
    <3>4. \A op \in Ops, key \in Keys : idem[<<op, key>>] # NoRecord => idem'[<<op, key>>] # NoRecord
      <4>1. CASE Store(r)
        <5>1. \/ idem' = idem
              \/ idem' = [idem EXCEPT ![<<req[r].op, req[r].key>>] =
                            [hash |-> req[r].hash, number |-> req[r].number, ok |-> ~req[r].failed]]
          BY <4>1 DEF Store
        <5>2. req[r].hash # "none" /\ idem \in [Ops \X Keys -> Record]
          BY DEF TypeOK, Request, Hashes
        <5> QED BY <5>1, <5>2 DEF NoRecord
      <4>2. CASE ~Store(r)
        BY <2>2, <4>2 DEF Step, LoadPlan, ResolveSource, CheckReferences, ResolveAttemptNumber,
                          TouchFile, UpdateActionRow, Commit, Publish, db
      <4> QED BY <4>1, <4>2
    <3>5. ASSUME NEW a \in attempts PROVE Remembered(a)'
      <4>1. a.op \in Ops /\ a.key \in Keys \cup {NoKey}
        BY DEF TypeOK, Attempt
      <4>2. CASE a.key = NoKey
        BY <4>2 DEF Remembered
      <4>3. CASE a.key # NoKey /\ idem[<<a.op, a.key>>] # NoRecord
        BY <3>4, <4>1, <4>3 DEF Remembered
      <4>4. CASE a.key # NoKey /\ idem[<<a.op, a.key>>] = NoRecord
        <5>1. req[r].pc \in {"publish", "store"} /\ req[r].op = a.op /\ req[r].key = a.key
          BY <2>3, <2>5, <4>4 DEF Remembered
        <5>2. Publish(r) \/ Store(r)
          BY <2>2, <5>1 DEF Step, LoadPlan, ResolveSource, CheckReferences, ResolveAttemptNumber,
                            TouchFile, UpdateActionRow, Commit, At
        <5>3. CASE Publish(r)
          <6>1. req' = [req EXCEPT ![r].pc = "store"]
            BY <4>4, <5>1, <5>3 DEF Publish, Goto
          <6>2. req'[r].pc = "store" /\ req'[r].op = a.op /\ req'[r].key = a.key
            BY <5>1, <6>1 DEF TypeOK, Request
          <6> QED BY <6>2 DEF Remembered
        <5>4. CASE Store(r)
          <6>1. idem[<<req[r].op, req[r].key>>].hash \in {"none", req[r].hash}
            BY <4>4, <5>1 DEF NoRecord
          <6>2. idem' = [idem EXCEPT ![<<req[r].op, req[r].key>>] =
                           [hash |-> req[r].hash, number |-> req[r].number, ok |-> ~req[r].failed]]
            BY <5>4, <6>1 DEF Store
          <6>3. req[r].hash # "none" /\ idem \in [Ops \X Keys -> Record] /\ a.key \in Keys
            BY <4>1, <4>4 DEF TypeOK, Request, Hashes
          <6>4. idem'[<<a.op, a.key>>] # NoRecord
            BY <4>1, <5>1, <6>2, <6>3 DEF NoRecord
          <6> QED BY <6>4 DEF Remembered
        <5> QED BY <5>2, <5>3, <5>4
      <4> QED BY <4>2, <4>3, <4>4
    <3> QED BY <2>4, <3>1, <3>2, <3>3, <3>5
  <2> QED BY <2>6, <2>7
<1> QED BY <1>1, <1>2, <1>3 DEF Next

LEMMA KeyedInit == Init => Alone /\ Keyed
BY NoRequestFacts DEF Init, Alone, Keyed, Fresh, OncePerKey, Early, Working

\* An operation is carried out once per key and payload while requests come one after the
\* other and none is cut off (OncePerKeyInSequence of the runs): the idempotency records
\* need no help from the unique attempt numbers there.
THEOREM OncePerKeyWhileInSequence == Spec => []OncePerKeyInSequence
<1>1. Keyed => OncePerKeyInSequence
  BY DEF Keyed, OncePerKeyInSequence
<1>2. TypeOK /\ Shape /\ Alone /\ [Next]_vars => Alone'
  BY AloneStep
<1>3. TypeOK /\ Shape /\ Numbered /\ Alone /\ Alone' /\ Keyed /\ [Next]_vars => Keyed'
  BY KeyedStep
<1> QED BY <1>1, <1>2, <1>3, KeyedInit, BasicsHold, PTL DEF Spec

(***************************************************************************)
(* Planning.  Numbers first: the least of a set, and what is reached by    *)
(* repeating a step.                                                       *)
(***************************************************************************)

\* Sets of numbers have a least one: the number of smaller ones is an injection, so some
\* number has none.
LEMMA LeastOfFinite ==
  ASSUME NEW S \in SUBSET Nat, IsFiniteSet(S), S # {}
  PROVE  \E m \in S : \A k \in S : m <= k
<1> DEFINE n == Cardinality(S)
           below(x) == {y \in S : y < x}
           rank == [x \in S |-> Cardinality(below(x))]
<1>1. n \in Nat /\ n # 0
  BY FS_CardinalityType, FS_EmptySet
<1>2. ASSUME NEW x \in S
      PROVE  /\ IsFiniteSet(below(x)) /\ Cardinality(below(x)) \in Nat
             /\ Cardinality(below(x)) \in 0..(n - 1)
  <2>1. below(x) \subseteq S \ {x}
    OBVIOUS
  <2>2. IsFiniteSet(S \ {x}) /\ Cardinality(S \ {x}) = n - 1
    BY FS_RemoveElement
  <2> HIDE DEF below
  <2>3. /\ IsFiniteSet(below(x)) /\ Cardinality(below(x)) <= n - 1
        /\ Cardinality(below(x)) \in Nat
    BY <2>1, <2>2, FS_Subset, FS_CardinalityType
  <2> QED BY <1>1, <2>3
<1>3. ASSUME NEW x \in S, NEW y \in S, x < y PROVE rank[x] < rank[y]
  <2>1. below(x) \subseteq below(y) /\ x \in below(y) /\ x \notin below(x)
    <3>1. \A z \in S : z < x => z < y
      BY <1>3
    <3>2. ~(x < x)
      OBVIOUS
    <3> QED BY <1>3, <3>1, <3>2
  <2>2. IsFiniteSet(below(y)) /\ Cardinality(below(x)) \in Nat /\ Cardinality(below(y)) \in Nat
    BY <1>2
  <2> HIDE DEF below
  <2>3. Cardinality(below(x)) < Cardinality(below(y))
    BY <2>1, <2>2, FS_Subset
  <2> QED BY <2>3
<1>4. rank \in Injection(S, 0..(n - 1))
  <2>1. rank \in [S -> 0..(n - 1)]
    BY <1>2
  <2> HIDE DEF rank
  <2>2. ASSUME NEW x \in S, NEW y \in S, rank[x] = rank[y] PROVE x = y
    <3>1. rank[x] \in Int /\ rank[y] \in Int
      BY <2>1, <1>1
    <3>2. ~(x < y) /\ ~(y < x)
      BY <1>3, <2>2, <3>1
    <3> QED BY <3>2
  <2> QED BY <2>1, <2>2 DEF Injection, IsInjective
<1>5. rank \in Surjection(S, 0..(n - 1))
  <2>1. IsFiniteSet(0..(n - 1)) /\ Cardinality(0..(n - 1)) = n
    BY <1>1, FS_Interval
  <2> HIDE DEF rank
  <2>2. IsFiniteSet(S) /\ Cardinality(S) = n
    OBVIOUS
  <2> HIDE DEF n
  <2> QED BY <1>4, <2>1, <2>2, FS_Injection
<1>6. PICK m \in S : rank[m] = 0
  <2>1. 0 \in 0..(n - 1)
    BY <1>1
  <2> QED BY <1>5, <2>1 DEF Surjection
<1>7. below(m) = {}
  <2>1. IsFiniteSet(below(m)) /\ Cardinality(below(m)) = 0
    BY <1>2, <1>6
  <2> QED BY <2>1, FS_EmptySet
<1> QED BY <1>7

LEMMA LeastOf ==
  ASSUME NEW S \in SUBSET Nat, S # {}
  PROVE  \E m \in S : \A k \in S : m <= k
<1>1. PICK n \in Nat : n \in S
  OBVIOUS
<1> DEFINE T == {k \in S : k <= n}
<1>2. T \subseteq 0..n /\ T \in SUBSET Nat /\ T # {}
  <2>1. n \in T
    BY <1>1
  <2>2. ASSUME NEW k \in T PROVE k \in 0..n /\ k \in Nat
    OBVIOUS
  <2> QED BY <2>1, <2>2
<1> HIDE DEF T
<1>3. IsFiniteSet(T)
  <2>1. n \in Int /\ 0 \in Int
    OBVIOUS
  <2>2. IsFiniteSet(0..n)
    BY <2>1, FS_Interval
  <2> QED BY <1>2, <2>2, FS_Subset
<1>4. PICK m \in T : \A k \in T : m <= k
  BY <1>2, <1>3, LeastOfFinite
<1> QED BY <1>1, <1>4 DEF T

\* Induction up to c, on a set of numbers.
LEMMA CountingUp ==
  ASSUME NEW c \in Nat, NEW S, 0 \in S, \A n \in 1..c : n - 1 \in S => n \in S
  PROVE  \A n \in 0..c : n \in S
<1> DEFINE outside == {n \in 0..c : n \notin S}
<1>1. SUFFICES ASSUME outside # {} PROVE FALSE
  OBVIOUS
<1>2. PICK m \in outside : \A k \in outside : m <= k
  <2>1. outside \in SUBSET Nat
    OBVIOUS
  <2> HIDE DEF outside
  <2> QED BY <1>1, <2>1, LeastOf
<1>3. m \in 1..c /\ m - 1 \in 0..c /\ m - 1 < m
  <2>1. m \in 0..c /\ m # 0
    OBVIOUS
  <2> QED BY <2>1
<1>4. m - 1 \in S
  BY <1>2, <1>3
<1> QED BY <1>3, <1>4

\* Repeating a step c times: there is a function of what each time arrives at.
Repeats(g, step, x, c) == g[0] = x /\ \A n \in 1..c : g[n] = step[g[n - 1]]

LEMMA RepetitionExists ==
  ASSUME NEW X, NEW step \in [X -> X], NEW x \in X, NEW c \in Nat
  PROVE  \E g \in [0..c -> X] : Repeats(g, step, x, c)
<1> DEFINE Has(n) == \E g \in [0..n -> X] : g[0] = x /\ \A k \in 1..n : g[k] = step[g[k - 1]]
           lacks == {n \in Nat : ~Has(n)}
<1>1. Has(0)
  <2> DEFINE g == [k \in 0..0 |-> x]
  <2>1. g \in [0..0 -> X] /\ g[0] = x
    OBVIOUS
  <2>2. \A k \in 1..0 : g[k] = step[g[k - 1]]
    <3>1. \A k \in 1..0 : FALSE
      OBVIOUS
    <3> QED BY <3>1
  <2> HIDE DEF g
  <2> QED BY <2>1, <2>2
<1>2. ASSUME NEW n \in Nat, Has(n) PROVE Has(n + 1)
  <2>1. PICK g \in [0..n -> X] : g[0] = x /\ \A k \in 1..n : g[k] = step[g[k - 1]]
    BY <1>2
  <2> DEFINE h == [k \in 0..(n + 1) |-> IF k = n + 1 THEN step[g[n]] ELSE g[k]]
  <2>2. h \in [0..(n + 1) -> X] /\ h[0] = x
    BY <2>1
  <2>3. ASSUME NEW k \in 1..(n + 1) PROVE h[k] = step[h[k - 1]]
    BY <2>1
  <2> HIDE DEF h
  <2> QED BY <2>2, <2>3
<1> HIDE DEF Has
<1>3. lacks = {}
  <2>1. SUFFICES ASSUME lacks # {} PROVE FALSE
    OBVIOUS
  <2>2. PICK m \in lacks : \A k \in lacks : m <= k
    BY <2>1, LeastOf
  <2>3. m # 0 /\ m - 1 \in Nat /\ (m - 1) + 1 = m
    BY <1>1, <2>2
  <2>4. Has(m - 1)
    BY <2>2, <2>3
  <2>5. Has(m)
    BY <1>2, <2>3, <2>4
  <2> QED BY <2>2, <2>5
<1> QED BY <1>3 DEF Has, Repeats

(***************************************************************************)
(* Dependency graphs.  What the resolver collects is what the request      *)
(* declares.                                                               *)
(***************************************************************************)

\* What collectReachable computes is a set that holds the root and what its members need,
\* and it is the least such set: the levels grow until one adds nothing, and there are no
\* more of them than edges.
Levels(v, root, A) ==
  /\ v \in [0..Cardinality(A) -> SUBSET ({root} \cup {e[2] : e \in A})]
  /\ v[0] = {root}
  /\ \A n \in 1..Cardinality(A) :
       v[n] = v[n - 1] \cup {e[2] : e \in {f \in A : f[1] \in v[n - 1]}}

LEMMA LevelsExist ==
  ASSUME NEW root, NEW A, IsFiniteSet(A)
  PROVE  \E v : Levels(v, root, A) /\ Reachable(root, A) = v[Cardinality(A)]
<1> DEFINE c == Cardinality(A)
           V == {root} \cup {e[2] : e \in A}
           step == [U \in SUBSET V |-> U \cup {e[2] : e \in {f \in A : f[1] \in U}}]
           Level(v, n) == IF n = 0 THEN {root}
                          ELSE v[n - 1] \cup {e[2] : e \in {f \in A : f[1] \in v[n - 1]}}
           visited == CHOOSE v : v = [n \in 0..c |-> Level(v, n)]
<1>1. c \in Nat
  BY FS_CardinalityType
<1>2. step \in [SUBSET V -> SUBSET V] /\ {root} \in SUBSET V
  OBVIOUS
<1>3. PICK g \in [0..c -> SUBSET V] : g[0] = {root} /\ \A n \in 1..c : g[n] = step[g[n - 1]]
  <2> DEFINE X == SUBSET V  first == {root}
  <2>1. step \in [X -> X] /\ first \in X
    BY <1>2
  <2> HIDE DEF step, X, c, first
  <2>2. PICK g \in [0..c -> X] : Repeats(g, step, first, c)
    BY <1>1, <2>1, RepetitionExists
  <2> QED BY <2>2 DEF X, first, Repeats
<1>4. ASSUME NEW n \in 0..c PROVE g[n] = Level(g, n)
  <2>1. CASE n = 0
    BY <1>3, <2>1
  <2>2. CASE n # 0
    <3>1. n \in 1..c /\ n - 1 \in 0..c
      BY <1>1, <2>2
    <3>2. g[n] = step[g[n - 1]] /\ g[n - 1] \in SUBSET V
      BY <1>3, <3>1
    <3> QED BY <2>2, <3>2
  <2> QED BY <2>1, <2>2
<1>5. g = [n \in 0..c |-> Level(g, n)]
  <2> HIDE DEF Level, V, step, c
  <2> QED BY <1>3, <1>4
<1>6. visited = [n \in 0..c |-> Level(visited, n)]
  <2> HIDE DEF Level, c
  <2> QED BY <1>5
<1>7. Reachable(root, A) = visited[c]
  BY DEF Reachable
<1>8. \A n \in 0..c : visited[n] = g[n]
  <2> DEFINE same == {n \in 0..c : visited[n] = g[n]}
  <2>1. 0 \in same
    <3>1. 0 \in 0..c
      BY <1>1
    <3> HIDE DEF visited, c
    <3>2. visited[0] = Level(visited, 0)
      BY <1>6, <3>1
    <3> QED BY <1>3, <3>1, <3>2
  <2>2. ASSUME NEW n \in 1..c, n - 1 \in same PROVE n \in same
    <3>1. n \in 0..c /\ n # 0 /\ visited[n - 1] = g[n - 1]
      BY <2>2
    <3>2. visited[n] = Level(visited, n) /\ g[n] = Level(g, n)
      <4> HIDE DEF visited, Level, c
      <4> QED BY <3>1, <1>4, <1>6
    <3> HIDE DEF visited
    <3> QED BY <3>1, <3>2
  <2> HIDE DEF same
  <2>3. \A n \in 0..c : n \in same
    BY <1>1, <2>1, <2>2, CountingUp
  <2> HIDE DEF c
  <2> QED BY <2>3 DEF same
<1> HIDE DEF visited, Level
<1>9. Reachable(root, A) = g[c]
  BY <1>1, <1>7, <1>8
<1>10. \A n \in 1..c : g[n] = g[n - 1] \cup {e[2] : e \in {f \in A : f[1] \in g[n - 1]}}
  BY <1>4 DEF Level
<1> QED BY <1>3, <1>9, <1>10 DEF Levels

\* A set of packages that needs nothing outside of it.
ClosedUnder(A, S) == \A e \in A : e[1] \in S => e[2] \in S

LEMMA ReachableIsLeast ==
  ASSUME NEW root, NEW A, IsFiniteSet(A)
  PROVE  /\ root \in Reachable(root, A)
         /\ Reachable(root, A) \subseteq {root} \cup {e[2] : e \in A}
         /\ ClosedUnder(A, Reachable(root, A))
         /\ \A S : root \in S /\ ClosedUnder(A, S) => Reachable(root, A) \subseteq S
<1> DEFINE c == Cardinality(A)
           V == {root} \cup {e[2] : e \in A}
           Wider(U) == U \cup {e[2] : e \in {f \in A : f[1] \in U}}
<1>0. PICK v : Levels(v, root, A) /\ Reachable(root, A) = v[c]
  BY LevelsExist
<1>1. c \in Nat
  BY FS_CardinalityType
<1>2. /\ v \in [0..c -> SUBSET V]
      /\ v[0] = {root}
      /\ \A n \in 1..c : v[n] = Wider(v[n - 1])
  BY <1>0 DEF Levels
<1>3. IsFiniteSet(V) /\ Cardinality(V) <= c + 1
  <2> DEFINE ends == {e[2] : e \in A}
  <2>1. IsFiniteSet(ends) /\ Cardinality(ends) <= c /\ Cardinality(ends) \in Nat
    <3> DEFINE last == [e \in A |-> e[2]]
    <3>1. last \in Surjection(A, ends)
      BY DEF Surjection
    <3> HIDE DEF last, ends
    <3> QED BY <3>1, FS_Surjection, FS_CardinalityType
  <2> HIDE DEF ends
  <2>2. IsFiniteSet(ends \cup {root}) /\ Cardinality(ends \cup {root}) <= Cardinality(ends) + 1
    <3>1. /\ IsFiniteSet(ends \cup {root})
          /\ Cardinality(ends \cup {root}) =
               IF root \in ends THEN Cardinality(ends) ELSE Cardinality(ends) + 1
      BY <2>1, FS_AddElement
    <3> QED BY <2>1, <3>1
  <2>3. V = ends \cup {root}
    BY DEF ends
  <2> HIDE DEF V
  <2> QED BY <1>1, <2>1, <2>2, <2>3, FS_CardinalityType
<1>4. \A n \in 0..c : v[n] \subseteq V /\ IsFiniteSet(v[n]) /\ Cardinality(v[n]) \in Nat
  <2> SUFFICES ASSUME NEW n \in 0..c
               PROVE  v[n] \subseteq V /\ IsFiniteSet(v[n]) /\ Cardinality(v[n]) \in Nat
    OBVIOUS
  <2> HIDE DEF V, c
  <2>1. v[n] \in SUBSET V
    BY <1>2
  <2> QED BY <1>3, <2>1, FS_Subset, FS_CardinalityType
<1>5. root \in v[c]
  <2> DEFINE good == {n \in 0..c : root \in v[n]}
  <2>1. 0 \in good
    BY <1>1, <1>2
  <2>2. ASSUME NEW n \in 1..c, n - 1 \in good PROVE n \in good
    <3>1. root \in v[n - 1] /\ v[n] = Wider(v[n - 1]) /\ n \in 0..c
      BY <1>2, <2>2
    <3> QED BY <3>1
  <2> HIDE DEF good
  <2>3. \A n \in 0..c : n \in good
    BY <1>1, <2>1, <2>2, CountingUp
  <2> QED BY <1>1, <2>3 DEF good
<1>6. ASSUME NEW S, root \in S, ClosedUnder(A, S) PROVE v[c] \subseteq S
  <2> DEFINE good == {n \in 0..c : v[n] \subseteq S}
  <2>1. 0 \in good
    BY <1>1, <1>2, <1>6
  <2>2. ASSUME NEW n \in 1..c, n - 1 \in good PROVE n \in good
    <3>1. v[n - 1] \subseteq S /\ v[n] = Wider(v[n - 1]) /\ n \in 0..c
      BY <1>2, <2>2
    <3> QED BY <1>6, <3>1 DEF ClosedUnder
  <2> HIDE DEF good
  <2>3. \A n \in 0..c : n \in good
    BY <1>1, <2>1, <2>2, CountingUp
  <2> QED BY <1>1, <2>3 DEF good
<1>7. ClosedUnder(A, v[c])
  <2> DEFINE good == {n \in 0..c : ClosedUnder(A, v[n]) \/ n + 1 <= Cardinality(v[n])}
  <2>1. 0 \in good
    <3>1. Cardinality({root}) = 1
      BY FS_Singleton
    <3>2. 0 \in 0..c /\ v[0] = {root}
      BY <1>1, <1>2
    <3> QED BY <3>1, <3>2
  <2>2. ASSUME NEW n \in 1..c, n - 1 \in good PROVE n \in good
    <3>1. v[n] = Wider(v[n - 1]) /\ n \in 0..c /\ n - 1 \in 0..c
      BY <1>2, <2>2
    <3>2. CASE ClosedUnder(A, v[n - 1])
      <4>1. v[n] = v[n - 1]
        BY <3>1, <3>2 DEF ClosedUnder
      <4> QED BY <3>1, <3>2, <4>1
    <3>3. CASE ~ClosedUnder(A, v[n - 1])
      <4>1. (n - 1) + 1 <= Cardinality(v[n - 1])
        BY <2>2, <3>3
      <4>2. v[n - 1] \subseteq v[n] /\ v[n - 1] # v[n]
        BY <3>1, <3>3 DEF ClosedUnder
      <4>3. IsFiniteSet(v[n]) /\ Cardinality(v[n]) \in Nat /\ Cardinality(v[n - 1]) \in Nat
        BY <1>4, <3>1
      <4>4. Cardinality(v[n - 1]) < Cardinality(v[n])
        BY <4>2, <4>3, FS_Subset
      <4>5. n + 1 <= Cardinality(v[n])
        BY <4>1, <4>3, <4>4
      <4> QED BY <3>1, <4>5
    <3> QED BY <3>2, <3>3
  <2> HIDE DEF good
  <2>3. \A n \in 0..c : n \in good
    BY <1>1, <2>1, <2>2, CountingUp
  <2>4. c \in good
    BY <1>1, <2>3
  <2>5. CASE c + 1 <= Cardinality(v[c])
    <3>1. v[c] \subseteq V /\ Cardinality(v[c]) \in Nat
      BY <1>1, <1>4
    <3>2. v[c] = V
      <4> HIDE DEF V, c
      <4>1. Cardinality(V) \in Nat
        BY <1>3, FS_CardinalityType
      <4>2. Cardinality(v[c]) <= Cardinality(V)
        BY <1>3, <3>1, FS_Subset
      <4>3. Cardinality(v[c]) = Cardinality(V)
        BY <1>1, <1>3, <2>5, <3>1, <4>1, <4>2
      <4> QED BY <1>3, <3>1, <4>3, FS_Subset
    <3> QED BY <3>2 DEF ClosedUnder
  <2> QED BY <2>4, <2>5 DEF good
<1> QED
  <2>1. v[c] \subseteq V
    BY <1>1, <1>4
  <2> HIDE DEF c, Next
  <2> QED BY <1>0, <1>5, <1>6, <1>7, <2>1

\* What the assumption says of a request.
Sound(q) ==
  /\ q.known \subseteq Nat /\ q.package \in q.known
  /\ q.edges \in Seq(DependencyEdge)
  /\ IsFiniteSet(q.permissions) /\ q.policy.max \in Nat

\* Every edge is counted, or a counted one for the same pair comes before it.
LEMMA FirstForPair ==
  ASSUME NEW edges \in Seq(DependencyEdge), NEW i \in DOMAIN edges
  PROVE  \E j \in Counted(edges) : j <= i /\ Pair(edges[j]) = Pair(edges[i])
<1> DEFINE alike == {j \in DOMAIN edges : Pair(edges[j]) = Pair(edges[i])}
<1>1. DOMAIN edges = 1..Len(edges) /\ Len(edges) \in Nat
  OBVIOUS
<1>2. alike \in SUBSET Nat /\ i \in alike
  BY <1>1
<1>3. PICK m \in alike : \A k \in alike : m <= k
  <2> HIDE DEF alike
  <2> QED BY <1>2, LeastOf
<1>4. ASSUME NEW k \in 1..(m - 1) PROVE Pair(edges[k]) # Pair(edges[m])
  <2>1. m \in DOMAIN edges /\ Pair(edges[m]) = Pair(edges[i])
    OBVIOUS
  <2>2. k \in DOMAIN edges /\ ~(m <= k)
    BY <1>1, <2>1
  <2>3. k \notin alike
    BY <1>3, <2>2
  <2> QED BY <2>1, <2>2, <2>3
<1>5. m \in Counted(edges)
  BY <1>4 DEF Counted
<1> QED BY <1>2, <1>3, <1>5

\* The adjacency of the resolver is what the request declares, whatever its duplicates.
LEMMA AdjacencyIsDeclared ==
  ASSUME NEW q, Sound(q)
  PROVE  Adjacency(q.edges, q.known) = Declared(q)
<1> DEFINE edges == q.edges  known == q.known
<1>1. edges \in Seq(DependencyEdge)
  BY DEF Sound
<1> HIDE DEF edges, known
<1>2. ASSUME NEW i \in DOMAIN edges, edges[i].to \in known
      PROVE  \E j \in Counted(edges) : edges[j].to \in known /\ Pair(edges[j]) = Pair(edges[i])
  <2>1. PICK j \in Counted(edges) : j <= i /\ Pair(edges[j]) = Pair(edges[i])
    BY <1>1, FirstForPair
  <2> QED BY <1>2, <2>1 DEF Pair
<1>3. \A i \in Counted(edges) : i \in DOMAIN edges
  BY DEF Counted
<1> DEFINE counted  == {Pair(edges[i]) : i \in {k \in Counted(edges) : edges[k].to \in known}}
           declared == {Pair(edges[i]) : i \in {k \in DOMAIN edges : edges[k].to \in known}}
<1>4. counted = declared
  BY <1>2, <1>3
<1> QED BY <1>4 DEF Adjacency, Declared, edges, known

\* The edges are pairs of numbers, finitely many, and lead to packages that are known.
LEMMA DeclaredFacts ==
  ASSUME NEW q, Sound(q)
  PROVE  /\ IsFiniteSet(Declared(q))
         /\ \A e \in Declared(q) : e[1] \in Nat /\ e[2] \in Nat /\ e = <<e[1], e[2]>>
<1> DEFINE edges == q.edges
           kept == {k \in DOMAIN edges : edges[k].to \in q.known}
<1>1. edges \in Seq(DependencyEdge) /\ DOMAIN edges = 1..Len(edges) /\ Len(edges) \in Nat
  BY DEF Sound
<1>2. IsFiniteSet(kept)
  <2>1. IsFiniteSet(1..Len(edges))
    BY <1>1, FS_Interval
  <2>2. kept \subseteq 1..Len(edges)
    BY <1>1
  <2> QED BY <2>1, <2>2, FS_Subset
<1>3. Declared(q) = {Pair(edges[i]) : i \in kept}
  BY DEF Declared
<1>4. IsFiniteSet(Declared(q))
  <2> DEFINE pair == [i \in kept |-> Pair(edges[i])]
  <2>1. pair \in Surjection(kept, Declared(q))
    BY <1>3 DEF Surjection
  <2> HIDE DEF pair, kept
  <2> QED BY <1>2, <2>1, FS_Surjection
<1>5. ASSUME NEW i \in kept
      PROVE  LET e == Pair(edges[i]) IN e[1] \in Nat /\ e[2] \in Nat /\ e = <<e[1], e[2]>>
  <2>1. edges[i] \in DependencyEdge
    BY <1>1
  <2> QED BY <2>1 DEF DependencyEdge, Pair
<1> QED BY <1>3, <1>4, <1>5

\* If no counted edge misses a required package, those that do are hidden by an optional one.
LEMMA MissingFacts ==
  ASSUME NEW q, Sound(q)
  PROVE  /\ Missing(q.edges, q.known) # {} => Unknown(q) # {}
         /\ Missing(q.edges, q.known) = {} => \A i \in Unknown(q) : Hidden(q, i)
<1> DEFINE edges == q.edges  known == q.known
<1>1. edges \in Seq(DependencyEdge) /\ DOMAIN edges = 1..Len(edges) /\ Len(edges) \in Nat
  BY DEF Sound
<1>2. /\ Missing(q.edges, q.known) =
           {Pair(edges[i]) : i \in {k \in Counted(edges) : edges[k].to \notin known /\ edges[k].required}}
      /\ Unknown(q) = {i \in DOMAIN edges : edges[i].required /\ edges[i].to \notin known}
      /\ \A i : Hidden(q, i) <=>
           \E j \in 1..(i - 1) : Pair(edges[j]) = Pair(edges[i]) /\ ~edges[j].required
  BY DEF Missing, Unknown, Hidden
<1> HIDE DEF edges, known
<1>3. ASSUME Missing(q.edges, q.known) # {} PROVE Unknown(q) # {}
  <2>1. PICK k \in Counted(edges) : edges[k].to \notin known /\ edges[k].required
    BY <1>2, <1>3
  <2>2. k \in DOMAIN edges
    BY DEF Counted
  <2> QED BY <1>2, <2>1, <2>2
<1>4. ASSUME Missing(q.edges, q.known) = {}, NEW i \in Unknown(q) PROVE Hidden(q, i)
  <2>1. i \in DOMAIN edges /\ edges[i].required /\ edges[i].to \notin known
    BY <1>2
  <2>2. PICK j \in Counted(edges) : j <= i /\ Pair(edges[j]) = Pair(edges[i])
    BY <1>1, <2>1, FirstForPair
  <2>3. edges[j].to \notin known
    BY <2>1, <2>2 DEF Pair
  <2>4. ~edges[j].required
    BY <1>2, <1>4, <2>2, <2>3
  <2>5. j \in 1..(i - 1)
    <3>1. j \in DOMAIN edges /\ j # i
      BY <2>1, <2>4 DEF Counted
    <3> QED BY <1>1, <2>1, <2>2, <3>1
  <2> QED BY <1>2, <2>2, <2>4, <2>5
<1> QED BY <1>3, <1>4

\* What collectReachable finds is what the root needs: no package too few, and none too many,
\* whatever the order and the duplicates of the edges.
THEOREM ReachableIsNeeded ==
  ASSUME NEW q, Sound(q)
  PROVE  /\ Reachable(q.package, Declared(q)) = Needed(q)
         /\ IsFiniteSet(Needed(q)) /\ Needed(q) \subseteq Nat
         /\ ClosedUnder(Declared(q), Needed(q))
<1> DEFINE A == Declared(q)  root == q.package
           packages == {root} \cup {e[2] : e \in A}
           reach == Reachable(root, A)
<1>1. IsFiniteSet(A) /\ \A e \in A : e[2] \in Nat
  BY DeclaredFacts
<1>2. root \in Nat
  BY DEF Sound
<1>3. Needed(q) = {p \in packages : \A S \in SUBSET packages :
                     root \in S /\ (\A e \in A : e[1] \in S => e[2] \in S) => p \in S}
  BY DEF Needed
<1> HIDE DEF A, root
<1>4. /\ root \in reach /\ reach \subseteq packages /\ ClosedUnder(A, reach)
      /\ \A S : root \in S /\ ClosedUnder(A, S) => reach \subseteq S
  BY <1>1, ReachableIsLeast
<1> HIDE DEF reach
<1>5. reach = Needed(q)
  <2>1. ASSUME NEW p \in reach PROVE p \in Needed(q)
    BY <1>3, <1>4 DEF ClosedUnder
  <2>2. ASSUME NEW p \in Needed(q) PROVE p \in reach
    BY <1>3, <1>4 DEF ClosedUnder
  <2> QED BY <2>1, <2>2
<1>6. IsFiniteSet(packages)
  <2> DEFINE ends == {e[2] : e \in A}
  <2>1. IsFiniteSet(ends)
    <3> DEFINE last == [e \in A |-> e[2]]
    <3>1. last \in Surjection(A, ends)
      BY DEF Surjection
    <3> HIDE DEF last, ends
    <3> QED BY <1>1, <3>1, FS_Surjection
  <2> HIDE DEF ends
  <2>2. IsFiniteSet(ends \cup {root})
    BY <2>1, FS_AddElement
  <2>3. packages = ends \cup {root}
    BY DEF ends
  <2> HIDE DEF packages
  <2> QED BY <2>2, <2>3
<1>7. packages \subseteq Nat
  BY <1>1, <1>2
<1> HIDE DEF packages
<1>8. IsFiniteSet(reach) /\ reach \subseteq Nat
  BY <1>4, <1>6, <1>7, FS_Subset
<1> QED BY <1>4, <1>5, <1>8 DEF A, root, reach

(***************************************************************************)
(* The sort.  An invariant of its loop, and what follows when it ends.     *)
(***************************************************************************)

\* The packages that are placed, those placed before the i-th, those a package waits for.
Placed(s) == {s[i] : i \in 1..Len(s)}
Earlier(s, i) == {s[j] : j \in 1..(i - 1)}
Waiting(N, A, s, n) == {m \in N \ Placed(s) : <<n, m>> \in A}

\* Of the packages whose dependencies are placed, the least one is placed next.
LeastFirst(N, A, s) ==
  \A i \in 1..Len(s) : \A n \in N \ Earlier(s, i) :
    (\A m \in N : <<n, m>> \in A => m \in Earlier(s, i)) => s[i] <= n

DependenciesFirst(N, A, s) ==
  \A i \in 1..Len(s) : \A m \in N : <<s[i], m>> \in A => m \in Earlier(s, i)

PlacedOnce(N, s) ==
  /\ s \in Seq(N)
  /\ \A i, j \in 1..Len(s) : s[i] = s[j] => i = j

\* What holds of the variables of the loop: nothing is placed twice or before what it
\* needs, the counters are those of the dependencies that are not placed, and the queue
\* holds the packages that wait for none.
SortOK(N, A, s, d, q) ==
  /\ PlacedOnce(N, s)
  /\ DependenciesFirst(N, A, s)
  /\ LeastFirst(N, A, s)
  /\ d = [n \in N |-> Cardinality(Waiting(N, A, s, n))]
  /\ q = {n \in N \ Placed(s) : Waiting(N, A, s, n) = {}}

LEMMA SortBegins ==
  ASSUME NEW N, NEW A
  PROVE  SortOK(N, A, <<>>, [n \in N |-> Cardinality({m \in N : <<n, m>> \in A})],
                {n \in N : \A m \in N : <<n, m>> \notin A})
<1> DEFINE s == <<>>
<1>1. s \in Seq(N) /\ Len(s) = 0
  OBVIOUS
<1>2. \A i \in 1..0 : FALSE
  OBVIOUS
<1>3. Placed(s) = {}
  BY <1>1, <1>2 DEF Placed
<1>4. \A n : Waiting(N, A, s, n) = {m \in N : <<n, m>> \in A}
  BY <1>3 DEF Waiting
<1> HIDE DEF s
<1>5. PlacedOnce(N, s) /\ DependenciesFirst(N, A, s) /\ LeastFirst(N, A, s)
  BY <1>1, <1>2 DEF PlacedOnce, DependenciesFirst, LeastFirst
<1>6. [n \in N |-> Cardinality({m \in N : <<n, m>> \in A})]
        = [n \in N |-> Cardinality(Waiting(N, A, s, n))]
  BY <1>4
<1>7. {n \in N : \A m \in N : <<n, m>> \notin A}
        = {n \in N \ Placed(s) : Waiting(N, A, s, n) = {}}
  BY <1>3, <1>4
<1> QED BY <1>5, <1>6, <1>7 DEF SortOK, s

\* What a sequence and one more element hold.
LEMMA PlaceOne ==
  ASSUME NEW N, NEW s \in Seq(N), NEW next \in N
  PROVE  LET t == Append(s, next) IN
         /\ t \in Seq(N) /\ Len(t) = Len(s) + 1 /\ Len(s) \in Nat
         /\ \A i \in 1..Len(s) : t[i] = s[i] /\ Earlier(t, i) = Earlier(s, i)
         /\ t[Len(s) + 1] = next /\ Earlier(t, Len(s) + 1) = Placed(s)
         /\ Placed(t) = Placed(s) \cup {next}
<1> DEFINE t == Append(s, next)
<1>1. PICK n \in Nat : n = Len(s)
  OBVIOUS
<1>2. /\ t \in Seq(N) /\ Len(t) = n + 1
      /\ \A i \in 1..n : t[i] = s[i]
      /\ t[n + 1] = next
  BY <1>1
<1> HIDE DEF t
<1>3. ASSUME NEW i \in 1..n PROVE Earlier(t, i) = Earlier(s, i)
  <2>1. \A j \in 1..(i - 1) : j \in 1..n
    OBVIOUS
  <2> QED BY <1>2, <2>1 DEF Earlier
<1>4. Earlier(t, n + 1) = Placed(s)
  <2>1. 1..((n + 1) - 1) = 1..n
    OBVIOUS
  <2> QED BY <1>1, <1>2, <2>1 DEF Earlier, Placed
<1>5. Placed(t) = Placed(s) \cup {next}
  <2>1. 1..(n + 1) = 1..n \cup {n + 1}
    OBVIOUS
  <2> QED BY <1>1, <1>2, <2>1 DEF Placed
<1> QED BY <1>1, <1>2, <1>3, <1>4, <1>5 DEF t

\* One turn of the loop.
TurnOK(N, A, s, d, q) ==
  LET next == CHOOSE n \in q : \A m \in q : n <= m
      freed == {n \in N : <<n, next>> \in A}
  IN SortOK(N, A, Append(s, next),
            [n \in N |-> IF n \in freed THEN d[n] - 1 ELSE d[n]],
            (q \ {next}) \cup {n \in freed : d[n] = 1})

LEMMA SortContinues ==
  ASSUME NEW N, N \subseteq Nat, IsFiniteSet(N), NEW A, NEW s, NEW d, NEW q,
         SortOK(N, A, s, d, q), q # {}
  PROVE  TurnOK(N, A, s, d, q)
<1> DEFINE next == CHOOSE n \in q : \A m \in q : n <= m
           freed == {n \in N : <<n, next>> \in A}
           t == Append(s, next)
           d2 == [n \in N |-> IF n \in freed THEN d[n] - 1 ELSE d[n]]
           q2 == (q \ {next}) \cup {n \in freed : d[n] = 1}
<1>0. /\ PlacedOnce(N, s) /\ DependenciesFirst(N, A, s) /\ LeastFirst(N, A, s)
      /\ d = [n \in N |-> Cardinality(Waiting(N, A, s, n))]
      /\ q = {n \in N \ Placed(s) : Waiting(N, A, s, n) = {}}
  BY DEF SortOK
<1>1. next \in q /\ \A m \in q : next <= m
  <2>1. q \in SUBSET Nat
    BY <1>0
  <2>2. \E n \in q : \A m \in q : n <= m
    BY <2>1, LeastOf
  <2> QED BY <2>2
<1> HIDE DEF next
<1>2. next \in N /\ next \notin Placed(s) /\ Waiting(N, A, s, next) = {} /\ s \in Seq(N)
  BY <1>0, <1>1 DEF PlacedOnce
<1>3. /\ t \in Seq(N) /\ Len(t) = Len(s) + 1 /\ Len(s) \in Nat
      /\ \A i \in 1..Len(s) : t[i] = s[i] /\ Earlier(t, i) = Earlier(s, i)
      /\ t[Len(s) + 1] = next /\ Earlier(t, Len(s) + 1) = Placed(s)
      /\ Placed(t) = Placed(s) \cup {next}
  BY <1>2, PlaceOne
<1> HIDE DEF t
<1>4. \A i \in 1..Len(t) : i \in 1..Len(s) \/ i = Len(s) + 1
  BY <1>3
<1>5. PlacedOnce(N, t)
  <2>1. ASSUME NEW i \in 1..Len(t), NEW j \in 1..Len(t), t[i] = t[j] PROVE i = j
    <3>1. \A k \in 1..Len(s) : t[k] \in Placed(s)
      BY <1>3 DEF Placed
    <3>2. CASE i \in 1..Len(s) /\ j \in 1..Len(s)
      BY <1>0, <1>3, <2>1, <3>2 DEF PlacedOnce
    <3>3. CASE i = Len(s) + 1 /\ j = Len(s) + 1
      BY <3>3
    <3>4. CASE i \in 1..Len(s) /\ j = Len(s) + 1
      BY <1>2, <1>3, <2>1, <3>1, <3>4
    <3>5. CASE i = Len(s) + 1 /\ j \in 1..Len(s)
      BY <1>2, <1>3, <2>1, <3>1, <3>5
    <3> QED BY <1>4, <3>2, <3>3, <3>4, <3>5
  <2> QED BY <1>3, <2>1 DEF PlacedOnce
<1>6. DependenciesFirst(N, A, t)
  <2>1. ASSUME NEW i \in 1..Len(t), NEW m \in N, <<t[i], m>> \in A PROVE m \in Earlier(t, i)
    <3>1. CASE i \in 1..Len(s)
      BY <1>0, <1>3, <2>1, <3>1 DEF DependenciesFirst
    <3>2. CASE i = Len(s) + 1
      BY <1>2, <1>3, <2>1, <3>2 DEF Waiting
    <3> QED BY <1>4, <3>1, <3>2
  <2> QED BY <2>1 DEF DependenciesFirst
<1>7. LeastFirst(N, A, t)
  <2>1. ASSUME NEW i \in 1..Len(t), NEW n \in N \ Earlier(t, i),
               \A m \in N : <<n, m>> \in A => m \in Earlier(t, i)
        PROVE  t[i] <= n
    <3>1. CASE i \in 1..Len(s)
      BY <1>0, <1>3, <2>1, <3>1 DEF LeastFirst
    <3>2. CASE i = Len(s) + 1
      <4>1. n \in N \ Placed(s) /\ Waiting(N, A, s, n) = {}
        BY <1>3, <2>1, <3>2 DEF Waiting
      <4> QED BY <1>0, <1>1, <1>3, <3>2, <4>1
    <3> QED BY <1>4, <3>1, <3>2
  <2> QED BY <2>1 DEF LeastFirst
<1>8. ASSUME NEW n \in N
      PROVE  /\ Waiting(N, A, t, n) = Waiting(N, A, s, n) \ {next}
             /\ n \in freed <=> next \in Waiting(N, A, s, n)
             /\ IsFiniteSet(Waiting(N, A, s, n))
             /\ d[n] = Cardinality(Waiting(N, A, s, n)) /\ d[n] \in Nat
  <2>1. Waiting(N, A, t, n) = Waiting(N, A, s, n) \ {next}
    BY <1>3 DEF Waiting
  <2>2. n \in freed <=> next \in Waiting(N, A, s, n)
    BY <1>2 DEF Waiting
  <2>3. Waiting(N, A, s, n) \subseteq N
    BY DEF Waiting
  <2>4. IsFiniteSet(Waiting(N, A, s, n))
    BY <2>3, FS_Subset
  <2>5. d[n] = Cardinality(Waiting(N, A, s, n))
    BY <1>0
  <2> QED BY <2>1, <2>2, <2>4, <2>5, FS_CardinalityType
<1> HIDE DEF freed
<1>9. ASSUME NEW n \in N
      PROVE  /\ (IF n \in freed THEN d[n] - 1 ELSE d[n]) = Cardinality(Waiting(N, A, t, n))
             /\ (n \in freed /\ d[n] = 1) <=> (n \in freed /\ Waiting(N, A, t, n) = {})
  <2> DEFINE w == Waiting(N, A, s, n)  u == Waiting(N, A, t, n)
  <2>1. /\ u = w \ {next} /\ (n \in freed <=> next \in w) /\ IsFiniteSet(w)
        /\ d[n] = Cardinality(w) /\ d[n] \in Nat
    BY <1>8
  <2> HIDE DEF w, u
  <2>2. CASE n \in freed
    <3>1. next \in w
      BY <2>1, <2>2
    <3>2. IsFiniteSet(w \ {next}) /\ Cardinality(w \ {next}) = Cardinality(w) - 1
      BY <2>1, <3>1, FS_RemoveElement
    <3>3. IsFiniteSet(u) /\ Cardinality(u) = d[n] - 1
      BY <2>1, <3>2
    <3>4. Cardinality(u) = 0 <=> u = {}
      BY <3>3, FS_EmptySet
    <3>5. d[n] = 1 <=> u = {}
      BY <2>1, <3>3, <3>4
    <3> QED BY <2>2, <3>3, <3>5 DEF u
  <2>3. CASE n \notin freed
    <3>1. u = w
      BY <2>1, <2>3
    <3> QED BY <2>1, <2>3, <3>1 DEF u
  <2> QED BY <2>2, <2>3
<1>10. d2 = [n \in N |-> Cardinality(Waiting(N, A, t, n))]
  BY <1>9
<1>11. q2 = {n \in N \ Placed(t) : Waiting(N, A, t, n) = {}}
  <2>1. freed \subseteq N
    BY DEF freed
  <2>2. ASSUME NEW n \in q2 PROVE n \in N \ Placed(t) /\ Waiting(N, A, t, n) = {}
    <3>1. CASE n \in q \ {next}
      <4>1. n \in N \ Placed(s) /\ Waiting(N, A, s, n) = {} /\ n # next
        BY <1>0, <3>1
      <4> QED BY <1>3, <1>8, <4>1
    <3>2. CASE n \in freed /\ d[n] = 1
      <4>1. n \in N /\ Waiting(N, A, t, n) = {} /\ next \in Waiting(N, A, s, n)
        BY <1>8, <1>9, <2>1, <3>2
      <4>2. n # next
        BY <1>2, <4>1
      <4>3. ASSUME n \in Placed(s) PROVE FALSE
        <5>1. PICK i \in 1..Len(s) : n = s[i]
          BY <4>3 DEF Placed
        <5>2. next \in Earlier(s, i)
          BY <1>0, <1>2, <4>1, <5>1 DEF DependenciesFirst, Waiting
        <5>3. PICK j \in 1..(i - 1) : next = s[j]
          BY <5>2 DEF Earlier
        <5>4. j \in 1..Len(s)
          BY <1>3, <5>1, <5>3
        <5> QED BY <1>2, <5>3, <5>4 DEF Placed
      <4> QED BY <1>3, <4>1, <4>2, <4>3
    <3> QED BY <2>2, <3>1, <3>2
  <2>3. ASSUME NEW n \in N \ Placed(t), Waiting(N, A, t, n) = {} PROVE n \in q2
    <3>1. n \in N \ Placed(s) /\ n # next
      BY <1>3
    <3>2. CASE n \in freed
      <4>1. d[n] = 1
        BY <1>9, <2>3, <3>2
      <4> QED BY <3>2, <4>1
    <3>3. CASE n \notin freed
      <4>1. Waiting(N, A, s, n) = {}
        BY <1>8, <2>3, <3>3
      <4> QED BY <1>0, <3>1, <4>1
    <3> QED BY <3>2, <3>3
  <2> HIDE DEF q2
  <2> QED BY <2>2, <2>3
<1> HIDE DEF d2, q2
<1>12. SortOK(N, A, t, d2, q2)
  BY <1>5, <1>6, <1>7, <1>10, <1>11 DEF SortOK
<1> QED BY <1>12 DEF TurnOK, t, next, freed, d2, q2

\* The length of a sequence without repetitions, and an order as a bijection.
LEMMA InjectionsFill ==
  ASSUME NEW N, IsFiniteSet(N), NEW n \in Nat, NEW o \in [1..n -> N],
         \A i, j \in 1..n : o[i] = o[j] => i = j
  PROVE  /\ n <= Cardinality(N)
         /\ n = Cardinality(N) => \A p \in N : \E i \in 1..n : o[i] = p
<1>1. IsFiniteSet(1..n) /\ Cardinality(1..n) = n /\ Cardinality(N) \in Nat
  <2>1. IsFiniteSet(1..n) /\ Cardinality(1..n) = n
    BY FS_Interval
  <2> QED BY <2>1, FS_CardinalityType
<1>2. o \in Injection(1..n, N)
  BY DEF Injection, IsInjective
<1>3. n <= Cardinality(N)
  BY <1>1, <1>2, FS_Injection
<1>4. ASSUME n = Cardinality(N) PROVE \A p \in N : \E i \in 1..n : o[i] = p
  <2>1. o \in Surjection(1..n, N)
    BY <1>1, <1>2, <1>4, FS_Injection
  <2> QED BY <2>1 DEF Surjection
<1> QED BY <1>3, <1>4

\* The facts of an order.
LEMMA OrderFacts ==
  ASSUME NEW q, Sound(q), NEW o \in Orders(q)
  PROVE  LET n == Cardinality(Needed(q)) IN
         /\ n \in Nat /\ o \in [1..n -> Needed(q)]
         /\ \A i, j \in 1..n : o[i] = o[j] => i = j
         /\ \A i, j \in 1..n : <<o[i], o[j]>> \in Declared(q) => j < i
         /\ \A p \in Needed(q) : \E i \in 1..n : o[i] = p
<1> DEFINE n == Cardinality(Needed(q))
<1>1. IsFiniteSet(Needed(q)) /\ n \in Nat
  BY ReachableIsNeeded, FS_CardinalityType
<1>2. /\ o \in [1..n -> Needed(q)]
      /\ \A i, j \in 1..n : o[i] = o[j] => i = j
      /\ \A i, j \in 1..n : <<o[i], o[j]>> \in Declared(q) => j < i
  BY DEF Orders
<1>3. \A p \in Needed(q) : \E i \in 1..n : o[i] = p
  <2>1. n = Cardinality(Needed(q))
    OBVIOUS
  <2> HIDE DEF n
  <2> QED BY <1>1, <1>2, <2>1, InjectionsFill
<1> QED BY <1>1, <1>2, <1>3

\* A loop that ends with every package placed leaves the first of the orders.
LEMMA SortedIsFirst ==
  ASSUME NEW q, Sound(q), NEW s, NEW d, NEW ready,
         SortOK(Needed(q), Declared(q), s, d, ready),
         ~(Len(s) < Cardinality(Needed(q)))
  PROVE  s \in Orders(q) /\ \A o \in Orders(q) : ~Before(o, s)
<1> DEFINE N == Needed(q)  A == Declared(q)  n == Cardinality(Needed(q))
<1>1. IsFiniteSet(N) /\ N \subseteq Nat /\ n \in Nat
  BY ReachableIsNeeded, FS_CardinalityType
<1>2. PlacedOnce(N, s) /\ DependenciesFirst(N, A, s) /\ LeastFirst(N, A, s)
  BY DEF SortOK
<1>3. /\ s \in [1..Len(s) -> N] /\ Len(s) \in Nat
      /\ \A i, j \in 1..Len(s) : s[i] = s[j] => i = j
  BY <1>2 DEF PlacedOnce
<1>4. Len(s) = n
  <2>1. Len(s) <= Cardinality(N)
    <3> HIDE DEF N
    <3> QED BY <1>1, <1>3, InjectionsFill
  <2> QED BY <1>1, <1>3, <2>1
<1> HIDE DEF n
<1>5. ASSUME NEW i \in 1..n, NEW j \in 1..n, <<s[i], s[j]>> \in A PROVE j < i
  <2>1. s[j] \in N
    BY <1>3, <1>4
  <2>2. s[j] \in Earlier(s, i)
    BY <1>2, <1>4, <1>5, <2>1 DEF DependenciesFirst
  <2>3. PICK k \in 1..(i - 1) : s[j] = s[k]
    BY <2>2 DEF Earlier
  <2>4. k \in 1..n /\ k < i
    BY <1>1, <2>3
  <2> QED BY <1>3, <1>4, <2>3, <2>4
<1>6. s \in Orders(q)
  BY <1>3, <1>4, <1>5 DEF Orders, n
<1>7. ASSUME NEW o \in Orders(q), Before(o, s) PROVE FALSE
  <2>1. /\ o \in [1..n -> N]
        /\ \A i, j \in 1..n : o[i] = o[j] => i = j
        /\ \A i, j \in 1..n : <<o[i], o[j]>> \in A => j < i
        /\ \A p \in N : \E i \in 1..n : o[i] = p
    BY OrderFacts DEF n
  <2> HIDE DEF N, A
  <2>2. PICK i \in 1..n : o[i] < s[i] /\ \A j \in 1..(i - 1) : o[j] = s[j]
    BY <1>7, <2>1 DEF Before
  <2>3. \A j \in 1..(i - 1) : j \in 1..n /\ j # i
    BY <1>1, <2>2
  <2>4. o[i] \in N \ Earlier(s, i)
    BY <2>1, <2>2, <2>3 DEF Earlier
  <2>5. ASSUME NEW m \in N, <<o[i], m>> \in A PROVE m \in Earlier(s, i)
    <3>1. PICK j \in 1..n : o[j] = m
      BY <2>1
    <3>2. j < i
      BY <2>1, <2>5, <3>1
    <3>3. j \in 1..(i - 1)
      BY <1>1, <3>1, <3>2
    <3> QED BY <2>2, <3>1, <3>3 DEF Earlier
  <2>6. s[i] <= o[i]
    BY <1>2, <1>4, <2>4, <2>5 DEF LeastFirst
  <2>7. s[i] \in Nat /\ o[i] \in Nat
    BY <1>1, <1>3, <1>4, <2>1
  <2> QED BY <2>2, <2>6, <2>7
<1> QED BY <1>6, <1>7

\* A loop that ends with packages left: there is no order, since the first of those
\* packages in it would wait for another of them.
LEMMA CycleHasNoOrder ==
  ASSUME NEW q, Sound(q), NEW s, NEW d,
         SortOK(Needed(q), Declared(q), s, d, {}),
         Len(s) < Cardinality(Needed(q))
  PROVE  Orders(q) = {}
<1> DEFINE N == Needed(q)  A == Declared(q)  n == Cardinality(Needed(q))
           left == N \ Placed(s)
<1>1. IsFiniteSet(N) /\ n \in Nat
  BY ReachableIsNeeded, FS_CardinalityType
<1>2. s \in [1..Len(s) -> N] /\ Len(s) \in Nat
  BY DEF SortOK, PlacedOnce
<1>3. \A p \in left : Waiting(N, A, s, p) # {}
  BY DEF SortOK
<1>4. left # {}
  <2>1. SUFFICES ASSUME left = {} PROVE FALSE
    OBVIOUS
  <2>2. s \in Surjection(1..Len(s), N)
    BY <1>2, <2>1 DEF Surjection, Placed
  <2>3. IsFiniteSet(1..Len(s)) /\ Cardinality(1..Len(s)) = Len(s)
    <3>1. PICK l \in Nat : l = Len(s)
      BY <1>2
    <3>2. IsFiniteSet(1..l) /\ Cardinality(1..l) = l
      BY FS_Interval
    <3> QED BY <3>1, <3>2
  <2>4. Cardinality(N) <= Len(s)
    <3> HIDE DEF N
    <3> QED BY <2>2, <2>3, FS_Surjection
  <2> QED BY <1>1, <1>2, <2>4
<1>5. ASSUME NEW o \in Orders(q) PROVE FALSE
  <2>1. /\ o \in [1..n -> N]
        /\ \A i, j \in 1..n : <<o[i], o[j]>> \in A => j < i
        /\ \A p \in N : \E i \in 1..n : o[i] = p
    BY OrderFacts
  <2> HIDE DEF N, A, n
  <2> DEFINE I == {i \in 1..n : o[i] \in left}
  <2>2. I \in SUBSET Nat /\ I # {}
    BY <1>1, <1>4, <2>1
  <2>3. PICK i \in I : \A k \in I : i <= k
    <3> HIDE DEF I
    <3> QED BY <2>2, LeastOf
  <2>4. PICK m \in left : <<o[i], m>> \in A
    BY <1>3, <2>3 DEF Waiting
  <2>5. PICK j \in 1..n : o[j] = m
    BY <2>1, <2>4
  <2>6. j < i
    BY <2>1, <2>3, <2>4, <2>5
  <2>7. j \in I /\ i \in Nat
    BY <1>1, <2>4, <2>5
  <2>8. i <= j
    BY <2>3, <2>7
  <2> QED BY <2>6, <2>7, <2>8
<1> QED BY <1>5

(***************************************************************************)
(* The plan.  Its invariant holds the one of the loop.                     *)
(***************************************************************************)

\* The nodes and edges of the resolver are those the request declares.
LEMMA NodesFacts ==
  ASSUME Sound(request)
  PROVE  adjacency = Declared(request) /\ nodes = Needed(request)
<1> DEFINE q == request
<1>1. Sound(q)
  OBVIOUS
<1>2. adjacency = Adjacency(q.edges, q.known)
  BY DEF adjacency
<1>3. nodes = Reachable(q.package, adjacency)
  BY DEF nodes
<1> HIDE DEF q
<1>4. adjacency = Declared(q)
  BY <1>1, <1>2, AdjacencyIsDeclared
<1>5. nodes = Needed(q)
  BY <1>1, <1>3, <1>4, ReachableIsNeeded
<1> QED BY <1>4, <1>5 DEF q

\* What was asked stays what it was, and the loop of the sort keeps its invariant.
RequestKept ==
  /\ Sound(request)
  /\ pc # "idle" => asked.outcome = Outcome

SortKept ==
  /\ pc \in {"resolve", "sort"} => request.edges # <<>>
  /\ pc = "sort" =>
       /\ Missing(request.edges, request.known) = {}
       /\ SortOK(Needed(request), Declared(request), sorted, degree, queue)

PlanKept ==
  pc = "planned" =>
    /\ plan.conflicts = ConflictsOf(request)
    /\ plan.writes = IF asked.outcome = "policy_blocked" THEN <<>> ELSE PlannedScopes

VerdictKept ==
  verdict # Nothing =>
    /\ pc = "planned"
    /\ verdict.scopes = RuntimeScopes(verdict.found)
    /\ verdict.reason =
         Verdict(request.trust, request.trigger, Outcome, verdict.found, supervisor)

PlanningInv ==
  RequestKept /\ SortKept /\ PlanKept /\ VerdictKept /\ ResolutionIsRight

LEMMA PlanningInvHolds ==
  ASSUME PlanningInit PROVE PlanningInv
<1>1. PICK c \in Cases : request = c.request
  BY DEF PlanningInit
<1>2. Sound(request)
  BY <1>1, PlanningAssumption DEF Sound
<1>3. pc = "idle" /\ verdict = Nothing
  BY DEF PlanningInit
<1> QED
  BY <1>2, <1>3
  DEF PlanningInv, RequestKept, SortKept, PlanKept, VerdictKept, ResolutionIsRight

LEMMA AskKeeps ==
  ASSUME PlanningInv, Ask PROVE PlanningInv'
<1>1. /\ pc = "idle" /\ asked' = [found |-> found, outcome |-> Outcome]
      /\ pc' = IF request.edges = <<>> THEN "plan" ELSE "resolve"
      /\ UNCHANGED <<request, verdict>>
  BY DEF Ask
<1>2. RequestKept'
  BY <1>1 DEF PlanningInv, RequestKept, Outcome
<1>3. SortKept'
  BY <1>1 DEF SortKept
<1>4. PlanKept' /\ VerdictKept'
  BY <1>1 DEF PlanKept, VerdictKept, PlanningInv
<1>5. ResolutionIsRight'
  BY <1>1 DEF ResolutionIsRight
<1> QED BY <1>2, <1>3, <1>4, <1>5 DEF PlanningInv

LEMMA ResolveKeeps ==
  ASSUME PlanningInv, Resolve PROVE PlanningInv'
<1> DEFINE missing == Missing(request.edges, request.known)
<1>1. /\ pc = "resolve" /\ UNCHANGED <<request, asked, verdict>>
      /\ missing # {} => pc' = "rejected"
      /\ missing = {} =>
           /\ degree' = [n \in nodes |-> Cardinality({m \in nodes : <<n, m>> \in adjacency})]
           /\ queue' = {n \in nodes : \A m \in nodes : <<n, m>> \notin adjacency}
           /\ sorted' = <<>>
           /\ pc' = "sort"
  BY DEF Resolve
<1>2. Sound(request) /\ request.edges # <<>> /\ verdict = Nothing /\ asked.outcome = Outcome
  BY <1>1 DEF PlanningInv, RequestKept, SortKept, VerdictKept
<1>3. pc' \in {"rejected", "sort"}
  BY <1>1
<1>4. RequestKept'
  BY <1>1, <1>2 DEF RequestKept, Outcome
<1>5. SortKept'
  <2>1. CASE missing = {}
    <3>1. adjacency = Declared(request) /\ nodes = Needed(request)
      BY <1>2, NodesFacts
    <3>2. SortOK(nodes, adjacency, sorted', degree', queue')
      BY <1>1, <2>1, SortBegins
    <3>3. SortOK(Needed(request), Declared(request), sorted', degree', queue')
      BY <3>1, <3>2
    <3> QED BY <1>1, <1>2, <2>1, <3>3 DEF SortKept
  <2>2. CASE missing # {}
    BY <1>1, <2>2 DEF SortKept
  <2> QED BY <2>1, <2>2
<1>6. PlanKept' /\ VerdictKept'
  BY <1>1, <1>2, <1>3 DEF PlanKept, VerdictKept
<1>7. ResolutionIsRight'
  <2>1. missing # {} => Unknown(request) # {}
    BY <1>2, MissingFacts
  <2> QED BY <1>1, <1>3, <2>1 DEF ResolutionIsRight
<1> QED BY <1>4, <1>5, <1>6, <1>7 DEF PlanningInv

LEMMA SortKeeps ==
  ASSUME PlanningInv, Sort PROVE PlanningInv'
<1> DEFINE next == CHOOSE n \in queue : \A m \in queue : n <= m
           freed == {n \in nodes : <<n, next>> \in adjacency}
<1>1. /\ pc = "sort" /\ queue # {} /\ UNCHANGED <<request, pc, asked, verdict>>
      /\ sorted' = Append(sorted, next)
      /\ degree' = [n \in nodes |-> IF n \in freed THEN degree[n] - 1 ELSE degree[n]]
      /\ queue' = (queue \ {next}) \cup {n \in freed : degree[n] = 1}
  BY DEF Sort
<1>2. /\ Sound(request) /\ request.edges # <<>> /\ verdict = Nothing /\ asked.outcome = Outcome
      /\ Missing(request.edges, request.known) = {}
      /\ SortOK(Needed(request), Declared(request), sorted, degree, queue)
  BY <1>1 DEF PlanningInv, RequestKept, SortKept, VerdictKept
<1>3. /\ adjacency = Declared(request) /\ nodes = Needed(request)
      /\ IsFiniteSet(Needed(request)) /\ Needed(request) \subseteq Nat
  BY <1>2, NodesFacts, ReachableIsNeeded
<1>4. SortOK(nodes, adjacency, sorted', degree', queue')
  <2>1. SortOK(nodes, adjacency, sorted, degree, queue) /\ IsFiniteSet(nodes) /\ nodes \subseteq Nat
    BY <1>2, <1>3
  <2>2. SortOK(nodes, adjacency, Append(sorted, next),
               [n \in nodes |-> IF n \in freed THEN degree[n] - 1 ELSE degree[n]],
               (queue \ {next}) \cup {n \in freed : degree[n] = 1})
    <3>1. TurnOK(nodes, adjacency, sorted, degree, queue)
      BY <1>1, <2>1, SortContinues
    <3> QED BY <3>1 DEF TurnOK
  <2> HIDE DEF next, freed
  <2> QED BY <1>1, <2>2
<1> HIDE DEF next, freed
<1>5. SortOK(Needed(request), Declared(request), sorted', degree', queue')
  BY <1>3, <1>4
<1>6. RequestKept'
  BY <1>1, <1>2 DEF RequestKept, Outcome
<1>7. SortKept'
  BY <1>1, <1>2, <1>5 DEF SortKept
<1>8. PlanKept' /\ VerdictKept' /\ ResolutionIsRight'
  BY <1>1, <1>2 DEF PlanKept, VerdictKept, ResolutionIsRight
<1> QED BY <1>6, <1>7, <1>8 DEF PlanningInv

LEMMA SortedKeeps ==
  ASSUME PlanningInv, Sorted PROVE PlanningInv'
<1>1. /\ pc = "sort" /\ queue = {} /\ UNCHANGED <<request, asked, verdict, sorted>>
      /\ pc' = IF Len(sorted) < Cardinality(nodes) THEN "rejected" ELSE "plan"
  BY DEF Sorted, sort
<1>2. /\ Sound(request) /\ verdict = Nothing /\ asked.outcome = Outcome
      /\ Missing(request.edges, request.known) = {}
      /\ SortOK(Needed(request), Declared(request), sorted, degree, {})
  BY <1>1 DEF PlanningInv, RequestKept, SortKept, VerdictKept
<1>3. nodes = Needed(request)
  BY <1>2, NodesFacts
<1>4. RequestKept'
  BY <1>1, <1>2 DEF RequestKept, Outcome
<1>5. SortKept' /\ PlanKept' /\ VerdictKept'
  BY <1>1, <1>2 DEF SortKept, PlanKept, VerdictKept
<1>6. ResolutionIsRight'
  <2>1. CASE Len(sorted) < Cardinality(nodes)
    <3>1. Orders(request) = {}
      BY <1>2, <1>3, <2>1, CycleHasNoOrder
    <3> QED BY <1>1, <2>1, <3>1 DEF ResolutionIsRight
  <2>2. CASE ~(Len(sorted) < Cardinality(nodes))
    <3>1. sorted \in Orders(request) /\ \A o \in Orders(request) : ~Before(o, sorted)
      BY <1>2, <1>3, <2>2, SortedIsFirst
    <3>2. \A i \in Unknown(request) : Hidden(request, i)
      BY <1>2, MissingFacts
    <3> QED BY <1>1, <2>2, <3>1, <3>2 DEF ResolutionIsRight
  <2> QED BY <2>1, <2>2
<1> QED BY <1>4, <1>5, <1>6 DEF PlanningInv

LEMMA MakePlanKeeps ==
  ASSUME PlanningInv, MakePlan PROVE PlanningInv'
<1>1. /\ pc = "plan" /\ pc' = "planned" /\ UNCHANGED <<request, asked, verdict>>
      /\ plan'.writes = IF asked.outcome = "policy_blocked" THEN <<>> ELSE PlannedScopes
      /\ plan'.conflicts = ConflictsOf(request)
  BY DEF MakePlan
<1>2. Sound(request) /\ verdict = Nothing /\ asked.outcome = Outcome
  BY <1>1 DEF PlanningInv, RequestKept, VerdictKept
<1>3. RequestKept'
  BY <1>1, <1>2 DEF RequestKept, Outcome
<1>4. PlanKept'
  <2>1. PlannedScopes' = PlannedScopes /\ ConflictsOf(request)' = ConflictsOf(request)
    BY <1>1 DEF PlannedScopes, ConflictsOf
  <2> QED BY <1>1, <2>1 DEF PlanKept
<1>5. SortKept' /\ VerdictKept' /\ ResolutionIsRight'
  BY <1>1, <1>2 DEF SortKept, VerdictKept, ResolutionIsRight
<1> QED BY <1>3, <1>4, <1>5 DEF PlanningInv

LEMMA VerifyKeeps ==
  ASSUME PlanningInv, Verify PROVE PlanningInv'
<1>1. /\ pc = "planned" /\ UNCHANGED <<request, pc, asked, plan, supervisor>>
      /\ verdict'.scopes = RuntimeScopes(verdict'.found)
      /\ verdict'.reason =
           Verdict(request.trust, request.trigger, Outcome, verdict'.found, supervisor)
  BY DEF Verify
<1>2. Outcome' = Outcome /\ PlannedScopes' = PlannedScopes
      /\ ConflictsOf(request)' = ConflictsOf(request)
  BY <1>1 DEF Outcome, PlannedScopes, ConflictsOf
<1>3. RequestKept' /\ PlanKept'
  BY <1>1, <1>2 DEF PlanningInv, RequestKept, PlanKept
<1>4. VerdictKept'
  BY <1>1, <1>2 DEF VerdictKept
<1>5. SortKept' /\ ResolutionIsRight'
  BY <1>1 DEF SortKept, ResolutionIsRight
<1> QED BY <1>3, <1>4, <1>5 DEF PlanningInv

\* What users do to their files does not reach a plan; nor does a step that changes nothing.
LEMMA OthersKeep ==
  ASSUME PlanningInv,
         UNCHANGED <<request, supervisor, pc, asked, degree, queue, sorted, plan, verdict>>
  PROVE  PlanningInv'
<1>1. Outcome' = Outcome /\ PlannedScopes' = PlannedScopes
      /\ ConflictsOf(request)' = ConflictsOf(request)
  BY DEF Outcome, PlannedScopes, ConflictsOf
<1>2. RequestKept' /\ SortKept' /\ PlanKept' /\ VerdictKept'
  BY <1>1 DEF PlanningInv, RequestKept, SortKept, PlanKept, VerdictKept
<1>3. ResolutionIsRight'
  BY DEF PlanningInv, ResolutionIsRight
<1> QED BY <1>2, <1>3 DEF PlanningInv

LEMMA PlanningSteps ==
  ASSUME PlanningInv, [PlanningNext]_planningVars PROVE PlanningInv'
<1>1. CASE Ask
  BY <1>1, AskKeeps
<1>2. CASE Resolve
  BY <1>2, ResolveKeeps
<1>3. CASE Sort
  BY <1>3, SortKeeps
<1>4. CASE Sorted
  BY <1>4, SortedKeeps
<1>5. CASE MakePlan
  BY <1>5, MakePlanKeeps
<1>6. CASE Verify
  BY <1>6, VerifyKeeps
<1>7. ASSUME NEW kind \in Kinds, Edit(kind) PROVE PlanningInv'
  BY <1>7, OthersKeep DEF Edit, sort
<1>8. CASE UNCHANGED planningVars
  BY <1>8, OthersKeep DEF planningVars, sort
<1> QED BY <1>1, <1>2, <1>3, <1>4, <1>5, <1>6, <1>7, <1>8 DEF PlanningNext

\* The invariant of the planning, from which the two properties follow.
THEOREM PlanningIsInductive == PlanningSpec => []PlanningInv
<1> QED BY PlanningInvHolds, PlanningSteps, PTL DEF PlanningSpec

\* The resolver of dependency-graph.ts finds the first of the orders in which every
\* package the root needs comes once and after what it needs, for every graph: a plan is
\* refused exactly where a required package is not known or no such order exists.
THEOREM ResolutionIsAlwaysRight == PlanningSpec => []ResolutionIsRight
<1>1. PlanningInv => ResolutionIsRight
  BY DEF PlanningInv
<1> QED BY <1>1, PlanningIsInductive, PTL

\* The order in which the resolver lists the packages is deterministic
\* (DependencyResolutionResult): it depends on which edges a request declares and never on
\* how it lists them.  Two requests that declare the same have the same orders, and at most
\* one of them comes before all the others.
THEOREM ResolutionIsDeterministic ==
  ASSUME NEW q, NEW r, Sound(q), q.package = r.package, Declared(q) = Declared(r),
         NEW s \in Orders(q), \A o \in Orders(q) : ~Before(o, s),
         NEW t \in Orders(r), \A o \in Orders(r) : ~Before(o, t)
  PROVE  s = t
<1> DEFINE n == Cardinality(Needed(q))
<1>1. Needed(r) = Needed(q)
  BY DEF Needed
<1>2. Orders(r) = Orders(q)
  BY <1>1 DEF Orders
<1>3. Needed(q) \subseteq Nat /\ n \in Nat
  BY ReachableIsNeeded, FS_CardinalityType
<1>4. s \in [1..n -> Needed(q)] /\ t \in [1..n -> Needed(q)]
  BY <1>2, OrderFacts
<1> DEFINE D == {i \in 1..n : s[i] # t[i]}
<1> HIDE DEF n
<1>5. ASSUME D # {} PROVE FALSE
  <2>1. D \in SUBSET Nat
    BY <1>3
  <2>2. PICK i \in D : \A k \in D : i <= k
    <3> HIDE DEF D
    <3> QED BY <1>5, <2>1, LeastOf
  <2>3. i \in 1..n /\ s[i] # t[i]
    BY <2>2
  <2>4. ASSUME NEW j \in 1..(i - 1) PROVE s[j] = t[j]
    <3>1. j \in 1..n /\ ~(i <= j)
      BY <1>3, <2>3
    <3> QED BY <2>2, <3>1
  <2>5. s[i] \in Nat /\ t[i] \in Nat
    BY <1>3, <1>4, <2>3
  <2>6. CASE s[i] < t[i]
    <3>1. Before(s, t)
      BY <1>4, <2>3, <2>4, <2>6 DEF Before
    <3> QED BY <1>2, <3>1
  <2>7. CASE t[i] < s[i]
    <3>1. Before(t, s)
      BY <1>4, <2>3, <2>4, <2>7 DEF Before
    <3> QED BY <1>2, <3>1
  <2> QED BY <2>3, <2>5, <2>6, <2>7
<1>6. \A i \in 1..n : s[i] = t[i]
  BY <1>5
<1>7. s = [i \in 1..n |-> s[i]] /\ t = [i \in 1..n |-> t[i]]
  <2> DEFINE N == Needed(q)
  <2>1. s \in [1..n -> N] /\ t \in [1..n -> N]
    BY <1>4
  <2> HIDE DEF N
  <2> QED BY <2>1
<1> QED BY <1>6, <1>7

\* Permissions that exceed the caps of the preflight exceed those of the plan.
LEMMA CapsFacts ==
  ASSUME NEW q, Sound(q), ~WithinCaps(q.policy, q.permissions) PROVE ExceedsCaps(q)
<1>1. Cardinality(q.permissions) \in Nat /\ q.policy.max \in Nat
  BY FS_CardinalityType DEF Sound
<1>2. CASE ~(Cardinality(q.permissions) <= q.policy.max)
  BY <1>1, <1>2 DEF ExceedsCaps
<1>3. CASE q.permissions \cap q.policy.denied # {}
  BY <1>3 DEF ExceedsCaps
<1> QED BY <1>2, <1>3 DEF WithinCaps

LEMMA PlanForetells ==
  ASSUME PlanningInv PROVE PlanForetellsVerification
<1>1. /\ Sound(request)
      /\ pc = "planned" =>
           /\ plan.conflicts = ConflictsOf(request)
           /\ plan.writes = IF asked.outcome = "policy_blocked" THEN <<>> ELSE PlannedScopes
           /\ asked.outcome = Outcome
  BY DEF PlanningInv, RequestKept, PlanKept
<1>2. /\ "capability_incompatible" \in ConflictsOf(request) <=> ExceedsCaps(request)
      /\ "runtime_incompatible" \in ConflictsOf(request) <=> PlannedScopes = <<>>
      /\ "policy_blocked" \in ConflictsOf(request) <=> asked.outcome = "policy_blocked"
  BY DEF ConflictsOf
<1>3. ASSUME pc = "planned", ~WithinCaps(request.policy, request.permissions)
      PROVE  "capability_incompatible" \in plan.conflicts
  <2> DEFINE q == request
  <2>1. Sound(q) /\ ~WithinCaps(q.policy, q.permissions)
    BY <1>1, <1>3
  <2> HIDE DEF q
  <2>2. ExceedsCaps(q)
    BY <2>1, CapsFacts
  <2> QED BY <1>1, <1>2, <1>3, <2>2 DEF q
<1>4. ASSUME verdict # Nothing, verdict.found = asked.found
      PROVE  /\ (verdict.reason = "policy_preflight_blocked") <=> ("policy_blocked" \in plan.conflicts)
             /\ (verdict.reason = "no_writable_scope_available") =>
                  ("runtime_incompatible" \in plan.conflicts)
             /\ (verdict.reason = "supervise") =>
                  ("runtime_incompatible" \notin plan.conflicts /\ plan.writes = verdict.scopes)
  <2>1. /\ pc = "planned" /\ verdict.scopes = RuntimeScopes(asked.found)
        /\ verdict.reason =
             Verdict(request.trust, request.trigger, Outcome, asked.found, supervisor)
    BY <1>4 DEF PlanningInv, VerdictKept
  <2>2. RuntimeScopes(asked.found) = PlannedScopes
    BY DEF RuntimeScopes, PlannedScopes
  <2>3. /\ verdict.reason = "policy_preflight_blocked" <=> Outcome = "policy_blocked"
        /\ verdict.reason = "no_writable_scope_available" => PlannedScopes = <<>>
        /\ verdict.reason = "supervise" =>
             Outcome # "policy_blocked" /\ PlannedScopes # <<>>
    BY <2>1, <2>2 DEF Verdict
  <2> QED BY <1>1, <1>2, <2>1, <2>2, <2>3
<1> QED BY <1>3, <1>4 DEF PlanForetellsVerification

\* What the runtime decides about a plan is what the plan foretells, for every policy,
\* permission, trust and scope, as long as the scopes are what they were.
THEOREM PlansForetellVerifications == PlanningSpec => []PlanForetellsVerification
<1> QED BY PlanningIsInductive, PlanForetells, PTL
=============================================================================
