--------------------------- MODULE ScopeFileProofs ---------------------------
(***************************************************************************)
(* Theorems about ScopeFile, for any operations and packages and however   *)
(* many operations, failing file operations, edits and killed processes.   *)
(***************************************************************************)
EXTENDS ScopeFile, SequenceTheorems, TLAPS

(***************************************************************************)
(* The inductive invariant.                                                *)
(***************************************************************************)
\* Only who holds the lock writes.
Serial == \A o \in Ops : InWrite(o) => Holds(o)

\* What an operation that writes knows of the file, as long as the user leaves the
\* file alone: next is what it computed from the promised content, backup has it.
Progress(o) ==
  /\ op[o].pc \in {"backup", "temp", "rename"} =>
       file.servers = acked /\ op[o].next = Result(o, acked)
  /\ op[o].pc \in {"temp", "rename", "drop_backup", "recover"} => op[o].backup.servers = acked
  /\ At(o, "drop_backup") => file.servers = Result(o, acked)
  /\ At(o, "recover") => /\ file.servers \in {acked, Result(o, acked)}
                         /\ op[o].backup = NoFile => file.servers = acked

Consistent ==
  edits = 0 => /\ (\A o \in Ops : ~InWrite(o)) => file.servers = acked
               /\ \A o \in Ops : InWrite(o) => Progress(o)

\* Who is about to write over a foreign file found it daemon-owned.
Unaware == \A o \in Ops : InWrite(o) /\ ~Owned(file) => op[o].stale

\* The package of an operation is one.
Packaged == \A o \in Ops : ~At(o, "idle") => op[o].package \in Packages

IInv == TypeOK /\ Packaged /\ Serial /\ Consistent /\ Unaware

(***************************************************************************)
(* How an operation moves on.                                              *)
(***************************************************************************)
LEMMA GotoFacts ==
  ASSUME op \in [Ops -> Operation], NEW o \in Ops, NEW p \in Points
  PROVE  /\ Goto(o, p) \in [Ops -> Operation]
         /\ Goto(o, p)[o].pc = p /\ Goto(o, p)[o].what = op[o].what
         /\ Goto(o, p)[o].package = op[o].package /\ Goto(o, p)[o].next = op[o].next
         /\ Goto(o, p)[o].backup = op[o].backup /\ Goto(o, p)[o].stale = op[o].stale
         /\ \A q \in Ops : q # o => Goto(o, p)[q] = op[q]
BY DEF Goto, Operation

LEMMA ReadFacts ==
  ASSUME op \in [Ops -> Operation], NEW o \in Ops, NEW S \in SUBSET Packages,
         op' = [op EXCEPT ![o].pc = "backup", ![o].next = S]
  PROVE  /\ op' \in [Ops -> Operation]
         /\ op'[o].pc = "backup" /\ op'[o].what = op[o].what
         /\ op'[o].package = op[o].package /\ op'[o].next = S
         /\ op'[o].backup = op[o].backup /\ op'[o].stale = op[o].stale
         /\ \A q \in Ops : q # o => op'[q] = op[q]
<1>1. PICK x : x = [op[o] EXCEPT !.pc = "backup", !.next = S]
  OBVIOUS
<1>2. /\ x \in Operation /\ x.pc = "backup" /\ x.what = op[o].what
      /\ x.package = op[o].package /\ x.next = S
      /\ x.backup = op[o].backup /\ x.stale = op[o].stale
  BY <1>1 DEF Operation, Points
<1>3. op' = [op EXCEPT ![o] = x]
  BY <1>1
<1> QED BY <1>2, <1>3

LEMMA BackupFacts ==
  ASSUME op \in [Ops -> Operation], NEW o \in Ops, NEW c \in Content,
         op' = [op EXCEPT ![o].pc = "temp", ![o].backup = c]
  PROVE  /\ op' \in [Ops -> Operation]
         /\ op'[o].pc = "temp" /\ op'[o].what = op[o].what
         /\ op'[o].package = op[o].package /\ op'[o].next = op[o].next
         /\ op'[o].backup = c /\ op'[o].stale = op[o].stale
         /\ \A q \in Ops : q # o => op'[q] = op[q]
<1>1. PICK x : x = [op[o] EXCEPT !.pc = "temp", !.backup = c]
  OBVIOUS
<1>2. /\ x \in Operation /\ x.pc = "temp" /\ x.what = op[o].what
      /\ x.package = op[o].package /\ x.next = op[o].next
      /\ x.backup = c /\ x.stale = op[o].stale
  BY <1>1 DEF Operation, Points
<1>3. op' = [op EXCEPT ![o] = x]
  BY <1>1
<1> QED BY <1>2, <1>3

LEMMA EditFacts ==
  ASSUME op \in [Ops -> Operation], NEW kind, Edit(kind)
  PROVE  /\ op' \in [Ops -> Operation]
         /\ \A o \in Ops : /\ op'[o].pc = op[o].pc /\ op'[o].package = op[o].package
                           /\ InWrite(o) => op'[o].stale
<1>1. ASSUME NEW o \in Ops
      PROVE  /\ op'[o] \in Operation
             /\ op'[o].pc = op[o].pc /\ op'[o].package = op[o].package
             /\ InWrite(o) => op'[o].stale
  <2>1. op'[o] = [op[o] EXCEPT !.stale = InWrite(o)]
    BY DEF Edit
  <2>2. CASE InWrite(o)
    <3>1. op'[o] = [op[o] EXCEPT !.stale = TRUE]
      BY <2>1, <2>2 DEF InWrite
    <3> QED BY <3>1 DEF Operation
  <2>3. CASE ~InWrite(o)
    <3>0. InWrite(o) = FALSE
      BY <2>3 DEF InWrite
    <3>1. op'[o] = [op[o] EXCEPT !.stale = FALSE]
      BY <2>1, <3>0
    <3> QED BY <2>3, <3>1 DEF Operation
  <2> QED BY <2>2, <2>3
<1>2. op' = [o \in Ops |-> op'[o]]
  BY DEF Edit
<1> QED BY <1>1, <1>2

LEMMA NoOpType == NoOp \in Operation
BY DEF NoOp, Operation, Points, NoFile, Plain, Content, Kinds

LEMMA LockFacts ==
  ASSUME lock \in Seq(Ops), NEW o \in Ops
  PROVE  /\ Append(lock, o) \in Seq(Ops)
         /\ lock # <<>> => Tail(lock) \in Seq(Ops)
         /\ \A q \in Ops : lock # <<>> /\ Head(lock) = q =>
              Append(lock, o) # <<>> /\ Head(Append(lock, o)) = q
BY AppendProperties, HeadTailProperties

LEMMA AnswerFacts ==
  ASSUME op \in [Ops -> Operation], lock \in Seq(Ops), NEW o \in Ops, Answer(o)
  PROVE  /\ op' \in [Ops -> Operation]
         /\ op'[o] = NoOp
         /\ \A q \in Ops : q # o => op'[q] = op[q]
         /\ lock' \in Seq(Ops)
BY NoOpType, LockFacts DEF Answer, Holds

LEMMA ResultType ==
  ASSUME op \in [Ops -> Operation], NEW o \in Ops, op[o].package \in Packages,
         NEW servers \in SUBSET Packages
  PROVE  Result(o, servers) \in SUBSET Packages
BY DEF Result

LEMMA ContentTypes ==
  /\ \A kind \in Kinds : Plain(kind) \in Content
  /\ \A servers \in SUBSET Packages : Managed(servers) \in Content
  /\ NoFile \in Content
BY DEF Plain, Managed, NoFile, Content, Kinds

(***************************************************************************)
(* Types.                                                                  *)
(***************************************************************************)
LEMMA TypeInit == Init => TypeOK /\ Packaged
<1> SUFFICES ASSUME Init PROVE TypeOK /\ Packaged
  OBVIOUS
<1>1. file \in Content
  BY ContentTypes DEF Init, Kinds
<1>2. op \in [Ops -> Operation] /\ lock \in Seq(Ops)
  BY NoOpType DEF Init
<1>3. Packaged
  BY DEF Init, Packaged, At, NoOp
<1> QED BY <1>1, <1>2, <1>3, ScopeFileAssumption DEF Init, TypeOK

LEMMA GotoTypes ==
  ASSUME op \in [Ops -> Operation], Packaged, NEW o \in Ops, ~At(o, "idle"),
         NEW p \in Points, op' = Goto(o, p)
  PROVE  op' \in [Ops -> Operation] /\ Packaged'
<1>1. /\ op' \in [Ops -> Operation] /\ op'[o].package = op[o].package
      /\ \A q \in Ops : q # o => op'[q] = op[q]
  BY GotoFacts
<1>2. ASSUME NEW q \in Ops, op'[q].pc # "idle" PROVE op'[q].package \in Packages
  <2>1. CASE q = o
    BY <1>1, <2>1 DEF Packaged
  <2>2. CASE q # o
    BY <1>1, <1>2, <2>2 DEF Packaged, At
  <2> QED BY <2>1, <2>2
<1> QED BY <1>1, <1>2 DEF Packaged, At

LEMMA TypeStep == TypeOK /\ Packaged /\ [Next]_vars => TypeOK' /\ Packaged'
<1> SUFFICES ASSUME TypeOK, Packaged, [Next]_vars PROVE TypeOK' /\ Packaged'
  OBVIOUS
<1> USE ScopeFileAssumption DEF TypeOK
<1>1. ASSUME NEW o \in Ops, NEW what \in {"write", "remove"}, NEW package \in Packages,
             Begin(o, what, package)
      PROVE  TypeOK' /\ Packaged'
  <2>1. [NoOp EXCEPT !.pc = "enter", !.what = what, !.package = package] \in Operation
    BY NoOpType DEF Operation, Points
  <2>2. op' \in [Ops -> Operation]
    BY <1>1, <2>1 DEF Begin
  <2>3. \A q \in Ops : q # o => op'[q] = op[q]
    BY <1>1 DEF Begin
  <2>4. op'[o] = op[o] \/ op'[o].package = package
    BY <1>1, NoOpType DEF Begin, NoOp, Operation
  <2>5. Packaged'
    BY <2>2, <2>3, <2>4 DEF Packaged, At
  <2> QED BY <1>1, <2>2, <2>5 DEF Begin
<1>2. ASSUME NEW o \in Ops, Step(o)
      PROVE  TypeOK' /\ Packaged'
  <2>1. CASE Enter(o)
    <3>1. op' \in [Ops -> Operation] /\ Packaged'
      BY <2>1, GotoTypes DEF Enter, At, Points
    <3>2. lock' \in Seq(Ops)
      BY <2>1, LockFacts DEF Enter
    <3> QED BY <2>1, <3>1, <3>2 DEF Enter, budget
  <2>2. CASE Read(o)
    <3>1. op[o].package \in Packages
      BY <2>2 DEF Read, At, Packaged
    <3>2. CASE Answer(o)
      <4>1. acked' \in SUBSET Packages /\ faults' \in 0..MaxFaults
        BY <2>2, <3>1, ResultType DEF Read, Fault
      <4>2. Packaged'
        BY <3>2, AnswerFacts DEF Packaged, At, NoOp
      <4> QED BY <2>2, <3>2, <4>1, <4>2, AnswerFacts DEF Read, budget
    <3>3. CASE /\ op' = [op EXCEPT ![o].pc = "backup", ![o].next = Result(o, file.servers)]
               /\ UNCHANGED <<lock, acked, faults>>
      <4>1. Result(o, file.servers) \in SUBSET Packages
        BY <3>1, ResultType DEF Content
      <4>2. op' \in [Ops -> Operation] /\ Packaged'
        BY <3>1, <3>3, <4>1, ReadFacts DEF Packaged, At
      <4> QED BY <2>2, <3>3, <4>2 DEF Read, budget
    <3> QED BY <2>2, <3>2, <3>3 DEF Read
  <2>3. CASE Backup(o)
    <3>1. op[o].package \in Packages
      BY <2>3 DEF Backup, At, Packaged
    <3>2. CASE Fault /\ Answer(o)
      <4>1. Packaged'
        BY <3>2, AnswerFacts DEF Packaged, At, NoOp
      <4> QED BY <2>3, <3>2, <4>1, AnswerFacts DEF Backup, Fault, budget
    <3>3. CASE op' = [op EXCEPT ![o].pc = "temp", ![o].backup = file] /\ UNCHANGED <<lock, faults>>
      <4>1. op' \in [Ops -> Operation] /\ Packaged'
        BY <3>1, <3>3, BackupFacts DEF Packaged, At
      <4> QED BY <2>3, <3>3, <4>1 DEF Backup, budget
    <3> QED BY <2>3, <3>2, <3>3 DEF Backup
  <2>4. CASE WriteTemp(o)
    <3>1. op' \in [Ops -> Operation] /\ Packaged'
      BY <2>4, GotoTypes DEF WriteTemp, At, Points
    <3> QED BY <2>4, <3>1 DEF WriteTemp, Fault, budget
  <2>5. CASE Rename(o)
    <3>1. file' \in Content
      BY <2>5, ContentTypes DEF Rename, Operation
    <3>2. op' \in [Ops -> Operation] /\ Packaged'
      BY <2>5, GotoTypes DEF Rename, At, Points
    <3> QED BY <2>5, <3>1, <3>2 DEF Rename, Fault, budget
  <2>6. CASE DropBackup(o)
    <3>1. op[o].package \in Packages
      BY <2>6 DEF DropBackup, At, Packaged
    <3>2. CASE Answer(o) /\ acked' = Result(o, acked) /\ UNCHANGED faults
      <4>1. acked' \in SUBSET Packages
        BY <3>1, <3>2, ResultType
      <4>2. Packaged'
        BY <3>2, AnswerFacts DEF Packaged, At, NoOp
      <4> QED BY <2>6, <3>2, <4>1, <4>2, AnswerFacts DEF DropBackup, budget
    <3>3. CASE Fault /\ op' = Goto(o, "recover") /\ UNCHANGED <<lock, acked>>
      <4>1. op' \in [Ops -> Operation] /\ Packaged'
        BY <2>6, <3>3, GotoTypes DEF DropBackup, At, Points
      <4> QED BY <2>6, <3>3, <4>1 DEF DropBackup, Fault, budget
    <3> QED BY <2>6, <3>2, <3>3 DEF DropBackup
  <2>7. CASE Recover(o)
    <3>1. file' \in Content /\ acked' \in SUBSET Packages /\ faults' \in 0..MaxFaults
      BY <2>7 DEF Recover, Fault, Operation, Content
    <3>2. Answer(o) /\ UNCHANGED budget
      BY <2>7 DEF Recover
    <3>3. Packaged'
      BY <3>2, AnswerFacts DEF Packaged, At, NoOp
    <3> QED BY <3>1, <3>2, <3>3, AnswerFacts DEF budget
  <2> QED BY <1>2, <2>1, <2>2, <2>3, <2>4, <2>5, <2>6, <2>7 DEF Step
<1>3. ASSUME NEW kind \in Kinds \ {"managed"}, Edit(kind)
      PROVE  TypeOK' /\ Packaged'
  <2>1. op' \in [Ops -> Operation] /\ Packaged'
    BY <1>3, EditFacts DEF Packaged, At
  <2>2. file' \in Content
    BY <1>3, ContentTypes DEF Edit
  <2>3. edits' \in 0..MaxEdits
    BY <1>3 DEF Edit
  <2>4. /\ acked' \subseteq Packages
        /\ lock' = lock /\ begun' = begun /\ faults' = faults /\ crashes' = crashes
    BY <1>3 DEF Edit
  <2> QED BY <2>1, <2>2, <2>3, <2>4
<1>4. CASE Crash
  <2>1. op' \in [Ops -> Operation] /\ Packaged'
    BY <1>4, NoOpType DEF Crash, Packaged, At, NoOp
  <2>2. lock' \in Seq(Ops) /\ acked' \in SUBSET Packages
    BY <1>4, EmptySeq DEF Crash, Content
  <2> QED BY <1>4, <2>1, <2>2 DEF Crash
<1>5. CASE UNCHANGED vars
  BY <1>5 DEF vars, Packaged, At
<1> QED BY <1>1, <1>2, <1>3, <1>4, <1>5 DEF Next

\* Every reachable state has the types of TypeOK: the scope file is a whole file of one
\* of the known kinds, and the lock a queue of operations.
THEOREM TypeCorrect == Spec => []TypeOK
<1>1. TypeOK /\ Packaged /\ [Next]_vars => (TypeOK /\ Packaged)'
  BY TypeStep
<1> QED BY <1>1, TypeInit, PTL DEF Spec

(***************************************************************************)
(* What the file holds.                                                    *)
(***************************************************************************)
LEMMA SafeInit == Init => Serial /\ Consistent /\ Unaware
<1> SUFFICES ASSUME Init PROVE Serial /\ Consistent /\ Unaware
  OBVIOUS
<1>1. \A o \in Ops : ~InWrite(o)
  BY DEF Init, InWrite, NoOp
<1>2. file.servers = acked
  BY DEF Init, NoFile, Plain, Managed
<1> QED BY <1>1, <1>2 DEF Serial, Consistent, Unaware

\* While somebody holds the lock it is enough to look at them.
LEMMA OneWriter ==
  ASSUME NEW o \in Ops, Serial, Holds(o),
         \A q \in Ops : q # o => op'[q] = op[q],
         InWrite(o)' => Holds(o)',
         edits' = 0 => IF InWrite(o)' THEN Progress(o)' ELSE file'.servers = acked',
         InWrite(o)' /\ ~Owned(file)' => op'[o].stale
  PROVE  Serial' /\ Consistent' /\ Unaware'
<1>1. ASSUME NEW q \in Ops, q # o PROVE ~InWrite(q)'
  <2>1. ~InWrite(q)
    BY <1>1 DEF Serial, Holds
  <2> QED BY <1>1, <2>1 DEF InWrite
<1>2. Serial'
  BY <1>1 DEF Serial
<1>3. Consistent'
  BY <1>1 DEF Consistent
<1>4. Unaware'
  BY <1>1 DEF Unaware
<1> QED BY <1>2, <1>3, <1>4

\* Who does not write, before or after, disturbs nobody.
LEMMA Bystander ==
  ASSUME NEW o \in Ops, Serial, Consistent, Unaware,
         ~InWrite(o), ~InWrite(o)', \A q \in Ops : q # o => op'[q] = op[q],
         file' = file, acked' = acked, edits' = edits,
         \A q \in Ops : Holds(q) => Holds(q)'
  PROVE  Serial' /\ Consistent' /\ Unaware'
<1>1. \A q \in Ops : InWrite(q)' <=> InWrite(q)
  BY DEF InWrite
<1>2. \A q \in Ops : InWrite(q) => op'[q] = op[q]
  OBVIOUS
<1>3. Serial'
  BY <1>1 DEF Serial
<1>4. ASSUME NEW q \in Ops, InWrite(q), Progress(q) PROVE Progress(q)'
  BY <1>2, <1>4 DEF Progress, Result, At
<1>5. Consistent'
  BY <1>1, <1>4 DEF Consistent
<1>6. Unaware'
  BY <1>1, <1>2 DEF Unaware, Owned
<1> QED BY <1>3, <1>5, <1>6

LEMMA SafeStep ==
  TypeOK /\ Packaged /\ Serial /\ Consistent /\ Unaware /\ [Next]_vars
    => Serial' /\ Consistent' /\ Unaware'
<1> SUFFICES ASSUME TypeOK, Packaged, Serial, Consistent, Unaware, [Next]_vars
             PROVE  Serial' /\ Consistent' /\ Unaware'
  OBVIOUS
<1>0. op \in [Ops -> Operation] /\ lock \in Seq(Ops) /\ file \in Content /\ edits \in Nat
  BY ScopeFileAssumption DEF TypeOK
<1>1. ASSUME NEW o \in Ops, NEW what \in {"write", "remove"}, NEW package \in Packages,
             Begin(o, what, package)
      PROVE  Serial' /\ Consistent' /\ Unaware'
  <2>1. ~InWrite(o) /\ ~InWrite(o)'
    BY <1>0, <1>1, NoOpType DEF Begin, At, InWrite, Operation
  <2>2. \A q \in Ops : q # o => op'[q] = op[q]
    BY <1>1 DEF Begin
  <2>3. /\ file' = file /\ lock' = lock /\ acked' = acked /\ edits' = edits
    BY <1>1 DEF Begin
  <2>4. \A q \in Ops : Holds(q) => Holds(q)'
    BY <2>3 DEF Holds
  <2> QED BY <2>1, <2>2, <2>3, <2>4, Bystander
<1>2. ASSUME NEW o \in Ops, Enter(o)
      PROVE  Serial' /\ Consistent' /\ Unaware'
  <2>1. ~InWrite(o) /\ ~InWrite(o)'
    BY <1>0, <1>2, GotoFacts DEF Enter, At, InWrite, Points
  <2>2. \A q \in Ops : q # o => op'[q] = op[q]
    BY <1>0, <1>2, GotoFacts DEF Enter, Points
  <2>3. /\ file' = file /\ acked' = acked /\ edits' = edits
    BY <1>2 DEF Enter, budget
  <2>4. \A q \in Ops : Holds(q) => Holds(q)'
    BY <1>0, <1>2, LockFacts DEF Enter, Holds
  <2> QED BY <2>1, <2>2, <2>3, <2>4, Bystander
<1>3. ASSUME NEW o \in Ops, Read(o)
      PROVE  Serial' /\ Consistent' /\ Unaware'
  <2>1. Holds(o) /\ ~InWrite(o) /\ edits' = edits /\ file' = file
    BY <1>3 DEF Read, At, InWrite, budget
  <2>2. edits = 0 => file.servers = acked
    BY <2>1 DEF Consistent, Serial, Holds
  <2>3. CASE Answer(o)
    <3>1. op'[o] = NoOp /\ \A q \in Ops : q # o => op'[q] = op[q]
      BY <1>0, <2>3, AnswerFacts
    <3>2. ~InWrite(o)'
      BY <3>1 DEF InWrite, NoOp
    <3>3. edits' = 0 => file'.servers = acked'
      BY <1>3, <2>1, <2>2 DEF Read, Result
    <3> QED BY <2>1, <3>1, <3>2, <3>3, OneWriter
  <2>4. CASE /\ Owned(file)
             /\ op' = [op EXCEPT ![o].pc = "backup", ![o].next = Result(o, file.servers)]
             /\ UNCHANGED <<lock, acked, faults>>
    <3>1. Result(o, file.servers) \in SUBSET Packages
      <4>1. op[o].package \in Packages
        BY <1>3 DEF Read, At, Packaged
      <4> QED BY <1>0, <4>1, ResultType DEF Content
    <3>2. /\ op'[o].pc = "backup" /\ op'[o].what = op[o].what
          /\ op'[o].package = op[o].package /\ op'[o].next = Result(o, file.servers)
          /\ \A q \in Ops : q # o => op'[q] = op[q]
      BY <1>0, <2>4, <3>1, ReadFacts
    <3>3. edits' = 0 => Progress(o)'
      BY <2>1, <2>2, <2>4, <3>2 DEF Progress, Result, At
    <3>4. InWrite(o)' /\ Holds(o)' /\ Owned(file)'
      BY <2>1, <2>4, <3>2 DEF InWrite, Holds, Owned
    <3> QED BY <2>1, <3>2, <3>3, <3>4, OneWriter
  <2> QED BY <1>3, <2>3, <2>4 DEF Read
<1>4. ASSUME NEW o \in Ops, Backup(o)
      PROVE  Serial' /\ Consistent' /\ Unaware'
  <2>1. /\ InWrite(o) /\ Holds(o) /\ edits' = edits /\ file' = file /\ acked' = acked
    BY <1>4 DEF Backup, At, InWrite, budget, Serial
  <2>2. edits = 0 => file.servers = acked /\ op[o].next = Result(o, acked)
    BY <1>4, <2>1 DEF Consistent, Progress, Backup, At
  <2>3. CASE Answer(o)
    <3>1. op'[o] = NoOp /\ \A q \in Ops : q # o => op'[q] = op[q]
      BY <1>0, <2>3, AnswerFacts
    <3>2. ~InWrite(o)'
      BY <3>1 DEF InWrite, NoOp
    <3> QED BY <2>1, <2>2, <3>1, <3>2, OneWriter
  <2>4. CASE op' = [op EXCEPT ![o].pc = "temp", ![o].backup = file] /\ UNCHANGED <<lock, faults>>
    <3>1. /\ op'[o].pc = "temp" /\ op'[o].what = op[o].what
          /\ op'[o].package = op[o].package /\ op'[o].next = op[o].next
          /\ op'[o].backup = file /\ op'[o].stale = op[o].stale
          /\ \A q \in Ops : q # o => op'[q] = op[q]
      BY <1>0, <2>4, BackupFacts
    <3>2. edits' = 0 => Progress(o)'
      BY <2>1, <2>2, <3>1 DEF Progress, Result, At
    <3>3. InWrite(o)' /\ Holds(o)'
      BY <2>1, <2>4, <3>1 DEF InWrite, Holds
    <3>4. ~Owned(file)' => op'[o].stale
      BY <2>1, <3>1 DEF Unaware, Owned
    <3> QED BY <2>1, <3>1, <3>2, <3>3, <3>4, OneWriter
  <2> QED BY <1>4, <2>3, <2>4 DEF Backup
<1>5. ASSUME NEW o \in Ops, WriteTemp(o)
      PROVE  Serial' /\ Consistent' /\ Unaware'
  <2>1. /\ InWrite(o) /\ Holds(o)
        /\ edits' = edits /\ file' = file /\ acked' = acked /\ lock' = lock
    BY <1>5 DEF WriteTemp, At, InWrite, budget, Serial
  <2>2. edits = 0 => /\ file.servers = acked /\ op[o].next = Result(o, acked)
                     /\ op[o].backup.servers = acked
    BY <1>5, <2>1 DEF Consistent, Progress, WriteTemp, At
  <2>3. /\ op'[o].pc \in {"rename", "recover"} /\ op'[o].what = op[o].what
        /\ op'[o].package = op[o].package /\ op'[o].next = op[o].next
        /\ op'[o].backup = op[o].backup /\ op'[o].stale = op[o].stale
        /\ \A q \in Ops : q # o => op'[q] = op[q]
    BY <1>0, <1>5, GotoFacts DEF WriteTemp, Points
  <2>4. edits' = 0 => Progress(o)'
    BY <2>1, <2>2, <2>3 DEF Progress, Result, At
  <2>5. InWrite(o)' /\ Holds(o)'
    BY <2>1, <2>3 DEF InWrite, Holds
  <2>6. ~Owned(file)' => op'[o].stale
    BY <2>1, <2>3 DEF Unaware, Owned
  <2> QED BY <2>1, <2>3, <2>4, <2>5, <2>6, OneWriter
<1>6. ASSUME NEW o \in Ops, Rename(o)
      PROVE  Serial' /\ Consistent' /\ Unaware'
  <2>1. /\ InWrite(o) /\ Holds(o)
        /\ edits' = edits /\ acked' = acked /\ lock' = lock
    BY <1>6 DEF Rename, At, InWrite, budget, Serial
  <2>2. edits = 0 => /\ file.servers = acked /\ op[o].next = Result(o, acked)
                     /\ op[o].backup.servers = acked
    BY <1>6, <2>1 DEF Consistent, Progress, Rename, At
  <2>3. /\ \/ op'[o].pc = "drop_backup" /\ file' = Managed(op[o].next)
           \/ op'[o].pc = "recover" /\ file' = file
        /\ op'[o].what = op[o].what
        /\ op'[o].package = op[o].package /\ op'[o].next = op[o].next
        /\ op'[o].backup = op[o].backup /\ op'[o].stale = op[o].stale
        /\ \A q \in Ops : q # o => op'[q] = op[q]
    BY <1>0, <1>6, GotoFacts DEF Rename, Points
  <2>4. edits' = 0 => Progress(o)'
    BY <2>1, <2>2, <2>3 DEF Progress, Result, At, Managed
  <2>5. InWrite(o)' /\ Holds(o)'
    BY <2>1, <2>3 DEF InWrite, Holds
  <2>6. ~Owned(file)' => op'[o].stale
    BY <2>1, <2>3 DEF Unaware, Owned, Managed
  <2> QED BY <2>1, <2>3, <2>4, <2>5, <2>6, OneWriter
<1>7. ASSUME NEW o \in Ops, DropBackup(o)
      PROVE  Serial' /\ Consistent' /\ Unaware'
  <2>1. InWrite(o) /\ Holds(o) /\ edits' = edits /\ file' = file
    BY <1>7 DEF DropBackup, At, InWrite, budget, Serial
  <2>2. edits = 0 => file.servers = Result(o, acked) /\ op[o].backup.servers = acked
    BY <1>7, <2>1 DEF Consistent, Progress, DropBackup, At
  <2>3. CASE Answer(o) /\ acked' = Result(o, acked)
    <3>1. op'[o] = NoOp /\ \A q \in Ops : q # o => op'[q] = op[q]
      BY <1>0, <2>3, AnswerFacts
    <3>2. ~InWrite(o)'
      BY <3>1 DEF InWrite, NoOp
    <3> QED BY <2>1, <2>2, <2>3, <3>1, <3>2, OneWriter
  <2>4. CASE /\ op[o].backup # NoFile /\ op' = Goto(o, "recover")
             /\ UNCHANGED <<lock, acked>>
    <3>1. /\ op'[o].pc = "recover" /\ op'[o].what = op[o].what
          /\ op'[o].package = op[o].package /\ op'[o].next = op[o].next
          /\ op'[o].backup = op[o].backup /\ op'[o].stale = op[o].stale
          /\ \A q \in Ops : q # o => op'[q] = op[q]
      BY <1>0, <2>4, GotoFacts DEF Points
    <3>2. edits' = 0 => Progress(o)'
      BY <2>1, <2>2, <2>4, <3>1 DEF Progress, Result, At
    <3>3. InWrite(o)' /\ Holds(o)'
      BY <2>1, <2>4, <3>1 DEF InWrite, Holds
    <3>4. ~Owned(file)' => op'[o].stale
      BY <2>1, <3>1 DEF Unaware, Owned
    <3> QED BY <2>1, <3>1, <3>2, <3>3, <3>4, OneWriter
  <2> QED BY <1>7, <2>3, <2>4 DEF DropBackup
<1>8. ASSUME NEW o \in Ops, Recover(o)
      PROVE  Serial' /\ Consistent' /\ Unaware'
  <2>1. InWrite(o) /\ Holds(o) /\ edits' = edits /\ Answer(o)
    BY <1>8 DEF Recover, At, InWrite, budget, Serial
  <2>2. edits = 0 => /\ op[o].backup.servers = acked
                     /\ op[o].backup = NoFile => file.servers = acked
    BY <1>8, <2>1 DEF Consistent, Progress, Recover, At
  <2>3. op'[o] = NoOp /\ \A q \in Ops : q # o => op'[q] = op[q]
    BY <1>0, <2>1, AnswerFacts
  <2>4. ~InWrite(o)'
    BY <2>3 DEF InWrite, NoOp
  <2>5. edits' = 0 => file'.servers = acked'
    BY <1>8, <2>1, <2>2 DEF Recover
  <2> QED BY <2>1, <2>3, <2>4, <2>5, OneWriter
<1>9. ASSUME NEW kind, Edit(kind)
      PROVE  Serial' /\ Consistent' /\ Unaware'
  <2>1. /\ \A o \in Ops : op'[o].pc = op[o].pc /\ (InWrite(o) => op'[o].stale)
    BY <1>0, <1>9, EditFacts
  <2>2. edits' # 0 /\ lock' = lock
    BY <1>0, <1>9 DEF Edit
  <2> QED BY <2>1, <2>2 DEF Serial, Consistent, Unaware, InWrite, Holds
<1>10. CASE Crash
  <2>1. \A o \in Ops : ~InWrite(o)'
    BY <1>10 DEF Crash, InWrite, NoOp
  <2>2. file'.servers = acked'
    BY <1>10 DEF Crash
  <2> QED BY <2>1, <2>2 DEF Serial, Consistent, Unaware
<1>11. CASE UNCHANGED vars
  BY <1>11 DEF vars, Serial, Consistent, Unaware, InWrite, Holds, Progress, Result, At, Owned
<1> QED BY <1>1, <1>2, <1>3, <1>4, <1>5, <1>6, <1>7, <1>8, <1>9, <1>10, <1>11 DEF Next, Step

LEMMA Reachable == Spec => []IInv
<1>1. Init => IInv
  BY TypeInit, SafeInit DEF IInv
<1>2. IInv /\ [Next]_vars => IInv'
  BY TypeStep, SafeStep DEF IInv
<1> QED BY <1>1, <1>2, PTL DEF Spec

\* The file is always whole and holds what the answers promise, or that with the
\* operation that holds the lock carried out: writeFileAtomically under withScopeLock
\* loses no entry and leaves no trace of a failed write, wherever it is cut off.
THEOREM TheFileIsOldOrNew == Spec => []OldOrNew
<1>1. IInv => OldOrNew
  <2> SUFFICES ASSUME IInv PROVE OldOrNew
    OBVIOUS
  <2>1. file.kind \in Kinds
    BY DEF IInv, TypeOK, Content
  <2>2. ASSUME edits = 0, NEW o \in Ops, InWrite(o), file.servers # acked
        PROVE  Holds(o) /\ file.servers = Result(o, acked)
    <3>1. Progress(o) /\ Holds(o)
      BY <2>2 DEF IInv, Consistent, Serial
    <3> QED BY <2>2, <3>1 DEF Progress, InWrite, At
  <2> QED BY <2>1, <2>2 DEF OldOrNew, IInv, Consistent
<1> QED BY <1>1, Reachable, PTL

\* A file that is not daemon-owned is replaced by an operation only if it had passed
\* assertMutableScopeOwnership before the user edited the file.
THEOREM ForeignFilesAreLeftAlone == Spec => ForeignIsLeftAlone
<1>1. IInv /\ [Next]_vars =>
        (edits' = edits /\ ~Owned(file) /\ file' # file => \E o \in Ops : op[o].stale)
  <2> SUFFICES ASSUME IInv, Next, edits' = edits, ~Owned(file), file' # file
               PROVE  \E o \in Ops : op[o].stale
    BY DEF vars
  <2>0. edits \in Nat
    BY ScopeFileAssumption DEF IInv, TypeOK
  <2>1. \E o \in Ops : Rename(o) \/ Recover(o)
    <3>1. \A o \in Ops : \A what, package : ~Begin(o, what, package)
      BY DEF Begin
    <3>2. \A o \in Ops : ~(Enter(o) \/ Read(o) \/ Backup(o) \/ WriteTemp(o) \/ DropBackup(o))
      BY DEF Enter, Read, Backup, WriteTemp, DropBackup
    <3>3. \A kind : ~Edit(kind)
      BY <2>0 DEF Edit
    <3>4. ~Crash
      BY DEF Crash
    <3> QED BY <3>1, <3>2, <3>3, <3>4 DEF Next, Step
  <2>2. \E o \in Ops : InWrite(o)
    BY <2>1 DEF Rename, Recover, At, InWrite
  <2> QED BY <2>2 DEF IInv, Unaware
<1> QED BY <1>1, Reachable, PTL DEF Spec, ForeignIsLeftAlone

(***************************************************************************)
(* The line for the lock.                                                  *)
(***************************************************************************)
\* The operations in l are those of S, each once.
LineOf(l, S) == /\ l \in Seq(S)
                /\ \A o \in S : \E i \in 1..Len(l) : l[i] = o
                /\ \A i, j \in 1..Len(l) : l[i] = l[j] => i = j

\* Who has got in line and is not answered yet.
Entered(ops) == {o \in Ops : ops[o].pc \notin {"idle", "enter"}}

LEMMA LineGrows ==
  ASSUME NEW S, NEW l, LineOf(l, S), NEW o, o \notin S
  PROVE  LineOf(Append(l, o), S \cup {o})
<1> DEFINE T == S \cup {o}
<1>0. l \in Seq(S) /\ l \in Seq(T)
  BY DEF LineOf
<1>1. PICK n \in Nat : n = Len(l)
  BY <1>0
<1>2. /\ Append(l, o) \in Seq(T) /\ Len(Append(l, o)) = n + 1 /\ Append(l, o)[n + 1] = o
      /\ \A i \in 1..n : Append(l, o)[i] = l[i] /\ l[i] \in S
  BY <1>0, <1>1, AppendProperties, ElementOfSeq
<1>3. PICK m : m = Append(l, o)
  OBVIOUS
<1> HIDE DEF T
<1>4. \A p \in T : \E i \in 1..Len(m) : m[i] = p
  <2>1. ASSUME NEW p \in S PROVE \E i \in 1..Len(m) : m[i] = p
    <3>1. PICK i \in 1..n : l[i] = p
      BY <1>1 DEF LineOf
    <3> QED BY <1>2, <1>3, <3>1
  <2>2. \E i \in 1..Len(m) : m[i] = o
    BY <1>2, <1>3
  <2> QED BY <2>1, <2>2 DEF T
<1>5. ASSUME NEW i \in 1..n + 1, NEW j \in 1..n + 1, m[i] = m[j] PROVE i = j
  <2>1. CASE i \in 1..n /\ j \in 1..n
    BY <1>1, <1>2, <1>3, <1>5, <2>1 DEF LineOf
  <2>2. CASE i = n + 1 /\ j \in 1..n
    BY <1>2, <1>3, <1>5, <2>2
  <2>3. CASE j = n + 1 /\ i \in 1..n
    BY <1>2, <1>3, <1>5, <2>3
  <2> QED BY <2>1, <2>2, <2>3
<1>6. \A i, j \in 1..Len(m) : m[i] = m[j] => i = j
  BY <1>2, <1>3, <1>5
<1> QED BY <1>2, <1>3, <1>4, <1>6 DEF LineOf, T

LEMMA LineShrinks ==
  ASSUME NEW S, NEW l, LineOf(l, S), l # <<>>, NEW o, Head(l) = o
  PROVE  LineOf(Tail(l), S \ {o})
<1>0. l \in Seq(S)
  BY DEF LineOf
<1>1. PICK n \in Nat : n = Len(l) /\ n >= 1 /\ l[1] = o
  BY <1>0, EmptySeq, HeadTailProperties
<1>2. PICK t : t = Tail(l)
  OBVIOUS
<1>3. t \in Seq(S) /\ Len(t) = n - 1 /\ \A i \in 1..n - 1 : t[i] = l[i + 1]
  BY <1>0, <1>1, <1>2, HeadTailProperties
<1>4. \A i, j \in 1..n : l[i] = l[j] => i = j
  BY <1>1 DEF LineOf
<1>5. ASSUME NEW i \in 1..n - 1 PROVE t[i] \in S \ {o}
  <2>1. i + 1 \in 1..n /\ 1 \in 1..n /\ i + 1 # 1
    BY <1>1
  <2>2. l[i + 1] # o
    BY <1>1, <1>4, <2>1
  <2>3. t[i] \in S
    BY <1>3, ElementOfSeq
  <2> QED BY <1>3, <2>2, <2>3
<1>6. t \in Seq(S \ {o})
  BY <1>1, <1>3, <1>5, IsASeq
<1>7. ASSUME NEW p \in S \ {o} PROVE \E i \in 1..Len(t) : t[i] = p
  <2>1. PICK i \in 1..n : l[i] = p
    BY <1>1, <1>7 DEF LineOf
  <2>2. i # 1 /\ i - 1 \in 1..n - 1 /\ (i - 1) + 1 = i
    BY <1>1, <1>7, <2>1
  <2>3. t[i - 1] = p
    BY <1>3, <2>1, <2>2
  <2> QED BY <1>3, <2>2, <2>3
<1>8. ASSUME NEW i \in 1..n - 1, NEW j \in 1..n - 1, t[i] = t[j] PROVE i = j
  <2>1. i + 1 \in 1..n /\ j + 1 \in 1..n /\ l[i + 1] = l[j + 1]
    BY <1>1, <1>3, <1>8
  <2> QED BY <1>1, <1>4, <2>1
<1> QED BY <1>2, <1>3, <1>6, <1>7, <1>8 DEF LineOf

\* Who takes a step gets in line, or is its head and leaves it, or stays there.
LEMMA StepInLine ==
  ASSUME IInv, NEW o \in Ops, Step(o)
  PROVE  /\ \A q \in Ops : q # o => op'[q] = op[q]
         /\ \/ /\ op[o].pc = "enter" /\ op'[o].pc = "wait" /\ lock' = Append(lock, o)
            \/ /\ Holds(o) /\ op[o].pc \notin {"idle", "enter"} /\ op'[o].pc = "idle"
               /\ lock' = Tail(lock)
            \/ /\ op[o].pc \notin {"idle", "enter"} /\ op'[o].pc \notin {"idle", "enter"}
               /\ lock' = lock
<1>0. op \in [Ops -> Operation] /\ lock \in Seq(Ops) /\ file \in Content /\ Packaged /\ Serial
  BY DEF IInv, TypeOK
<1>1. CASE Enter(o)
  BY <1>0, <1>1, GotoFacts DEF Enter, At, Points
<1>2. CASE ~Enter(o)
  <2>1. Holds(o) /\ op[o].pc \notin {"idle", "enter"}
    BY <1>0, <1>2 DEF Step, Read, Backup, WriteTemp, Rename, DropBackup, Recover, At,
                      Serial, InWrite
  <2>2. CASE Answer(o)
    <3>1. op'[o].pc = "idle" /\ \A q \in Ops : q # o => op'[q] = op[q]
      BY <1>0, <2>2, AnswerFacts DEF NoOp
    <3> QED BY <2>1, <2>2, <3>1 DEF Answer
  <2>3. CASE /\ lock' = lock
             /\ \E p \in {"rename", "drop_backup", "recover"} : op' = Goto(o, p)
    BY <1>0, <2>1, <2>3, GotoFacts DEF Points
  <2>4. CASE /\ lock' = lock
             /\ op' = [op EXCEPT ![o].pc = "backup", ![o].next = Result(o, file.servers)]
    <3>1. op[o].package \in Packages
      BY <1>0, <2>1 DEF Packaged, At
    <3>2. Result(o, file.servers) \in SUBSET Packages
      BY <1>0, <3>1, ResultType DEF Content
    <3> QED BY <1>0, <2>1, <2>4, <3>2, ReadFacts
  <2>5. CASE lock' = lock /\ op' = [op EXCEPT ![o].pc = "temp", ![o].backup = file]
    BY <1>0, <2>1, <2>5, BackupFacts
  <2> QED BY <1>2, <2>2, <2>3, <2>4, <2>5
          DEF Step, Read, Backup, WriteTemp, Rename, DropBackup, Recover
<1> QED BY <1>1, <1>2

LEMMA LineStep ==
  ASSUME IInv, LineOf(lock, Entered(op)), [Next]_vars
  PROVE  LineOf(lock', Entered(op'))
<1>0. op \in [Ops -> Operation]
  BY DEF IInv, TypeOK
<1>1. ASSUME lock' = lock, \A q \in Ops : q \in Entered(op') <=> q \in Entered(op)
      PROVE  LineOf(lock', Entered(op'))
  <2>1. Entered(op') = Entered(op)
    BY <1>1 DEF Entered
  <2> QED BY <1>1, <2>1
<1>2. ASSUME NEW o \in Ops, NEW what \in {"write", "remove"}, NEW package \in Packages,
             Begin(o, what, package)
      PROVE  LineOf(lock', Entered(op'))
  <2>1. op[o].pc = "idle" /\ op'[o].pc \in {"idle", "enter"} /\ lock' = lock
    BY <1>0, <1>2, NoOpType DEF Begin, At, Operation
  <2>2. \A q \in Ops : q # o => op'[q] = op[q]
    BY <1>2 DEF Begin
  <2> QED BY <1>1, <2>1, <2>2 DEF Entered
<1>3. ASSUME NEW o \in Ops, Step(o)
      PROVE  LineOf(lock', Entered(op'))
  <2>1. \A q \in Ops : q # o => op'[q] = op[q]
    BY <1>3, StepInLine
  <2>2. CASE op[o].pc = "enter" /\ op'[o].pc = "wait" /\ lock' = Append(lock, o)
    <3>1. o \notin Entered(op) /\ Entered(op') = Entered(op) \cup {o}
      BY <2>1, <2>2 DEF Entered
    <3> QED BY <2>2, <3>1, LineGrows
  <2>3. CASE /\ Holds(o) /\ op[o].pc \notin {"idle", "enter"} /\ op'[o].pc = "idle"
             /\ lock' = Tail(lock)
    <3>1. Entered(op') = Entered(op) \ {o}
      BY <2>1, <2>3 DEF Entered
    <3> QED BY <2>3, <3>1, LineShrinks DEF Holds
  <2>4. CASE /\ op[o].pc \notin {"idle", "enter"} /\ op'[o].pc \notin {"idle", "enter"}
             /\ lock' = lock
    BY <1>1, <2>1, <2>4 DEF Entered
  <2> QED BY <1>3, <2>2, <2>3, <2>4, StepInLine
<1>4. ASSUME NEW kind, Edit(kind)
      PROVE  LineOf(lock', Entered(op'))
  <2>1. lock' = lock /\ \A q \in Ops : op'[q].pc = op[q].pc
    BY <1>0, <1>4, EditFacts DEF Edit
  <2> QED BY <1>1, <2>1 DEF Entered
<1>5. CASE Crash
  <2>1. lock' = <<>> /\ Entered(op') = {}
    BY <1>5 DEF Crash, Entered, NoOp
  <2> QED BY <2>1, EmptySeq DEF LineOf
<1>6. CASE UNCHANGED vars
  BY <1>6 DEF vars
<1> QED BY <1>2, <1>3, <1>4, <1>5, <1>6 DEF Next

\* The lock is never left behind, and nobody who waits for it is forgotten: those in
\* line are the operations that have got in line and have no answer yet, each
\* once, and who is past the wait is its head.
NobodyIsForgotten ==
  /\ LineOf(lock, Entered(op))
  /\ \A o \in Ops : InWrite(o) => Holds(o)

\* However operations fail or are refused, their finally lets the next one in line go
\* on (the safety half of EveryOperationAnswered).
THEOREM TheLineMovesOn == Spec => []NobodyIsForgotten
<1>1. Init => LineOf(lock, Entered(op))
  <2> SUFFICES ASSUME Init PROVE LineOf(lock, Entered(op))
    OBVIOUS
  <2>1. lock = <<>> /\ Entered(op) = {}
    BY DEF Init, Entered, NoOp
  <2> QED BY <2>1, EmptySeq DEF LineOf
<1>2. IInv /\ LineOf(lock, Entered(op)) /\ [Next]_vars => LineOf(lock, Entered(op))'
  BY LineStep
<1>3. IInv /\ LineOf(lock, Entered(op)) => NobodyIsForgotten
  BY DEF IInv, Serial, NobodyIsForgotten
<1> QED BY <1>1, <1>2, <1>3, Reachable, PTL DEF Spec
=============================================================================
