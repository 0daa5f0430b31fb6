------------------------------ MODULE ScopeFile ------------------------------
(***************************************************************************)
(* One scope file (.vscode/mcp.json and its like) and the operations of    *)
(* the copilot adapter on it (apps/copilot-vscode-adapter/src/index.ts):   *)
(* write_entry and remove_entry of several packages at the same time in    *)
(* one process, serialised by withScopeLock, while the user may edit the   *)
(* file, file operations may fail and the process may be killed.           *)
(*                                                                         *)
(* One action is what happens between two awaits; the reads that make up   *)
(* readScopeFile, and those that make the backup, are one action each.     *)
(***************************************************************************)
EXTENDS Integers, Sequences, FiniteSets

CONSTANTS
  Ops,        \* slots for operations in flight together
  Packages,
  MaxOps,     \* bound: operations begun
  MaxFaults,  \* bound: failing file operations
  MaxEdits,   \* bound: edits by the user
  MaxCrashes  \* bound: killed processes

ASSUME ScopeFileAssumption ==
  /\ MaxOps \in Nat /\ MaxFaults \in Nat /\ MaxEdits \in Nat /\ MaxCrashes \in Nat

VARIABLES
  file,   \* what is in the scope file
  op,     \* the operations in flight
  lock,   \* scopeLocks: who holds the lock, and after it who waits for it
  acked,  \* history: the entries the answers so far promise
  begun, faults, edits, crashes   \* what has been used of the bounds

budget == <<begun, edits, crashes>>
vars   == <<file, op, lock, acked, begun, faults, edits, crashes>>

(***************************************************************************)
(* State                                                                   *)
(***************************************************************************)
\* A file: absent, empty, not JSON, somebody else's, or managed by forge.
Kinds   == {"missing", "empty", "invalid", "foreign", "managed"}
Content == [kind : Kinds, servers : SUBSET Packages]
Plain(kind)      == [kind |-> kind, servers |-> {}]
Managed(servers) == [kind |-> "managed", servers |-> servers]
NoFile           == Plain("missing")

\* daemon_owned of what readScopeFile returns.
Owned(content) == content.kind \in {"missing", "empty", "managed"}

Points    == {"idle", "enter", "wait", "backup", "temp", "rename", "drop_backup", "recover"}
Operation == [pc : Points, what : {"write", "remove"}, package : Packages \cup {"none"},
              next : SUBSET Packages, backup : Content, stale : BOOLEAN]
NoOp == [pc |-> "idle", what |-> "write", package |-> "none", next |-> {},
         backup |-> NoFile, stale |-> FALSE]

At(o, point)   == op[o].pc = point
Goto(o, point) == [op EXCEPT ![o].pc = point]
Holds(o)       == lock # <<>> /\ Head(lock) = o

\* The entries after the operation.
Result(o, servers) == IF op[o].what = "write" THEN servers \cup {op[o].package}
                                              ELSE servers \ {op[o].package}

Init ==
  /\ file \in {NoFile, Plain("empty"), Managed({})}
  /\ op = [o \in Ops |-> NoOp]
  /\ lock = <<>>
  /\ acked = {}
  /\ begun = 0 /\ faults = 0 /\ edits = 0 /\ crashes = 0

Fault == faults < MaxFaults /\ faults' = faults + 1

AnswerHolding(o) ==                                                     \* mutant
  /\ op' = [op EXCEPT ![o] = NoOp]
  /\ lock' = IF Holds(o) /\ op[o].pc # "recover" THEN Tail(lock) ELSE lock
\* The operation is answered, by the finally of withScopeLock if it holds the lock.
Answer(o) ==
  /\ op' = [op EXCEPT ![o] = NoOp]
  /\ lock' = IF Holds(o) THEN Tail(lock) ELSE lock

(***************************************************************************)
(* write_entry and remove_entry                                            *)
(***************************************************************************)
\* The scope is discovered, and refused at once if the file is not daemon-owned;
\* the lifecycle service calls with such a descriptor a while later.
Begin(o, what, package) ==
  /\ At(o, "idle")
  /\ begun < MaxOps /\ begun' = begun + 1
  /\ op' = IF Owned(file)
           THEN [op EXCEPT ![o] = [NoOp EXCEPT !.pc = "enter", !.what = what,
                                               !.package = package]]
           ELSE op
  /\ UNCHANGED <<file, lock, acked, faults, edits, crashes>>

\* withScopeLock: get in line behind the previous promise.
Enter(o) ==
  /\ At(o, "enter")
  /\ op' = Goto(o, "wait")
  /\ lock' = Append(lock, o)
  /\ UNCHANGED <<file, acked, faults, budget>>

ReadUnchecked(o) ==                                                     \* mutant
  /\ At(o, "wait") /\ Holds(o)
  /\ op' = [op EXCEPT ![o].pc = "backup", ![o].next = Result(o, file.servers)]
  /\ UNCHANGED <<file, lock, acked, faults, budget>>
\* readScopeFile and assertMutableScopeOwnership.  A removal that has nothing to
\* remove is answered here.
Read(o) ==
  /\ At(o, "wait") /\ Holds(o)
  /\ \/ /\ Owned(file)
        /\ op[o].what = "remove" => op[o].package \in file.servers
        /\ op' = [op EXCEPT ![o].pc = "backup", ![o].next = Result(o, file.servers)]
        /\ UNCHANGED <<lock, acked, faults>>
     \/ /\ Owned(file) /\ op[o].what = "remove" /\ op[o].package \notin file.servers
        /\ Answer(o)
        /\ acked' = Result(o, acked)
        /\ UNCHANGED faults
     \/ ~Owned(file) /\ Answer(o) /\ UNCHANGED <<acked, faults>>
     \/ Fault /\ Answer(o) /\ UNCHANGED acked
  /\ UNCHANGED <<file, budget>>

(***************************************************************************)
(* writeFileAtomically                                                     *)
(***************************************************************************)
\* A copy of the file as it is now; its failure is not caught.
Backup(o) ==
  /\ At(o, "backup")
  /\ \/ op' = [op EXCEPT ![o].pc = "temp", ![o].backup = file] /\ UNCHANGED <<lock, faults>>
     \/ Fault /\ Answer(o)
  /\ UNCHANGED <<file, acked, budget>>

\* The temporary file is opened, written, synced and closed: nobody else knows it.
WriteTemp(o) ==
  /\ At(o, "temp")
  /\ \/ op' = Goto(o, "rename") /\ UNCHANGED faults
     \/ Fault /\ op' = Goto(o, "recover")
  /\ UNCHANGED <<file, lock, acked, budget>>

Rename(o) ==
  /\ At(o, "rename")
  /\ \/ file' = Managed(op[o].next) /\ op' = Goto(o, "drop_backup") /\ UNCHANGED faults
     \/ Fault /\ op' = Goto(o, "recover") /\ UNCHANGED file
  /\ UNCHANGED <<lock, acked, budget>>

\* With no backup to remove nothing can fail any more.
DropBackup(o) ==
  /\ At(o, "drop_backup")
  /\ \/ Answer(o) /\ acked' = Result(o, acked) /\ UNCHANGED faults
     \/ /\ op[o].backup # NoFile
        /\ Fault
        /\ op' = Goto(o, "recover")
        /\ UNCHANGED <<lock, acked>>
  /\ UNCHANGED <<file, budget>>

RecoverNothing(o) ==                                                    \* mutant
  /\ At(o, "recover")
  /\ Answer(o)
  /\ UNCHANGED <<file, acked, faults, budget>>
\* The catch block: the backup, if there is one, takes the place of the file.  When
\* that fails too the caller is told that the rollback is not clean, and what
\* the file holds is anybody's guess.
Recover(o) ==
  /\ At(o, "recover")
  /\ \/ /\ file' = IF op[o].backup = NoFile THEN file ELSE op[o].backup
        /\ UNCHANGED <<acked, faults>>
     \/ /\ op[o].backup # NoFile
        /\ Fault
        /\ acked' = file.servers
        /\ UNCHANGED file
  /\ Answer(o)
  /\ UNCHANGED budget

(***************************************************************************)
(* The user and the process                                                *)
(***************************************************************************)
InWrite(o) == op[o].pc \in {"backup", "temp", "rename", "drop_backup", "recover"}

\* The user edits the file with another tool.
Edit(kind) ==
  /\ edits < MaxEdits /\ edits' = edits + 1
  /\ file' = Plain(kind)
  /\ acked' = {}
  /\ op' = [o \in Ops |-> [op[o] EXCEPT !.stale = InWrite(o)]]
  /\ UNCHANGED <<lock, begun, faults, crashes>>

\* The process is killed; a promise is only as good as what it has left behind.
Crash ==
  /\ \E o \in Ops : ~At(o, "idle")
  /\ crashes < MaxCrashes /\ crashes' = crashes + 1
  /\ op' = [o \in Ops |-> NoOp]
  /\ lock' = <<>>
  /\ acked' = file.servers
  /\ UNCHANGED <<file, begun, faults, edits>>

Step(o) ==
  \/ Enter(o)
  \/ Read(o)
  \/ Backup(o)
  \/ WriteTemp(o)
  \/ Rename(o)
  \/ DropBackup(o)
  \/ Recover(o)

Next ==
  \/ \E o \in Ops, what \in {"write", "remove"}, package \in Packages :
       Begin(o, what, package)
  \/ \E o \in Ops : Step(o)
  \/ \E kind \in Kinds \ {"managed"} : Edit(kind)
  \/ Crash

Spec == Init /\ [][Next]_vars

\* The event loop gets a file operation and its continuation done; a promise that
\* is resolved resumes who waits for it.
Fairness == \A o \in Ops : WF_vars(Step(o))

LiveSpec == Spec /\ Fairness

(***************************************************************************)
(* Properties                                                              *)
(***************************************************************************)
TypeOK ==
  /\ file \in Content
  /\ op \in [Ops -> Operation]
  /\ lock \in Seq(Ops)
  /\ acked \subseteq Packages
  /\ begun \in 0..MaxOps /\ faults \in 0..MaxFaults
  /\ edits \in 0..MaxEdits /\ crashes \in 0..MaxCrashes

\* At every instant, and so wherever a process is killed, the scope file is whole
\* and holds what the answers so far promise, or that with the one operation
\* in progress carried out: no entry of a concurrent operation is lost, a failed
\* write leaves no trace, and a reader, who takes no lock, never sees half a file.
\* (adapter test "serializes concurrent writes so entries are not lost".)
OldOrNew ==
  /\ file.kind \in Kinds
  /\ edits = 0 =>
       \/ file.servers = acked
       \/ \E o \in Ops : Holds(o) /\ file.servers = Result(o, acked)

\* A file that is not daemon-owned is replaced only by an operation that had found
\* it daemon-owned before the user edited it: the window between the check and the
\* rename, or the restoring rename, and nothing else.
ForeignIsLeftAlone ==
  [][edits' = edits /\ ~Owned(file) /\ file' # file => \E o \in Ops : op[o].stale]_vars

\* Every operation is answered: a failing one does not keep the lock, and nobody is
\* overtaken for ever.
EveryOperationAnswered == \A o \in Ops : ~At(o, "idle") ~> At(o, "idle")

=============================================================================
