---------------------------- MODULE OutboxQueue ----------------------------
(***************************************************************************)
(* What ingestion_outbox promises until one of its statements fails: an    *)
(* item is put in once; it is taken out by one worker at a time; it is     *)
(* done only after it has been handled, and then for good; what is given   *)
(* up stays given up until an operator revives it, which leaves a record.  *)
(* A taken item may stay taken for ever: nothing returns it if its worker  *)
(* is gone.                                                                *)
(***************************************************************************)
EXTENDS Naturals

CONSTANT Items

VARIABLES
  phase,     \* "absent", "ready", "taken", "done" or "dead"
  handled,   \* items whose downstream effect is known to have happened
  revivals,  \* how often an operator has revived the item
  broken     \* a statement has failed, and nothing is promised any more

qvars == <<phase, handled, revivals, broken>>

QInit ==
  /\ phase = [i \in Items |-> "absent"]
  /\ handled = {}
  /\ revivals = [i \in Items |-> 0]
  /\ broken = FALSE

\* The items of S go from one of the given phases to another.
Move(S, from, to) ==
  /\ \A i \in S : phase[i] \in from
  /\ phase' = [i \in Items |-> IF i \in S THEN to ELSE phase[i]]

Put(i)    == Move({i}, {"absent"}, "ready") /\ UNCHANGED <<handled, revivals>>
Take(S)   == Move(S, {"ready"}, "taken") /\ UNCHANGED <<handled, revivals>>
Return(i) == Move({i}, {"taken"}, "ready") /\ UNCHANGED <<handled, revivals>>
GiveUp(i) == Move({i}, {"taken"}, "dead") /\ UNCHANGED <<handled, revivals>>

Finish(i) ==
  /\ i \in handled
  /\ Move({i}, {"taken"}, "done")
  /\ UNCHANGED <<handled, revivals>>

\* Only who has taken the item handles it.
Handle(i) ==
  /\ phase[i] = "taken"
  /\ handled' = handled \cup {i}
  /\ UNCHANGED <<phase, revivals>>

Revive(S) ==
  /\ Move(S, {"dead"}, "ready")
  /\ revivals' = [i \in Items |-> IF i \in S THEN revivals[i] + 1 ELSE revivals[i]]
  /\ UNCHANGED handled

QNext ==
  \/ /\ UNCHANGED broken
     /\ \/ \E i \in Items : Put(i) \/ Return(i) \/ GiveUp(i) \/ Finish(i) \/ Handle(i)
        \/ \E S \in SUBSET Items : Take(S) \/ Revive(S)
  \/ broken'

Spec == QInit /\ [][QNext]_qvars
=============================================================================
