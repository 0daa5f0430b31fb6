-------------------------- MODULE MCEventIngestion --------------------------
(* Instances of EventIngestion for TLC. *)
EXTENDS EventIngestion, TLC

CONSTANTS q1, q2, e1, e2, e3, e4

TwoRequests == {q1, q2}

\* e2 is e1 with another payload; e3 is another event under the same key; e4 is the
\* event of e1 sent under another key.
FourEvents == {e1, e2, e3, e4}
FourIds    == [e \in FourEvents |-> IF e = e3 THEN 2 ELSE 1]
FourKeys   == [e \in FourEvents |-> IF e = e4 THEN "k2" ELSE "k1"]
FourHashes == [e \in FourEvents |-> IF e = e2 THEN e1 ELSE e]
=============================================================================
