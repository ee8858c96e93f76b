--------------------------- MODULE MCFirebaseQueue ---------------------------
(* Instances of FirebaseQueue for TLC.  The same command id may be used in    *)
(* both queues; documents are named queue/id.                                 *)
EXTENDS FirebaseQueue

OneNode == {"g1/a"}
TwoNodes == {"g1/a", "g1/b"}
CrossNodes == {"g1/a", "g2/a"}
ThreeNodes == {"g1/a", "g1/b", "g2/a"}

MCQueueOf == [n \in Node |-> IF n = "g2/a" THEN "g2" ELSE "g1"]
MCIdOf == [n \in Node |-> IF n = "g1/b" THEN "b" ELSE "a"]
MCRank == [n \in Node |-> CASE n = "g1/a" -> 2 [] n = "g1/b" -> 1 [] n = "g2/a" -> 3]

\* Every document names the node it is stored at.
OwnAddr == [n \in Node |-> n]
\* The document at g2/a says target g1: its updates go to g1/a.
CrossAddr == [n \in Node |-> IF n = "g2/a" THEN "g1/a" ELSE n]

AllValid == [n \in Node |-> "valid"]
\* g1/a has a created_at without a time zone.
OneUndated == [n \in Node |-> IF n = "g1/a" THEN "undated" ELSE "valid"]
\* g1/b cannot be built or is not allowed.
OneInvalid == [n \in Node |-> IF n = "g1/b" THEN "invalid" ELSE "valid"]

OneName == [b \in Bridge |-> "raspberry"]
OwnName == [b \in Bridge |-> b]
=============================================================================
