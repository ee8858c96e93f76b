----------------------------- MODULE MCNodeDiscovery -----------------------------
(* An instance of NodeDiscovery for TLC.                                         *)
EXTENDS NodeDiscovery

CONSTANTS a1, a2, a3

\* Two addresses of one network and one of another.
TwoNets == [a \in {a1, a2, a3} |-> IF a = a3 THEN 2 ELSE 1]

\* Every device is on at first, and without a configured address the node is at a1; they
\* may move and be switched off later.
Start ==
  /\ Init
  /\ NoAddress \notin {nodeAt} \cup {houseAt[h] : h \in House}
  /\ base = NoAddress => nodeAt = a1

StartSpec == Start /\ [][Next]_vars /\ Fairness
=============================================================================
