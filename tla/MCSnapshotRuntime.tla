-------------------------- MODULE MCSnapshotRuntime --------------------------
(* Instances of SnapshotRuntime for TLC.                                      *)
EXTENDS SnapshotRuntime

\* Which devices change, and how often.
Only(changing, times) == [p \in Parts |-> IF p \in changing THEN times ELSE 0]
G2T3Once == Only({"g2", "t3"}, 1)
G1Once == Only({"g1"}, 1)
=============================================================================
