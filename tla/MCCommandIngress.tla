--------------------------- MODULE MCCommandIngress ---------------------------
(* Instances of CommandIngress for TLC.                                       *)
EXTENDS CommandIngress

\* p1 and p2 carry one command in two envelopes, as when the app uses both ways in;
\* every other packet is of a kind of its own.
Twins == {"p1", "p2"}
TwinIds == [p \in Packet |-> IF p \in Twins THEN "a" ELSE p]
TwinSeqs == [p \in Packet |-> IF p = "p1" THEN 1 ELSE 2]
TwinKinds == [p \in Packet |-> IF p \in Twins THEN "command" ELSE p]

\* Every packet with a command of its own.
OwnIds == [p \in Packet |-> p]
OwnKinds == [p \in Packet |-> p]
\* The undated one has no envelope number.
MixedSeqs == [p \in Packet |-> IF p = "undated" THEN NoSeq ELSE 1]
=============================================================================
