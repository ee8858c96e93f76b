--------------------------- MODULE SnapshotContract ---------------------------
(***************************************************************************)
(* What the app may take the packets for, however many threads make them   *)
(* at the same time: one snapshot is taken at a time, and until its packet *)
(* is sealed nothing but greenhouse 2, which reports by itself, changes of *)
(* what is in it.  Every snapshot that is taken gets the next number, and  *)
(* every packet, also one of another kind, the next one of the envelopes.  *)
(***************************************************************************)
EXTENDS Naturals

CONSTANTS
  MaxNumber,   \* numbers stop here; with 0 what is sealed is not looked at
  NoNode,      \* nothing is known of the temperature node
  NoSnapshot   \* nothing has been sealed

VARIABLES
  g2,          \* what greenhouse 2 has reported
  node,        \* what is known of the temperature node
  number,      \* of the snapshot taken last
  envelope,    \* the number of the envelope sealed last
  open,        \* a snapshot is taken and not sealed yet
  sealed       \* the snapshot sealed last, and what its alerts are about

svars == <<g2, node, number, envelope, open, sealed>>

Bump(n) == IF n < MaxNumber THEN n + 1 ELSE n

Init ==
  /\ g2 = 0
  /\ node = NoNode
  /\ number = 0
  /\ envelope = 0
  /\ open = FALSE
  /\ sealed = NoSnapshot

\* Greenhouse 2 reports, never something older.
Report ==
  /\ g2' >= g2
  /\ UNCHANGED <<node, number, envelope, open, sealed>>

\* A snapshot is taken, with what the node answered or with what was known of it.
Take ==
  /\ ~open
  /\ open' = TRUE
  /\ number' = Bump(number)
  /\ UNCHANGED <<g2, envelope, sealed>>

\* What it shows of greenhouse 2 is not older than in the packet before; what is newer may
\* have come too late for it and in time for the alerts.
Seal ==
  /\ open
  /\ open' = FALSE
  /\ envelope' = Bump(envelope)
  /\ \/ /\ MaxNumber = 0
        /\ UNCHANGED sealed
     \/ \E seen \in sealed.g2 .. g2 :
          sealed' = [seq |-> number, envelope |-> envelope', g2 |-> seen, t3 |-> node,
                     alertsG2 |-> g2, alertsT3 |-> node]
  /\ UNCHANGED <<g2, node, number>>

\* The report of a command's progress, or the configuration.
SealOther ==
  /\ envelope' = Bump(envelope)
  /\ UNCHANGED <<g2, node, number, open, sealed>>

\* The process starts again and remembers nothing.
Restart ==
  /\ g2' = 0
  /\ node' = NoNode
  /\ number' = 0
  /\ envelope' = 0
  /\ open' = FALSE
  /\ sealed' = NoSnapshot

Next == Report \/ Take \/ Seal \/ SealOther \/ Restart

Spec == Init /\ [][Next]_svars
=============================================================================
