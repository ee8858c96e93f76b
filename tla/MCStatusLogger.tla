----------------------------- MODULE MCStatusLogger -----------------------------
(* Instances of StatusLogger for TLC.                                           *)
EXTENDS StatusLogger

One(state, message, level) == [state |-> state, message |-> message, level |-> level]
Zone(command, state) == [command |-> command, state |-> state]

\* Each trigger, each direction, and a level that cannot be read.
SingleStatus ==
  {One("idle", "none", 1), One("idle", "none", 2), One("idle", "none", NoLevel),
   One("opening", "none", 1), One("closing", "opened", 2), One("idle", "opened", 1),
   One("idle", "pulling tight", 1)}

\* Commands that follow each other, one at the start, a zone that moves without one.
ZoneStatus ==
  {Zone("NONE", "idle"), Zone("NONE", "opening"), Zone("FULL_OPEN", "opening"),
   Zone("FULL_CLOSE", "closing"), Zone("STARTUP_CLOSE", "closing")}
DualStatus ==
  {[z \in 1 .. 2 |-> IF z = 1 THEN s ELSE Zone("NONE", "idle")] : s \in ZoneStatus}
    \cup {[z \in 1 .. 2 |-> IF z = 1 THEN Zone("FULL_OPEN", "opening") ELSE Zone("STEP_CLOSE", "closing")]}

MCStatus == [h \in Houses |-> IF h = "g2" THEN SingleStatus ELSE DualStatus]
=============================================================================
