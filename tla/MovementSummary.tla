---------------------------- MODULE MovementSummary ----------------------------
(***************************************************************************)
(* The two scripts that read the daily status logs of a greenhouse and say *)
(* when its vents began to open or to close.  A log is the sequence of its *)
(* readable lines in the order of their time stamps.  A movement is looked *)
(* for line by line, and what the line before said decides whether one     *)
(* begins.  A text is written for the class of texts it belongs to: what   *)
(* the scripts look for in it.                                             *)
(***************************************************************************)
EXTENDS Naturals, Sequences, FiniteSets

NoDirection == "none"

-----------------------------------------------------------------------------
(* Greenhouse 2, of one zone                                               *)

\* The level is a temperature; 0 stands for a text that is no number.
NoLevel == 0

\* What the text of a state says of the direction: "opened" and "pulling tight" are no
\* direction here and are one in a message.
StateDirection(text) ==
  CASE text = "opening" -> "OPEN" [] text = "closing" -> "CLOSE" [] OTHER -> NoDirection

MessageDirection(text) ==
  CASE text \in {"opening", "opened"} -> "OPEN"
    [] text \in {"closing", "closed", "pulling tight"} -> "CLOSE"
    [] OTHER -> NoDirection

LevelDirection(before, level) ==
  IF NoLevel \in {before, level} \/ before = level THEN NoDirection
  ELSE IF level > before THEN "OPEN" ELSE "CLOSE"

\* The state is asked first, then the message, then the level.
Trigger(line, before) ==
  IF StateDirection(line.state) # NoDirection THEN "STATE"
  ELSE IF MessageDirection(line.message) # NoDirection THEN "MESSAGE"
  ELSE IF LevelDirection(before, line.level) # NoDirection THEN "LEVEL_DELTA" ELSE "none"

DirectionBy(trigger, line, before) ==
  CASE trigger = "STATE" -> StateDirection(line.state)
    [] trigger = "MESSAGE" -> MessageDirection(line.message)
    [] trigger = "LEVEL_DELTA" -> LevelDirection(before, line.level)
    [] OTHER -> NoDirection

NothingBefore == [direction |-> NoDirection, state |-> "", level |-> NoLevel, starts |-> <<>>]

\* Mutant of SingleBegins: a turn begins nothing.
SingleBeginsAfterPause(trigger, direction, line, previous) ==
  /\ direction # NoDirection
  /\ \/ previous.direction = NoDirection
     \/ trigger = "STATE" /\ line.state # previous.state

SingleBegins(trigger, direction, line, previous) ==
  /\ direction # NoDirection
  /\ \/ previous.direction = NoDirection
     \/ direction # previous.direction
     \/ trigger = "STATE" /\ line.state # previous.state

SingleStep(previous, line, i) ==
  LET trigger == Trigger(line, previous.level)
      direction == DirectionBy(trigger, line, previous.level)
  IN  [direction |-> direction, state |-> line.state, level |-> line.level,
       starts |-> IF SingleBegins(trigger, direction, line, previous)
                  THEN Append(previous.starts, [line |-> i, zone |-> 1, direction |-> direction])
                  ELSE previous.starts]

\* What is known after each line.
SingleScan(log) ==
  LET upTo[i \in 0 .. Len(log)] ==
        IF i = 0 THEN NothingBefore ELSE SingleStep(upTo[i - 1], log[i], i)
  IN  upTo

SingleStarts(log) == SingleScan(log)[Len(log)].starts

-----------------------------------------------------------------------------
(* Greenhouse 1, of two zones                                              *)

OpenCommands == {"STEP_OPEN", "FULL_OPEN"}
CloseCommands == {"STEP_CLOSE", "FULL_CLOSE", "EXTRA_CLOSE", "STARTUP_CLOSE"}

\* The active command, and only without one the text of the state.
ClassifyDirection(zone) ==
  CASE zone.command \in OpenCommands -> "OPEN"
    [] zone.command \in CloseCommands -> "CLOSE"
    [] zone.state = "opening" -> "OPEN"
    [] zone.state \in {"closing", "pulling tight"} -> "CLOSE"
    [] OTHER -> NoDirection

NoMovement == [command |-> "", direction |-> NoDirection]

\* Mutant of Remembered: a start that is left out is forgotten.
RememberedUnlessSkipped(zone, previous, skipped) ==
  IF skipped THEN previous
  ELSE IF ClassifyDirection(zone) = NoDirection THEN NoMovement
  ELSE [command |-> zone.command, direction |-> ClassifyDirection(zone)]

\* What is remembered of a zone's line for the next.
Remembered(zone, previous, skipped) ==
  IF ClassifyDirection(zone) = NoDirection THEN NoMovement
  ELSE [command |-> zone.command, direction |-> ClassifyDirection(zone)]

\* Mutant of Begins: another command goes on with the movement.
BeginsAfterPause(zone, previous) ==
  /\ ClassifyDirection(zone) # NoDirection
  /\ previous.direction = NoDirection

Begins(zone, previous) ==
  /\ ClassifyDirection(zone) # NoDirection
  /\ previous.direction = NoDirection \/ zone.command # previous.command

\* One zone of one line.
DualStep(sofar, line, z, i, skipStartup) ==
  LET zone == line[z]
      begins == Begins(zone, sofar.previous[z])
      skipped == begins /\ skipStartup /\ zone.command = "STARTUP_CLOSE"
  IN  [previous |-> [sofar.previous EXCEPT ![z] = Remembered(zone, @, skipped)],
       starts |-> IF begins /\ ~skipped
                  THEN Append(sofar.starts, [line |-> i, zone |-> z, command |-> zone.command,
                                             direction |-> ClassifyDirection(zone)])
                  ELSE sofar.starts]

\* One line; zones is all of them, or the one that is asked for.
DualLine(sofar, line, i, zones, skipStartup) ==
  LET first == IF 1 \in zones THEN DualStep(sofar, line, 1, i, skipStartup) ELSE sofar
  IN  IF 2 \in zones THEN DualStep(first, line, 2, i, skipStartup) ELSE first

NoMovements == [previous |-> [z \in 1 .. 2 |-> NoMovement], starts |-> <<>>]

DualScan(log, zones, skipStartup) ==
  LET upTo[i \in 0 .. Len(log)] ==
        IF i = 0 THEN NoMovements
        ELSE DualLine(upTo[i - 1], log[i], i, zones, skipStartup)
  IN  upTo

DualStarts(log, zones, skipStartup) == DualScan(log, zones, skipStartup)[Len(log)].starts
=============================================================================
