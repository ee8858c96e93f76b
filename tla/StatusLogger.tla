------------------------------ MODULE StatusLogger ------------------------------
(***************************************************************************)
(* The status log of a greenhouse and what its movement summary makes of   *)
(* it.  A logger polls its controller's status; each answer becomes a line *)
(* of the daily status log, then a line of the transitions log if it       *)
(* differs from the answer before, then state.json is saved.  The logger   *)
(* of greenhouse 2 (one zone) also counts the polls that fail one after    *)
(* another, and saves the count; that of greenhouse 1 (two zones) saves    *)
(* after its events poll too, which is in EventLogger.  Every request and  *)
(* every write may fail, and the logger may be killed at every moment.     *)
(***************************************************************************)
EXTENDS MovementSummary

CONSTANTS
  Status,      \* what each controller may answer
  Unknown,     \* no answer yet
  NoState,     \* state.json does not exist or cannot be read
  MaxRounds,   \* bound: polls that are answered
  MaxFaults    \* bound: requests and writes that fail, and times the logger is killed

Houses == {"g1", "g2"}

Lines(h) ==
  IF h = "g2" THEN [state : STRING, message : STRING, level : Nat]
  ELSE [1 .. 2 -> [command : STRING, state : STRING]]

ASSUME StatusAssumption ==
  /\ \A h \in Houses : \A s \in Status[h] : s \in Lines(h)
  /\ Unknown \notin UNION {Status[h] : h \in Houses}
  /\ {MaxRounds, MaxFaults} \subseteq Nat

VARIABLES
  house,      \* whose logger this is
  step,       \* where main() stands
  got,        \* the status in hand
  line,       \* its place in the log, 0 if it has none
  snapshot,   \* state.last_transition_snapshot
  failures,   \* state.consecutive_failures
  file,       \* state.json
  log,        \* the readable lines of the status log
  tail,       \* how the last line of the file ends
  moved,      \* the lines of the transitions log: the new status and where the log was then
  complete,   \* the places of lines whose poll went through to the save
  failed,     \* polls that failed since the last that went through
  rounds, faults

memory == <<snapshot, failures>>
logs == <<log, tail, moved, complete>>
bounds == <<rounds, faults>>
vars == <<house, step, got, line, memory, file, logs, failed, bounds>>

Steps == {"rest", "status", "latest", "transition", "open", "write",
          "report", "reopen", "rewrite", "down"}

TypeOK ==
  /\ house \in Houses
  /\ step \in Steps
  /\ got \in Status[house] \cup {Unknown}
  /\ line \in 0 .. Len(log)
  /\ snapshot \in Status[house] \cup {Unknown}
  /\ failures \in Nat
  /\ file = NoState \/ file \in [snapshot : Status[house] \cup {Unknown}, failures : Nat]
  /\ log \in Seq(Status[house])
  /\ tail \in {"whole", "unended", "torn"}
  /\ moved \subseteq [to : Status[house], at : 0 .. MaxRounds]
  /\ complete \subseteq 1 .. Len(log)
  /\ failed \in Nat
  /\ rounds \in 0 .. MaxRounds
  /\ faults \in 0 .. MaxFaults

Init ==
  /\ house \in Houses
  /\ step = "rest"
  /\ got = Unknown
  /\ line = 0
  /\ snapshot = Unknown
  /\ failures = 0
  /\ file = NoState
  /\ log = <<>>
  /\ tail = "whole"
  /\ moved = {}
  /\ complete = {}
  /\ failed = 0
  /\ rounds = 0
  /\ faults = 0

-----------------------------------------------------------------------------
(* A poll that goes well                                                   *)

FetchStatus ==
  /\ step = "rest"
  /\ rounds < MaxRounds
  /\ got' \in Status[house]
  /\ line' = 0
  /\ rounds' = rounds + 1
  /\ step' = "status"
  /\ UNCHANGED <<house, memory, file, logs, failed, faults>>

\* A line that follows one without its end is read together with it, as nothing.
AppendStatus ==
  /\ step = "status"
  /\ log' = CASE tail = "whole" -> Append(log, got)
              [] tail = "torn" -> log
              [] tail = "unended" -> SubSeq(log, 1, Len(log) - 1)
  /\ line' = IF tail = "whole" THEN Len(log) + 1 ELSE 0
  /\ tail' = "whole"
  /\ step' = "latest"
  /\ UNCHANGED <<house, got, memory, file, moved, complete, failed, bounds>>

\* The next line goes to the next day's file.
Midnight ==
  /\ tail # "whole"
  /\ tail' = "whole"
  /\ UNCHANGED <<house, step, got, line, memory, file, log, moved, complete, failed, bounds>>

\* latest-status.json is for others to read.
WriteLatest ==
  /\ step = "latest"
  /\ step' = "transition"
  /\ UNCHANGED <<house, got, line, memory, file, logs, failed, bounds>>

\* Mutant of Changed: only the text of the state counts.
StateChanged ==
  IF Unknown \in {got, snapshot} THEN TRUE
  ELSE IF house = "g2" THEN got.state # snapshot.state
  ELSE \E z \in 1 .. 2 : got[z].state # snapshot[z].state

\* What a status is reduced to here is what append_transition_log compares.
Changed == got # snapshot

Moved == moved \cup {[to |-> got, at |-> Len(log)]}

\* Mutant of LogTransition: an answer does not end the count of failures.
LogTransitionCounting ==
  /\ step = "transition"
  /\ moved' = IF Changed THEN Moved ELSE moved
  /\ snapshot' = got
  /\ step' = "open"
  /\ UNCHANGED <<house, got, line, failures, file, log, tail, complete, failed, bounds>>

LogTransition ==
  /\ step = "transition"
  /\ moved' = IF Changed THEN Moved ELSE moved
  /\ snapshot' = got
  /\ failures' = 0
  /\ step' = "open"
  /\ UNCHANGED <<house, got, line, file, log, tail, complete, failed, bounds>>

\* The events poll of greenhouse 1 saves as well.
PollEvents ==
  /\ house = "g1"
  /\ step = "rest"
  /\ got' = Unknown
  /\ line' = 0
  /\ step' = "open"
  /\ UNCHANGED <<house, memory, file, logs, failed, bounds>>

-----------------------------------------------------------------------------
(* state.json                                                              *)

Memory == [snapshot |-> snapshot, failures |-> failures]

\* LoggerState.save: the file is emptied and then written, after a poll or after its failure.
OpenState ==
  /\ step \in {"open", "reopen"}
  /\ file' = NoState
  /\ step' = IF step = "open" THEN "write" ELSE "rewrite"
  /\ UNCHANGED <<house, got, line, memory, logs, failed, bounds>>

WriteState ==
  /\ step \in {"write", "rewrite"}
  /\ file' = Memory
  /\ complete' = IF step = "write" /\ line # 0 THEN complete \cup {line} ELSE complete
  /\ failed' = IF step = "write" /\ got # Unknown THEN 0 ELSE failed
  /\ step' = "rest"
  /\ UNCHANGED <<house, got, line, memory, log, tail, moved, bounds>>

-----------------------------------------------------------------------------
(* Failures and restarts                                                   *)

Fault ==
  /\ faults < MaxFaults
  /\ faults' = faults + 1
  /\ failed' = failed + 1
  /\ UNCHANGED rounds

\* Failures of a request that are not among the named exceptions end the process.
FetchFails ==
  /\ step = "rest"
  /\ Fault
  /\ step' \in {"report", "down"}
  /\ UNCHANGED <<house, got, line, memory, file, logs>>

\* A write fails: nothing of it, a part of it or all of it has been made.
WriteFails ==
  /\ Fault
  /\ step' = "report"
  /\ \/ /\ step \in {"status", "latest", "transition", "open", "write"}
        /\ UNCHANGED <<file, log, tail, moved>>
     \/ /\ step = "status" /\ tail = "whole"
        /\ \/ log' = Append(log, got) /\ tail' \in {"whole", "unended"}
           \/ log' = log /\ tail' = "torn"
        /\ UNCHANGED <<file, moved>>
     \/ /\ step = "transition" /\ Changed
        /\ moved' = Moved
        /\ UNCHANGED <<file, log, tail>>
     \/ /\ step = "write"
        /\ file' = Memory
        /\ UNCHANGED <<log, tail, moved>>
  /\ UNCHANGED <<house, got, line, memory, complete>>

\* log_fetch_error: greenhouse 2 counts, writes its line and saves.
ReportError ==
  /\ step = "report"
  /\ failures' = IF house = "g2" THEN failures + 1 ELSE failures
  /\ step' = IF house = "g2" THEN "reopen" ELSE "rest"
  /\ UNCHANGED <<house, got, line, snapshot, file, logs, failed, bounds>>

\* Nobody catches a failure of these writes.
ReportErrorFails ==
  /\ step \in {"report", "reopen", "rewrite"}
  /\ Fault
  /\ file' \in IF step = "rewrite" THEN {file, Memory} ELSE {file}
  /\ step' = "down"
  /\ UNCHANGED <<house, got, line, memory, logs>>

Crash ==
  /\ step # "down"
  /\ faults < MaxFaults
  /\ faults' = faults + 1
  /\ step' = "down"
  /\ UNCHANGED <<house, got, line, memory, file, logs, failed, rounds>>

\* LoggerState.__init__
Start ==
  /\ step = "down"
  /\ snapshot' = IF file = NoState THEN Unknown ELSE file.snapshot
  /\ failures' = IF file = NoState THEN 0 ELSE file.failures
  /\ got' = Unknown
  /\ line' = 0
  /\ step' = "rest"
  /\ UNCHANGED <<house, file, logs, failed, bounds>>

Next ==
  \/ FetchStatus \/ AppendStatus \/ Midnight \/ WriteLatest \/ LogTransition \/ PollEvents
  \/ OpenState \/ WriteState
  \/ FetchFails \/ WriteFails \/ ReportError \/ ReportErrorFails \/ Crash \/ Start

Spec == Init /\ [][Next]_vars

-----------------------------------------------------------------------------
(* Properties of the logger                                                *)

Starts == IF house = "g2" THEN SingleStarts(log) ELSE DualStarts(log, {1, 2}, FALSE)

\* The two logs agree: when the summary of the status log sees a movement begin between
\* two polls that both went through, the transitions log has a line that tells of the
\* status it began with, whatever failed between the two polls and after.
StartIsTransition ==
  LET starts == Starts IN
  \A k \in 1 .. Len(starts) : LET i == starts[k].line IN
    {i - 1, i} \subseteq complete => \E t \in moved : t.to = log[i] /\ t.at \in {i - 1, i}

\* The count of failures on file and in memory never tells of more failures than there
\* were since a poll last went through: crashes may lose some, and a poll that went
\* through starts it over for good.
CountIsHonest ==
  /\ failures <= failed
  /\ file # NoState => file.failures <= failed

-----------------------------------------------------------------------------
(* Properties of the summaries                                             *)

\* The direction of line i of the log of greenhouse 2.
Direction(i) ==
  LET before == IF i = 1 THEN NoLevel ELSE log[i - 1].level
  IN  DirectionBy(Trigger(log[i], before), log[i], before)

\* A greenhouse of one zone: every line that moves is in a movement whose beginning was
\* reported with its direction, and a beginning is not reported of a line that moves
\* nowhere or says what the line before said.
SingleReported ==
  house = "g2" => LET starts == Starts IN
    /\ \A i \in 1 .. Len(log) : Direction(i) # NoDirection =>
         \E k \in 1 .. Len(starts) :
           /\ starts[k].line <= i
           /\ \A j \in starts[k].line .. i : Direction(j) = starts[k].direction
    /\ \A k \in 1 .. Len(starts) : LET i == starts[k].line IN
         /\ Direction(i) = starts[k].direction
         /\ i = 1 \/ log[i] # log[i - 1]

\* A greenhouse of two zones: every line in which a zone moves is in a movement whose
\* beginning was reported, with the zone's command.  Of a zone that moves without a
\* command it says only that it moves: a turn from opening to closing is not reported.
DualReported ==
  house = "g1" => LET starts == Starts IN
    \A i \in 1 .. Len(log), z \in 1 .. 2 : ClassifyDirection(log[i][z]) # NoDirection =>
      \E k \in 1 .. Len(starts) :
        /\ starts[k].zone = z
        /\ starts[k].line <= i
        /\ \A j \in starts[k].line .. i :
             /\ ClassifyDirection(log[j][z]) # NoDirection
             /\ log[j][z].command = starts[k].command

\* A start is chosen when the options ask for it.
Choose(sofar, start, zones, skip) ==
  IF start.zone \in zones /\ ~(skip /\ start.command = "STARTUP_CLOSE") THEN Append(sofar, start)
  ELSE sofar

\* The starts that the options ask for, in their order.
Chosen(starts, zones, skip) ==
  LET upTo[k \in 0 .. Len(starts)] ==
        IF k = 0 THEN <<>> ELSE Choose(upTo[k - 1], starts[k], zones, skip)
  IN  upTo[Len(starts)]

\* Asking for one zone, or for no movements at the controller's start, leaves those out
\* and changes nothing about the others: what is left out is still remembered.
OptionsOnlySelect ==
  house = "g1" =>
    \A zones \in {{1}, {2}, {1, 2}}, skip \in BOOLEAN :
      DualStarts(log, zones, skip) = Chosen(Starts, zones, skip)
=============================================================================
