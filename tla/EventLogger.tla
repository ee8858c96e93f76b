----------------------------- MODULE EventLogger -----------------------------
(***************************************************************************)
(* The logger beside the dual-zone greenhouse controller.  Its only thread *)
(* polls the controller's status and its newest events over HTTP, appends  *)
(* events it has not seen and changes of the status to daily files, and    *)
(* keeps its position in state.json, which is written in place after each  *)
(* poll.  The controller numbers its events from 1 and starts over when it *)
(* restarts.  The logger may fail at every request and every write, and    *)
(* may be killed at every moment.                                          *)
(***************************************************************************)
EXTENDS Naturals, FiniteSets

CONSTANTS
  Limit,        \* events_limit: how many events a request asks for
  Status,       \* what the controller's status may be
  Unknown,      \* no status has been seen
  NoState,      \* state.json does not exist or cannot be read
  MaxRuns,      \* bound: runs of the controller
  MaxEvents,    \* bound: events in one of its runs
  MaxChanges,   \* bound: changes of its status
  MaxFaults,    \* bound: requests and writes that fail
  MaxCrashes    \* bound: times the logger is killed

ASSUME LoggerAssumption ==
  /\ {Limit, MaxRuns, MaxEvents} \subseteq Nat \ {0}
  /\ {MaxChanges, MaxFaults, MaxCrashes} \subseteq Nat
  /\ Unknown \notin Status

Events == (1 .. MaxRuns) \X (1 .. MaxEvents)
States == [seq : 0 .. MaxEvents, snapshot : Status \cup {Unknown}]
ASSUME NoStateAssumption == NoState \notin States

VARIABLES
  run,       \* of the controller
  newest,    \* the number of its newest event
  status,    \* its status
  step,      \* where main() stands
  got,       \* the status of the response in hand
  batch,     \* the events of the response in hand that are not yet looked at
  last,      \* state.last_event_seq
  snapshot,  \* state.last_transition_snapshot
  file,      \* state.json
  copies,    \* how often each event is in the daily files
  written,   \* events this process has appended
  changes,
  faults,
  crashes

device == <<run, newest, status, changes>>
response == <<got, batch>>
state == <<last, snapshot>>
logs == <<copies, written>>
vars == <<device, step, response, state, file, logs, faults, crashes>>

Steps == {"rest", "transition", "reset", "append", "open", "write", "report", "down"}

TypeOK ==
  /\ run \in 1 .. MaxRuns
  /\ newest \in 0 .. MaxEvents
  /\ status \in Status
  /\ step \in Steps
  /\ got \in Status \cup {Unknown}
  /\ batch \in [run : 1 .. MaxRuns, seqs : SUBSET (1 .. MaxEvents)]
  /\ last \in 0 .. MaxEvents
  /\ snapshot \in Status \cup {Unknown}
  /\ file \in States \cup {NoState}
  /\ copies \in [Events -> Nat]
  /\ written \subseteq Events
  /\ changes \in 0 .. MaxChanges
  /\ faults \in 0 .. MaxFaults
  /\ crashes \in 0 .. MaxCrashes

Nothing == [run |-> 1, seqs |-> {}]

Init ==
  /\ run = 1
  /\ newest = 0
  /\ status \in Status
  /\ step = "rest"
  /\ got = Unknown
  /\ batch = Nothing
  /\ last = 0
  /\ snapshot = Unknown
  /\ file = NoState
  /\ copies = [e \in Events |-> 0]
  /\ written = {}
  /\ changes = 0
  /\ faults = 0
  /\ crashes = 0

-----------------------------------------------------------------------------
(* The controller                                                          *)

EventOccurs ==
  /\ newest < MaxEvents
  /\ newest' = newest + 1
  /\ UNCHANGED <<run, status, changes, step, response, state, file, logs, faults, crashes>>

ControllerRestarts ==
  /\ run < MaxRuns
  /\ run' = run + 1
  /\ newest' = 0
  /\ UNCHANGED <<status, changes, step, response, state, file, logs, faults, crashes>>

StatusChanges ==
  /\ changes < MaxChanges
  /\ status' \in Status \ {status}
  /\ changes' = changes + 1
  /\ UNCHANGED <<run, newest, step, response, state, file, logs, faults, crashes>>

\* Mutant of Window: the numbers start at 0.
WindowFromZero == {n \in 0 .. newest : n + Limit > newest}

\* The numbers of the events that /events?limit= answers with.
Window == {n \in 1 .. newest : n + Limit > newest}

-----------------------------------------------------------------------------
(* The status poll                                                         *)

FetchStatus ==
  /\ step = "rest"
  /\ got' = status
  /\ step' = "transition"
  /\ UNCHANGED <<device, batch, state, file, logs, faults, crashes>>

\* append_transition_log: the line itself only matters in that it may fail.
LogTransition ==
  /\ step = "transition"
  /\ snapshot' = got
  /\ step' = "open"
  /\ UNCHANGED <<device, response, last, file, logs, faults, crashes>>

-----------------------------------------------------------------------------
(* The events poll                                                         *)

\* Mutant of FetchEvents: a restart is not looked for.
FetchEventsPlainly ==
  /\ step = "rest"
  /\ batch' = [run |-> run, seqs |-> Window]
  /\ step' = "append"
  /\ UNCHANGED <<device, got, state, file, logs, faults, crashes>>

\* A batch whose newest number is below the last one seen is of a new run.
FetchEvents ==
  /\ step = "rest"
  /\ batch' = [run |-> run, seqs |-> Window]
  /\ step' = IF newest \in 1 .. last - 1 THEN "reset" ELSE "append"
  /\ UNCHANGED <<device, got, state, file, logs, faults, crashes>>

\* The line that says so is written before the position is reset.
MarkReset ==
  /\ step = "reset"
  /\ last' = 0
  /\ step' = "append"
  /\ UNCHANGED <<device, response, snapshot, file, logs, faults, crashes>>

\* Mutant of Unseen: the last event counts as new.
UnseenAgain == {n \in batch.seqs : n >= last}

\* The events of the batch that are new, and the next of them: they are sorted.
Unseen == {n \in batch.seqs : n > last}
\* Mutant of Least: they are not.
AnyUnseen(n) == n \in Unseen
Least(n) == n \in Unseen /\ \A m \in Unseen : n <= m

Appended(n) ==
  /\ copies' = [copies EXCEPT ![<<batch.run, n>>] = @ + 1]
  /\ written' = written \cup {<<batch.run, n>>}

AppendEvent(n) ==
  /\ step = "append"
  /\ Least(n)
  /\ Appended(n)
  /\ last' = n
  /\ UNCHANGED <<device, step, response, snapshot, file, faults, crashes>>

BatchEnds ==
  /\ step = "append"
  /\ Unseen = {}
  /\ step' = "open"
  /\ UNCHANGED <<device, response, state, file, logs, faults, crashes>>

-----------------------------------------------------------------------------
(* state.json, failures and restarts                                       *)

\* LoggerState.save: the file is emptied and then written.
OpenState ==
  /\ step = "open"
  /\ file' = NoState
  /\ step' = "write"
  /\ UNCHANGED <<device, response, state, logs, faults, crashes>>

WriteState ==
  /\ step = "write"
  /\ file' = [seq |-> last, snapshot |-> snapshot]
  /\ step' = "rest"
  /\ UNCHANGED <<device, response, state, logs, faults, crashes>>

\* A request fails.  Some failures are not caught and end the process.
FetchFails ==
  /\ step = "rest"
  /\ faults < MaxFaults
  /\ step' \in {"report", "down"}
  /\ faults' = faults + 1
  /\ UNCHANGED <<device, response, state, file, logs, crashes>>

\* Mutant of WriteFails: the position moves before the line is written.
WriteFailsAhead ==
  /\ faults < MaxFaults
  /\ step = "append"
  /\ \E n \in Unseen : Least(n) /\ last' = n
  /\ step' = "report"
  /\ faults' = faults + 1
  /\ UNCHANGED <<device, response, snapshot, file, logs, crashes>>

\* A write fails, and may have been made all the same.
WriteFails ==
  /\ faults < MaxFaults
  /\ \/ /\ step \in {"transition", "reset", "open", "write"}
        /\ UNCHANGED <<file, logs>>
     \/ /\ step = "append"
        /\ UNCHANGED file
        /\ \E n \in Unseen : Least(n) /\ (Appended(n) \/ UNCHANGED logs)
     \/ /\ step = "write"
        /\ file' = [seq |-> last, snapshot |-> snapshot]
        /\ UNCHANGED logs
  /\ step' = "report"
  /\ faults' = faults + 1
  /\ UNCHANGED <<device, response, state, crashes>>

\* log_fetch_error
ReportError ==
  /\ step = "report"
  /\ step' = "rest"
  /\ UNCHANGED <<device, response, state, file, logs, faults, crashes>>

\* It writes to a file as well, and nobody catches its failure.  This one is not counted
\* in faults: it only comes after a failure that is.
ReportErrorFails ==
  /\ step = "report"
  /\ step' = "down"
  /\ UNCHANGED <<device, response, state, file, logs, faults, crashes>>

Crash ==
  /\ step # "down"
  /\ crashes < MaxCrashes
  /\ step' = "down"
  /\ crashes' = crashes + 1
  /\ UNCHANGED <<device, response, state, file, logs, faults>>

\* LoggerState.__init__: without a readable file the logger starts over.
Start ==
  /\ step = "down"
  /\ step' = "rest"
  /\ last' = IF file = NoState THEN 0 ELSE file.seq
  /\ snapshot' = IF file = NoState THEN Unknown ELSE file.snapshot
  /\ got' = Unknown
  /\ batch' = Nothing
  /\ written' = {}
  /\ UNCHANGED <<device, file, copies, faults, crashes>>

-----------------------------------------------------------------------------
(* The specification                                                       *)

Work ==
  \/ LogTransition \/ MarkReset \/ BatchEnds
  \/ \E n \in 1 .. MaxEvents : AppendEvent(n)
  \/ OpenState \/ WriteState \/ ReportError \/ Start

Next ==
  \/ EventOccurs \/ ControllerRestarts \/ StatusChanges
  \/ FetchStatus \/ FetchEvents \/ Work
  \/ FetchFails \/ WriteFails \/ ReportErrorFails \/ Crash

Spec == Init /\ [][Next]_vars

\* The thread runs, systemd restarts it, and both polls come due again and again.
Fairness == WF_vars(Work) /\ SF_vars(FetchStatus) /\ SF_vars(FetchEvents)

FairSpec == Spec /\ Fairness

-----------------------------------------------------------------------------
(* Properties                                                              *)

Logged(e) == copies[e] > 0

\* While the logger runs, it leaves no hole behind: between an event it appended
\* and its position there is no event of that run that the controller still has and
\* that was not appended, whatever failed in between and whether or not a restart of
\* the controller was noticed.
NoHole ==
  \A i \in 1 .. MaxEvents, k \in Window :
    /\ <<run, i>> \in written
    /\ i < k
    /\ k <= last
    => <<run, k>> \in written

\* Only a failure or a crash makes the logger append an event again, and each of them
\* once: otherwise a batch that is fetched again, a reset that is noticed, or a
\* position that is read back would repeat lines without end.
CopiesBounded ==
  \A e \in Events : copies[e] <= 1 + faults + crashes

\* The position on file names an event that is in the daily files: it is saved after
\* the appends, so a crash may repeat events but not lose those up to the position.
StoredIsLogged ==
  file # NoState /\ file.seq > 0 =>
    \E r \in 1 .. MaxRuns : Logged(<<r, file.seq>>)

\* When the controller has come to rest, the position follows: state.json holds its
\* newest number and its status whenever it is not just being written, over failures,
\* crashes, restarts and half-written files.
CatchesUp ==
  <>[](/\ newest > 0 => last = newest
       /\ snapshot = status
       /\ step # "write" => file = [seq |-> last, snapshot |-> snapshot])
=============================================================================
