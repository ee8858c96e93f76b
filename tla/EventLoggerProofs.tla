-------------------------- MODULE EventLoggerProofs --------------------------
(* Proofs about EventLogger, for every instance of its constants.             *)
EXTENDS EventLogger, TLAPS

-----------------------------------------------------------------------------
(* The inductive invariant                                                 *)

\* What is in hand came from the controller: of the run that is under way no number
\* is above its newest, and nothing it still has is missing below one of them.
BatchOK ==
  /\ batch.run <= run
  /\ batch.run = run =>
       \A n \in batch.seqs :
         /\ n <= newest
         /\ \A k \in Window : k <= n => k \in batch.seqs

\* What this process appended came with the batch in hand or an earlier one, and once
\* it has appended an event of the run under way, its position is of that run.
WrittenOK ==
  /\ \A r \in 1 .. MaxRuns, i \in 1 .. MaxEvents : <<r, i>> \in written => r <= batch.run
  /\ \A i \in 1 .. MaxEvents : <<run, i>> \in written => last <= newest

\* The position in memory names an event in the files, as the one on file does.
LastIsLogged == last > 0 => \E r \in 1 .. MaxRuns : Logged(<<r, last>>)

\* A position is given up only before an event of its batch's run was appended.
ResetOK ==
  step = "reset" => \A i \in 1 .. MaxEvents : <<batch.run, i>> \notin written

\* This process will not append the event again, unless a write fails.
Passed(r, n) == r < batch.run \/ (<<r, n>> \in written /\ n <= last)

\* Every copy but one is owed to a failure or a crash, and the one only to an event
\* that is passed.
CopiesOK ==
  \A r \in 1 .. MaxRuns, n \in 1 .. MaxEvents :
    /\ copies[<<r, n>>] <= faults + crashes + 1
    /\ step \in {"report", "down"} \/ ~Passed(r, n) => copies[<<r, n>>] <= faults + crashes

LoggerInv ==
  /\ TypeOK
  /\ BatchOK
  /\ WrittenOK
  /\ NoHole
  /\ LastIsLogged
  /\ StoredIsLogged
  /\ ResetOK
  /\ CopiesOK

-----------------------------------------------------------------------------
(* The steps                                                               *)

\* The invariant holds in the initial states.
LEMMA InvInit == Init => LoggerInv
<1> SUFFICES ASSUME Init PROVE LoggerInv
  OBVIOUS
<1> USE LoggerAssumption DEF Init, Nothing
<1>1. TypeOK
  BY DEF TypeOK, Steps, Events
<1>2. BatchOK /\ WrittenOK /\ ResetOK
  BY DEF BatchOK, WrittenOK, ResetOK
<1>3. NoHole /\ LastIsLogged /\ StoredIsLogged
  BY DEF NoHole, LastIsLogged, StoredIsLogged
<1>4. CopiesOK
  BY DEF CopiesOK, Events
<1> QED
  BY <1>1, <1>2, <1>3, <1>4 DEF LoggerInv

\* What the controller still has are numbers of its run.
LEMMA WindowBound ==
  ASSUME newest \in Nat, newest <= MaxEvents
  PROVE  \A k \in Window : k \in 1 .. MaxEvents /\ k <= newest
BY LoggerAssumption DEF Window

\* Types are kept.
LEMMA TypeStep == TypeOK /\ [Next]_vars => TypeOK'
<1> SUFFICES ASSUME TypeOK, [Next]_vars PROVE TypeOK'
  OBVIOUS
<1> USE LoggerAssumption DEF TypeOK, Steps
<1>1. CASE EventOccurs
  BY <1>1 DEF EventOccurs, response, state, logs
<1>2. CASE ControllerRestarts
  BY <1>2 DEF ControllerRestarts, response, state, logs
<1>3. CASE StatusChanges
  BY <1>3 DEF StatusChanges, response, state, logs
<1>4. CASE FetchStatus
  BY <1>4 DEF FetchStatus, device, state, logs
<1>5. CASE FetchEvents
  <2>1. Window \subseteq 1 .. MaxEvents
    BY WindowBound
  <2> QED
    BY <1>5, <2>1 DEF FetchEvents, device, state, logs
<1>6. CASE Work
  <2>1. CASE LogTransition
    BY <2>1 DEF LogTransition, device, response, logs
  <2>2. CASE MarkReset
    BY <2>2 DEF MarkReset, device, response, logs
  <2>3. CASE BatchEnds
    BY <2>3 DEF BatchEnds, device, response, state, logs
  <2>4. ASSUME NEW n \in 1 .. MaxEvents, AppendEvent(n) PROVE TypeOK'
    <3>1. <<batch.run, n>> \in Events
      BY DEF Events
    <3>2. copies' \in [Events -> Nat] /\ written' \subseteq Events
      BY <2>4, <3>1 DEF AppendEvent, Appended
    <3> QED
      BY <2>4, <3>2 DEF AppendEvent, device, response
  <2>5. CASE OpenState
    BY <2>5 DEF OpenState, device, response, state, logs
  <2>6. CASE WriteState
    BY <2>6 DEF WriteState, States, device, response, state, logs
  <2>7. CASE ReportError
    BY <2>7 DEF ReportError, device, response, state, logs
  <2>8. CASE Start
    BY <2>8 DEF Start, Nothing, States, device
  <2> QED
    BY <1>6, <2>1, <2>2, <2>3, <2>4, <2>5, <2>6, <2>7, <2>8 DEF Work
<1>7. CASE FetchFails
  BY <1>7 DEF FetchFails, device, response, state, logs
<1>8. CASE WriteFails
  <2>1. file' \in States \cup {NoState}
    BY <1>8 DEF WriteFails, States
  <2>2. \A n \in 1 .. MaxEvents :
          Appended(n) => copies' \in [Events -> Nat] /\ written' \subseteq Events
    BY DEF Appended, Events
  <2>3. copies' \in [Events -> Nat] /\ written' \subseteq Events
    BY <1>8, <2>2 DEF WriteFails, Least, Unseen, logs
  <2> QED
    BY <1>8, <2>1, <2>3 DEF WriteFails, device, response, state
<1>9. CASE ReportErrorFails
  BY <1>9 DEF ReportErrorFails, device, response, state, logs
<1>10. CASE Crash
  BY <1>10 DEF Crash, device, response, state, logs
<1>11. CASE UNCHANGED vars
  BY <1>11 DEF vars, device, response, state, logs
<1> QED
  BY <1>1, <1>2, <1>3, <1>4, <1>5, <1>6, <1>7, <1>8, <1>9, <1>10, <1>11 DEF Next

\* Events are pairs of a run and a number, and are counted.
LEMMA CopiesNat ==
  ASSUME TypeOK
  PROVE  /\ \A r \in 1 .. MaxRuns, n \in 1 .. MaxEvents : copies[<<r, n>>] \in Nat
         /\ {faults, crashes, newest, last, run, batch.run} \subseteq Nat
<1>1. \A r \in 1 .. MaxRuns, n \in 1 .. MaxEvents : <<r, n>> \in Events
  BY DEF Events
<1>2. \A e \in Events : copies[e] \in Nat
  BY DEF TypeOK
<1> QED
  BY <1>1, <1>2, LoggerAssumption DEF TypeOK

\* What a line in the files changes, event by event.
LEMMA AppendedAt ==
  ASSUME TypeOK, NEW n \in 1 .. MaxEvents, Appended(n),
         NEW r \in 1 .. MaxRuns, NEW m \in 1 .. MaxEvents
  PROVE  /\ r = batch.run /\ m = n => copies'[<<r, m>>] = copies[<<r, m>>] + 1
         /\ r # batch.run \/ m # n => copies'[<<r, m>>] = copies[<<r, m>>]
         /\ <<r, m>> \in written' <=> <<r, m>> \in written \/ (r = batch.run /\ m = n)
<1>1. <<r, m>> \in Events /\ <<batch.run, n>> \in Events
  BY DEF Events, TypeOK
<1>2. <<r, m>> = <<batch.run, n>> <=> r = batch.run /\ m = n
  OBVIOUS
<1>3. copies' = [copies EXCEPT ![<<batch.run, n>>] = copies[<<batch.run, n>>] + 1]
  BY DEF Appended
<1>4. copies \in [Events -> Nat]
  BY DEF TypeOK
<1>5. written' = written \cup {<<batch.run, n>>}
  BY DEF Appended
<1>6. /\ r = batch.run /\ m = n => copies'[<<r, m>>] = copies[<<r, m>>] + 1
      /\ r # batch.run \/ m # n => copies'[<<r, m>>] = copies[<<r, m>>]
  BY <1>1, <1>2, <1>3, <1>4
<1> QED
  BY <1>2, <1>5, <1>6

\* A failing write leaves the files alone, or it comes after the next line of the
\* batch or after the position.
LEMMA WriteFailsCases ==
  ASSUME TypeOK, WriteFails
  PROVE  /\ UNCHANGED <<device, response, state, crashes>>
         /\ step' = "report" /\ faults' = faults + 1
         /\ \/ UNCHANGED <<file, copies, written>>
            \/ /\ UNCHANGED file
               /\ \E n \in 1 .. MaxEvents : n \in batch.seqs /\ n > last /\ Appended(n)
            \/ /\ file' = [seq |-> last, snapshot |-> snapshot]
               /\ UNCHANGED <<copies, written>>
<1>1. \A n \in Unseen : n \in 1 .. MaxEvents /\ n \in batch.seqs /\ n > last
  BY DEF Unseen, TypeOK
<1> QED
  BY <1>1 DEF WriteFails, logs

\* The next line of a batch is its least number that is above the position.
LEMMA AppendEventFacts ==
  ASSUME TypeOK, NEW n \in 1 .. MaxEvents, AppendEvent(n)
  PROVE  /\ UNCHANGED <<device, response, snapshot, file, faults, crashes>>
         /\ step = "append" /\ step' = "append" /\ last' = n
         /\ Appended(n)
         /\ n \in batch.seqs /\ n > last
         /\ \A k \in batch.seqs : k < n => k <= last
<1>1. n \in Unseen /\ \A m \in Unseen : n <= m
  BY DEF AppendEvent, Least
<1>2. \A k \in batch.seqs : k \in Nat
  BY DEF TypeOK
<1>3. \A k \in batch.seqs : k < n => k <= last
  BY <1>1, <1>2, CopiesNat DEF Unseen
<1> QED
  BY <1>1, <1>3 DEF AppendEvent, Unseen

\* The batch in hand stays a part of what the controller had.
LEMMA BatchStep == LoggerInv /\ [Next]_vars => BatchOK'
<1> SUFFICES ASSUME LoggerInv, [Next]_vars PROVE BatchOK'
  OBVIOUS
<1> USE LoggerAssumption DEF LoggerInv, TypeOK, BatchOK
<1>1. CASE EventOccurs
  BY <1>1 DEF EventOccurs, Window, device, response, state, logs
<1>2. CASE ControllerRestarts
  BY <1>2 DEF ControllerRestarts, device, response, state, logs
<1>3. CASE FetchEvents
  BY <1>3 DEF FetchEvents, Window, device, response, state, logs
<1>4. CASE Start
  BY <1>4 DEF Start, Nothing, Window, device, response, state, logs
<1>5. ASSUME NEW n \in 1 .. MaxEvents, AppendEvent(n) PROVE BatchOK'
  BY <1>5 DEF AppendEvent, Window, device, response
<1>6. CASE StatusChanges \/ FetchStatus \/ LogTransition \/ MarkReset
         \/ BatchEnds \/ OpenState \/ WriteState \/ ReportError
         \/ FetchFails \/ WriteFails \/ ReportErrorFails \/ Crash
         \/ UNCHANGED vars
  BY <1>6 DEF Window, StatusChanges, FetchStatus, LogTransition, MarkReset,
    BatchEnds, OpenState, WriteState, ReportError, FetchFails, WriteFails, ReportErrorFails, Crash,
    vars, device, response, state, logs
<1> QED
  BY <1>1, <1>2, <1>3, <1>4, <1>5, <1>6 DEF Next, Work

\* What was appended came from a batch, and the position stays with it.
LEMMA WrittenStep == LoggerInv /\ [Next]_vars => WrittenOK'
<1> SUFFICES ASSUME LoggerInv, [Next]_vars PROVE WrittenOK'
  OBVIOUS
<1> USE LoggerAssumption DEF LoggerInv, TypeOK, WrittenOK, BatchOK
<1>1. CASE EventOccurs
  BY <1>1 DEF EventOccurs, device, response, state, logs
<1>2. CASE ControllerRestarts
  BY <1>2 DEF ControllerRestarts, device, response, state, logs
<1>3. CASE FetchEvents
  BY <1>3 DEF FetchEvents, device, response, state, logs
<1>4. CASE MarkReset
  BY <1>4 DEF MarkReset, device, response, state, logs
<1>5. CASE Start
  BY <1>5 DEF Start, device, response, state, logs
<1>6. CASE WriteFails
  <2>1. last' = last /\ run' = run /\ newest' = newest /\ batch' = batch
    BY <1>6, WriteFailsCases DEF device, response, state
  <2>2. CASE written' = written
    BY <2>1, <2>2
  <2>3. CASE \E n \in 1 .. MaxEvents : n \in batch.seqs /\ n > last /\ Appended(n)
    <3>1. PICK n \in 1 .. MaxEvents : n \in batch.seqs /\ n > last /\ Appended(n)
      BY <2>3
    <3>2. \A r \in 1 .. MaxRuns, m \in 1 .. MaxEvents :
            <<r, m>> \in written' => <<r, m>> \in written \/ r = batch.run
      BY <3>1, AppendedAt
    <3>3. batch.run = run => last <= newest
      BY <3>1
    <3>4. \A i \in 1 .. MaxEvents : <<run, i>> \in written' => last <= newest
      BY <3>2, <3>3
    <3> QED
      BY <2>1, <3>2, <3>4
  <2> QED
    BY <1>6, <2>2, <2>3, WriteFailsCases
<1>7. ASSUME NEW n \in 1 .. MaxEvents, AppendEvent(n) PROVE WrittenOK'
  <2>1. last' = n /\ run' = run /\ newest' = newest /\ batch' = batch
    BY <1>7, AppendEventFacts DEF device, response
  <2>2. \A r \in 1 .. MaxRuns, m \in 1 .. MaxEvents :
          <<r, m>> \in written' => <<r, m>> \in written \/ r = batch.run
    BY <1>7, AppendEventFacts, AppendedAt
  <2>3. n \in batch.seqs
    BY <1>7, AppendEventFacts
  <2>4. \A i \in 1 .. MaxEvents : <<run, i>> \in written' => n <= newest
    BY <2>2, <2>3
  <2> QED
    BY <2>1, <2>2, <2>4
<1>8. CASE StatusChanges \/ FetchStatus \/ LogTransition \/ BatchEnds
         \/ OpenState \/ WriteState \/ ReportError \/ FetchFails
         \/ ReportErrorFails \/ Crash
         \/ UNCHANGED vars
  BY <1>8 DEF StatusChanges, FetchStatus, LogTransition, BatchEnds, OpenState,
    WriteState, ReportError, FetchFails, ReportErrorFails, Crash,
    vars, device, response, state, logs
<1> QED
  BY <1>1, <1>2, <1>3, <1>4, <1>5, <1>6, <1>7, <1>8 DEF Next, Work

\* No step leaves a hole behind the position.
LEMMA HoleStep == LoggerInv /\ [Next]_vars => NoHole'
<1> SUFFICES ASSUME LoggerInv, [Next]_vars PROVE NoHole'
  OBVIOUS
<1> USE LoggerAssumption DEF LoggerInv, TypeOK, NoHole, WrittenOK, BatchOK
<1>1. CASE EventOccurs
  BY <1>1 DEF EventOccurs, Window, device, response, state, logs
<1>2. CASE ControllerRestarts
  BY <1>2 DEF ControllerRestarts, device, response, state, logs
<1>3. CASE FetchEvents
  BY <1>3 DEF FetchEvents, Window, device, response, state, logs
<1>4. CASE MarkReset
  BY <1>4 DEF MarkReset, Window, device, response, state, logs
<1>5. CASE Start
  BY <1>5 DEF Start, Window, device, response, state, logs
<1>6. CASE WriteFails
  <2>1. last' = last /\ run' = run /\ newest' = newest
    BY <1>6, WriteFailsCases DEF device, response, state
  <2>2. Window' = Window
    BY <2>1 DEF Window
  <2>3. CASE written' = written
    BY <2>1, <2>2, <2>3
  <2>4. CASE \E n \in 1 .. MaxEvents : n \in batch.seqs /\ n > last /\ Appended(n)
    <3>1. PICK n \in 1 .. MaxEvents : n \in batch.seqs /\ n > last /\ Appended(n)
      BY <2>4
    <3> SUFFICES ASSUME NEW i \in 1 .. MaxEvents, NEW k \in Window,
                        <<run, i>> \in written', i < k, k <= last
                 PROVE  <<run, k>> \in written'
      BY <2>1, <2>2
    <3>2. i # n
      BY <3>1, WindowBound
    <3>3. <<run, i>> \in written
      BY <3>1, <3>2, AppendedAt
    <3>4. <<run, k>> \in written
      BY <3>3
    <3> QED
      BY <3>1, <3>4, WindowBound, AppendedAt
  <2> QED
    BY <1>6, <2>3, <2>4, WriteFailsCases
<1>7. ASSUME NEW n \in 1 .. MaxEvents, AppendEvent(n) PROVE NoHole'
  <2>1. last' = n /\ run' = run /\ newest' = newest
    BY <1>7, AppendEventFacts DEF device, response
  <2>2. Window' = Window
    BY <2>1 DEF Window
  <2>3. Appended(n) /\ n \in batch.seqs /\ \A k \in batch.seqs : k < n => k <= last
    BY <1>7, AppendEventFacts
  <2> SUFFICES ASSUME NEW i \in 1 .. MaxEvents, NEW k \in Window,
                      <<run, i>> \in written', i < k, k <= n
               PROVE  <<run, k>> \in written'
    BY <2>1, <2>2
  <2>4. k \in 1 .. MaxEvents
    BY WindowBound
  <2>5. i # n
    BY <2>4
  <2>6. <<run, i>> \in written
    BY <2>3, <2>5, AppendedAt
  <2>7. batch.run = run
    BY <2>6
  <2>8. CASE k = n
    BY <2>3, <2>7, <2>8, AppendedAt
  <2>9. CASE k # n
    <3>1. k \in batch.seqs
      BY <2>3, <2>7
    <3>2. k <= last
      BY <2>3, <2>4, <2>9, <3>1
    <3>3. <<run, k>> \in written
      BY <2>6, <3>2
    <3> QED
      BY <2>3, <2>4, <3>3, AppendedAt
  <2> QED
    BY <2>8, <2>9
<1>8. CASE StatusChanges \/ FetchStatus \/ LogTransition \/ BatchEnds
         \/ OpenState \/ WriteState \/ ReportError \/ FetchFails
         \/ ReportErrorFails \/ Crash
         \/ UNCHANGED vars
  BY <1>8 DEF Window, StatusChanges, FetchStatus, LogTransition, BatchEnds,
    OpenState, WriteState, ReportError, FetchFails, ReportErrorFails, Crash,
    vars, device, response, state, logs
<1> QED
  BY <1>1, <1>2, <1>3, <1>4, <1>5, <1>6, <1>7, <1>8 DEF Next, Work

\* The position in memory names an event in the files.
LEMMA PositionStep == LoggerInv /\ [Next]_vars => LastIsLogged'
<1> SUFFICES ASSUME LoggerInv, [Next]_vars PROVE LastIsLogged'
  OBVIOUS
<1> USE LoggerAssumption DEF LoggerInv, TypeOK, LastIsLogged, StoredIsLogged, Logged
<1>1. CASE MarkReset
  BY <1>1 DEF MarkReset, device, response, state, logs
<1>2. CASE Start
  BY <1>2 DEF Start, device, response, state, logs
<1>3. CASE WriteFails
  <2>1. last' = last
    BY <1>3, WriteFailsCases DEF state
  <2>2. CASE copies' = copies
    BY <2>1, <2>2
  <2>3. CASE \E n \in 1 .. MaxEvents : n \in batch.seqs /\ n > last /\ Appended(n)
    <3>1. PICK n \in 1 .. MaxEvents : Appended(n)
      BY <2>3
    <3>2. \A r \in 1 .. MaxRuns, m \in 1 .. MaxEvents :
            copies[<<r, m>>] > 0 => copies'[<<r, m>>] > 0
      BY <3>1, CopiesNat, AppendedAt
    <3> QED
      BY <2>1, <3>2
  <2> QED
    BY <1>3, <2>2, <2>3, WriteFailsCases
<1>4. ASSUME NEW n \in 1 .. MaxEvents, AppendEvent(n) PROVE LastIsLogged'
  BY <1>4 DEF AppendEvent, Appended, Events, device, response, state, logs
<1>5. CASE EventOccurs \/ ControllerRestarts \/ StatusChanges \/ FetchStatus
         \/ FetchEvents \/ LogTransition \/ BatchEnds \/ OpenState
         \/ WriteState \/ ReportError \/ FetchFails \/ ReportErrorFails
         \/ Crash
         \/ UNCHANGED vars
  BY <1>5 DEF EventOccurs, ControllerRestarts, StatusChanges, FetchStatus,
    FetchEvents, LogTransition, BatchEnds, OpenState, WriteState, ReportError, FetchFails, ReportErrorFails, Crash,
    vars, device, response, state, logs
<1> QED
  BY <1>1, <1>2, <1>3, <1>4, <1>5 DEF Next, Work

\* The position on file names an event in the files.
LEMMA StoredStep == LoggerInv /\ [Next]_vars => StoredIsLogged'
<1> SUFFICES ASSUME LoggerInv, [Next]_vars PROVE StoredIsLogged'
  OBVIOUS
<1> USE LoggerAssumption DEF LoggerInv, TypeOK, StoredIsLogged, LastIsLogged, Logged
<1>1. CASE OpenState
  BY <1>1 DEF OpenState, device, response, state, logs
<1>2. CASE WriteState
  BY <1>2 DEF WriteState, device, response, state, logs
<1>3. CASE WriteFails
  <2>1. CASE UNCHANGED <<file, copies>>
    BY <2>1
  <2>2. CASE /\ file' = [seq |-> last, snapshot |-> snapshot]
             /\ UNCHANGED copies
    BY <2>2
  <2>3. CASE /\ UNCHANGED file
             /\ \E n \in 1 .. MaxEvents : n \in batch.seqs /\ n > last /\ Appended(n)
    <3>1. PICK n \in 1 .. MaxEvents : Appended(n)
      BY <2>3
    <3>2. \A r \in 1 .. MaxRuns, m \in 1 .. MaxEvents :
            copies[<<r, m>>] > 0 => copies'[<<r, m>>] > 0
      BY <3>1, CopiesNat, AppendedAt
    <3>3. file # NoState => file.seq \in 0 .. MaxEvents
      BY DEF States
    <3> QED
      BY <2>3, <3>2, <3>3
  <2> QED
    BY <1>3, <2>1, <2>2, <2>3, WriteFailsCases
<1>4. ASSUME NEW n \in 1 .. MaxEvents, AppendEvent(n) PROVE StoredIsLogged'
  BY <1>4 DEF AppendEvent, Appended, Events, device, response, state, logs
<1>5. CASE EventOccurs \/ ControllerRestarts \/ StatusChanges \/ FetchStatus
         \/ FetchEvents \/ LogTransition \/ MarkReset \/ BatchEnds
         \/ ReportError \/ Start \/ FetchFails \/ ReportErrorFails
         \/ Crash
         \/ UNCHANGED vars
  BY <1>5 DEF EventOccurs, ControllerRestarts, StatusChanges, FetchStatus,
    FetchEvents, LogTransition, MarkReset, BatchEnds, ReportError, Start, FetchFails, ReportErrorFails, Crash,
    vars, device, response, state, logs
<1> QED
  BY <1>1, <1>2, <1>3, <1>4, <1>5 DEF Next, Work

\* A reset is noticed only in a run of which nothing was appended.
LEMMA ResetStep == LoggerInv /\ [Next]_vars => ResetOK'
<1> SUFFICES ASSUME LoggerInv, [Next]_vars PROVE ResetOK'
  OBVIOUS
<1> USE LoggerAssumption DEF LoggerInv, TypeOK, ResetOK, WrittenOK
<1>1. CASE FetchEvents
  BY <1>1 DEF FetchEvents, device, response, state, logs
<1>2. ASSUME NEW n \in 1 .. MaxEvents, AppendEvent(n) PROVE ResetOK'
  BY <1>2 DEF AppendEvent, Appended, device, response
<1>3. CASE EventOccurs \/ ControllerRestarts \/ StatusChanges \/ FetchStatus
         \/ LogTransition \/ MarkReset \/ BatchEnds \/ OpenState
         \/ WriteState \/ ReportError \/ Start \/ FetchFails
         \/ WriteFails \/ ReportErrorFails \/ Crash
         \/ UNCHANGED vars
  BY <1>3 DEF EventOccurs, ControllerRestarts, StatusChanges, FetchStatus,
    LogTransition, MarkReset, BatchEnds, OpenState, WriteState, ReportError, Start, FetchFails, WriteFails, ReportErrorFails, Crash,
    vars, device, response, state, logs
<1> QED
  BY <1>1, <1>2, <1>3 DEF Next, Work

\* Every copy is accounted for.
LEMMA CopiesStep == LoggerInv /\ [Next]_vars => CopiesOK'
<1> SUFFICES ASSUME TypeOK, BatchOK, WrittenOK, ResetOK, CopiesOK, [Next]_vars,
                    NEW r \in 1 .. MaxRuns, NEW m \in 1 .. MaxEvents
             PROVE  /\ copies'[<<r, m>>] <= faults' + crashes' + 1
                    /\ step' \in {"report", "down"} \/ ~Passed(r, m)' =>
                         copies'[<<r, m>>] <= faults' + crashes'
  BY DEF CopiesOK, LoggerInv
<1>1. /\ copies[<<r, m>>] \in Nat
      /\ {faults, crashes, newest, last, run, batch.run} \subseteq Nat
  BY CopiesNat
<1>2. /\ copies[<<r, m>>] <= faults + crashes + 1
      /\ step \in {"report", "down"} \/ ~Passed(r, m) => copies[<<r, m>>] <= faults + crashes
  BY DEF CopiesOK
<1>3. CASE FetchEvents
  BY <1>1, <1>2, <1>3 DEF FetchEvents, BatchOK, Passed, state, logs
<1>4. CASE MarkReset
  <2>1. <<batch.run, m>> \notin written
    BY <1>4 DEF MarkReset, ResetOK
  <2>2. <<r, m>> \in written => r <= batch.run
    BY DEF WrittenOK
  <2>3. Passed(r, m) => Passed(r, m)'
    BY <1>4, <2>1, <2>2, <1>1 DEF MarkReset, Passed, response, logs
  <2> QED
    BY <1>1, <1>2, <1>4, <2>3 DEF MarkReset, logs
<1>5. CASE Start
  BY <1>1, <1>2, <1>5 DEF Start
<1>6. CASE FetchFails \/ ReportErrorFails \/ Crash
  BY <1>1, <1>2, <1>6 DEF FetchFails, ReportErrorFails, Crash, logs
<1>7. CASE WriteFails
  <2>1. faults' = faults + 1 /\ crashes' = crashes
    BY <1>7, WriteFailsCases
  <2>2. CASE copies' = copies
    BY <1>1, <1>2, <2>1, <2>2
  <2>3. CASE \E n \in 1 .. MaxEvents : n \in batch.seqs /\ n > last /\ Appended(n)
    <3>1. PICK n \in 1 .. MaxEvents : n \in batch.seqs /\ n > last /\ Appended(n)
      BY <2>3
    <3>2. CASE r = batch.run /\ m = n
      <4>1. ~Passed(r, m)
        BY <1>1, <3>1, <3>2 DEF Passed
      <4>2. copies'[<<r, m>>] = copies[<<r, m>>] + 1
        BY <3>1, <3>2, AppendedAt
      <4> QED
        BY <1>1, <1>2, <2>1, <4>1, <4>2
    <3>3. CASE r # batch.run \/ m # n
      <4>1. copies'[<<r, m>>] = copies[<<r, m>>]
        BY <3>1, <3>3, AppendedAt
      <4> QED
        BY <1>1, <1>2, <2>1, <4>1
    <3> QED
      BY <3>2, <3>3
  <2> QED
    BY <1>7, <2>2, <2>3, WriteFailsCases
<1>8. ASSUME NEW n \in 1 .. MaxEvents, AppendEvent(n)
      PROVE  /\ copies'[<<r, m>>] <= faults' + crashes' + 1
             /\ step' \in {"report", "down"} \/ ~Passed(r, m)' =>
                  copies'[<<r, m>>] <= faults' + crashes'
  <2>1. /\ UNCHANGED <<batch, faults, crashes>>
        /\ step' = "append" /\ last' = n /\ n > last /\ Appended(n)
    BY <1>8, AppendEventFacts DEF response
  <2>2. <<r, m>> \in written => <<r, m>> \in written'
    BY <2>1, AppendedAt
  <2>3. Passed(r, m) => Passed(r, m)'
    BY <1>1, <2>1, <2>2 DEF Passed
  <2>4. CASE r = batch.run /\ m = n
    <3>1. ~Passed(r, m)
      BY <1>1, <2>1, <2>4 DEF Passed
    <3>2. copies'[<<r, m>>] = copies[<<r, m>>] + 1 /\ <<r, m>> \in written'
      BY <2>1, <2>4, AppendedAt
    <3>3. Passed(r, m)'
      BY <2>1, <2>4, <3>2 DEF Passed
    <3> QED
      BY <1>1, <1>2, <2>1, <3>1, <3>2, <3>3
  <2>5. CASE r # batch.run \/ m # n
    <3>1. copies'[<<r, m>>] = copies[<<r, m>>]
      BY <2>1, <2>5, AppendedAt
    <3> QED
      BY <1>1, <1>2, <2>1, <2>3, <3>1
  <2> QED
    BY <2>4, <2>5
<1>9. CASE EventOccurs \/ ControllerRestarts \/ StatusChanges \/ FetchStatus
         \/ LogTransition \/ BatchEnds \/ OpenState \/ WriteState
         \/ ReportError \/ UNCHANGED vars
  <2>1. /\ UNCHANGED <<batch, copies, written, last, faults, crashes>>
        /\ step' \in {"report", "down"} => step \in {"report", "down"}
    BY <1>9 DEF EventOccurs, ControllerRestarts, StatusChanges, FetchStatus,
    LogTransition,
      BatchEnds, OpenState, WriteState, ReportError, vars, response, state, logs
  <2> QED
    BY <1>2, <2>1 DEF Passed
<1> QED
  BY <1>3, <1>4, <1>5, <1>6, <1>7, <1>8, <1>9 DEF Next, Work

-----------------------------------------------------------------------------
(* The theorems                                                            *)

\* The strengthening of the properties below is an invariant of the logger.
THEOREM LoggerInvariant == Spec => []LoggerInv
<1>1. Init => LoggerInv
  BY InvInit
<1>2. LoggerInv /\ [Next]_vars => LoggerInv'
  <2> SUFFICES ASSUME LoggerInv, [Next]_vars PROVE LoggerInv'
    OBVIOUS
  <2>1. TypeOK'
    BY TypeStep DEF LoggerInv
  <2>2. BatchOK' /\ WrittenOK' /\ NoHole' /\ LastIsLogged'
    BY BatchStep, WrittenStep, HoleStep, PositionStep
  <2>3. StoredIsLogged' /\ ResetOK' /\ CopiesOK'
    BY StoredStep, ResetStep, CopiesStep
  <2> QED
    BY <2>1, <2>2, <2>3 DEF LoggerInv
<1> QED
  BY <1>1, <1>2, PTL DEF Spec

\* Every variable of the logger keeps its type, whatever the controller and the file
\* system do.
THEOREM LoggerTypes == Spec => []TypeOK
<1>1. LoggerInv => TypeOK
  BY DEF LoggerInv
<1> QED
  BY <1>1, LoggerInvariant, PTL

\* append_new_events leaves no hole behind its position while the process lives.
THEOREM NoHoleLeft == Spec => []NoHole
<1>1. LoggerInv => NoHole
  BY DEF LoggerInv
<1> QED
  BY <1>1, LoggerInvariant, PTL

\* Lines of the event files repeat only as often as something failed.
THEOREM CopiesAreBounded == Spec => []CopiesBounded
<1>1. LoggerInv => CopiesBounded
  <2> SUFFICES ASSUME LoggerInv PROVE CopiesBounded
    OBVIOUS
  <2>1. ASSUME NEW r \in 1 .. MaxRuns, NEW n \in 1 .. MaxEvents
        PROVE  copies[<<r, n>>] <= 1 + faults + crashes
    <3>1. TypeOK /\ CopiesOK
      BY DEF LoggerInv
    <3>2. copies[<<r, n>>] \in Nat /\ faults \in Nat /\ crashes \in Nat
      BY <3>1, CopiesNat
    <3>3. copies[<<r, n>>] <= faults + crashes + 1
      BY <3>1 DEF CopiesOK
    <3> QED
      BY <3>2, <3>3
  <2> QED
    BY <2>1 DEF CopiesBounded, Events
<1> QED
  BY <1>1, LoggerInvariant, PTL

\* state.json never names an event that is not in the event files.
THEOREM PositionIsTrue == Spec => []StoredIsLogged
<1>1. LoggerInv => StoredIsLogged
  BY DEF LoggerInv
<1> QED
  BY <1>1, LoggerInvariant, PTL
=============================================================================
