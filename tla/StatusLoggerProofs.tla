--------------------------- MODULE StatusLoggerProofs ---------------------------
(***************************************************************************)
(* Proofs about StatusLogger, for any statuses and bounds: its types, that *)
(* the count of failures is honest, that the two summaries report every    *)
(* movement of the log that they read, that their options only select, and *)
(* that what they report is in the transitions log.  The summaries go on   *)
(* from line to line: what is known after a line is proved by induction on *)
(* the lines, which is an argument about a least element of the naturals   *)
(* for which it fails.                                                     *)
(***************************************************************************)
EXTENDS StatusLogger, SequenceTheorems, WellFoundedInduction, TLAPS

\* A poll adds at most one line, and before it has, none of its lines is in the log.  A
\* line without its end belongs to a poll that failed.
LogOK ==
  /\ Len(log) <= rounds
  /\ step = "status" => Len(log) < rounds /\ line = 0
  /\ step \in {"status", "latest", "transition"} => got # Unknown
  /\ tail = "unended" => line = 0 /\ Len(log) > 0 /\ Len(log) \notin complete

\* A failure that is not counted yet leaves the count behind, and an answer has ended it
\* before it is saved.
CountOK ==
  /\ CountIsHonest
  /\ step = "report" => failures < failed
  /\ step \in {"open", "write"} /\ got # Unknown => failures = 0

StatusInv == TypeOK /\ LogOK /\ CountOK

-----------------------------------------------------------------------------
(* Types                                                                   *)

\* Lines are appended and the last is dropped.
LEMMA LogTypes ==
  ASSUME NEW S, NEW s \in Seq(S), NEW e \in S
  PROVE  /\ Append(s, e) \in Seq(S)
         /\ Len(Append(s, e)) = Len(s) + 1
         /\ Len(s) > 0 => /\ SubSeq(s, 1, Len(s) - 1) \in Seq(S)
                          /\ Len(SubSeq(s, 1, Len(s) - 1)) = Len(s) - 1
<1>1. Append(s, e) \in Seq(S) /\ Len(Append(s, e)) = Len(s) + 1 /\ Len(s) \in Nat
  OBVIOUS
<1>2. ASSUME Len(s) > 0
      PROVE  /\ SubSeq(s, 1, Len(s) - 1) \in Seq(S)
             /\ Len(SubSeq(s, 1, Len(s) - 1)) = Len(s) - 1
  <2> DEFINE n == Len(s) - 1
  <2>1. n \in Nat /\ 1 \in 1 .. Len(s) + 1 /\ n \in 1 - 1 .. Len(s)
    BY <1>1, <1>2
  <2> HIDE DEF n
  <2>2. (IF 1 <= n THEN n - 1 + 1 ELSE 0) = n
    BY <2>1
  <2>3. /\ SubSeq(s, 1, n) \in Seq(S)
        /\ Len(SubSeq(s, 1, n)) = IF 1 <= n THEN n - 1 + 1 ELSE 0
    BY ONLY <2>1, s \in Seq(S), SubSeqProperties
  <2> QED
    BY ONLY <2>2, <2>3 DEF n
<1> QED
  BY <1>1, <1>2

\* What is saved is what is in memory.
LEMMA MemoryType ==
  ASSUME TypeOK
  PROVE  /\ Memory \in [snapshot : Status[house] \cup {Unknown}, failures : Nat]
         /\ Memory.snapshot = snapshot /\ Memory.failures = failures
BY DEF Memory, TypeOK

\* A line of the transitions log fits its type.
LEMMA MovedType ==
  ASSUME TypeOK, Len(log) <= rounds, got # Unknown
  PROVE  Moved \subseteq [to : Status[house], at : 0 .. MaxRounds]
<1>1. Len(log) \in Nat /\ rounds \in 0 .. MaxRounds /\ MaxRounds \in Nat
  BY StatusAssumption DEF TypeOK
<1>2. Len(log) \in 0 .. MaxRounds
  BY ONLY <1>1, Len(log) <= rounds
<1> QED
  BY <1>2 DEF TypeOK, Moved

-----------------------------------------------------------------------------
(* The inductive invariant                                                 *)

\* The first state satisfies it.
LEMMA InitOK == Init => StatusInv
BY StatusAssumption DEF Init, StatusInv, TypeOK, LogOK, CountOK, CountIsHonest, Houses, Steps, vars

\* Every step keeps it.
LEMMA Inductive == StatusInv /\ [Next]_vars => StatusInv'
<1> SUFFICES ASSUME StatusInv, [Next]_vars
             PROVE  StatusInv'
  OBVIOUS
<1> USE DEF StatusInv
<1>0. /\ Len(log) \in Nat /\ rounds \in Nat /\ faults \in Nat /\ failed \in Nat /\ failures \in Nat
      /\ MaxRounds \in Nat /\ MaxFaults \in Nat
  BY StatusAssumption DEF TypeOK
<1>1. CASE FetchStatus
  <2>1. got' \in Status[house] /\ got' # Unknown
    BY <1>1, StatusAssumption DEF FetchStatus, TypeOK
  <2>2. TypeOK'
    BY <1>0, <1>1, <2>1 DEF FetchStatus, memory, logs, TypeOK, Steps
  <2>3. LogOK'
    BY <1>0, <1>1, <2>1 DEF FetchStatus, memory, logs, LogOK, TypeOK
  <2>4. CountOK'
    BY <1>0, <1>1 DEF FetchStatus, memory, logs, CountOK, CountIsHonest
  <2> QED
    BY <2>2, <2>3, <2>4
<1>2. CASE AppendStatus
  <2>1. got \in Status[house] /\ log \in Seq(Status[house]) /\ step = "status" /\ line = 0
    BY <1>2 DEF AppendStatus, TypeOK, LogOK
  <2> DEFINE shorter == SubSeq(log, 1, Len(log) - 1)
  <2>2. /\ tail = "whole" => log' = Append(log, got)
        /\ tail = "torn" => log' = log
        /\ tail = "unended" => log' = shorter
    BY <1>2, Zenon DEF AppendStatus
  <2>3. /\ tail = "whole" => log' \in Seq(Status[house]) /\ Len(log') = Len(log) + 1
        /\ tail = "torn" => log' \in Seq(Status[house]) /\ Len(log') = Len(log)
        /\ tail = "unended" => log' \in Seq(Status[house]) /\ Len(log') = Len(log) - 1
    <3>1. tail = "unended" => Len(log) > 0
      BY DEF LogOK
    <3> HIDE DEF shorter
    <3>2. tail = "unended" => shorter \in Seq(Status[house]) /\ Len(shorter) = Len(log) - 1
      BY <2>1, <3>1, LogTypes DEF shorter
    <3> QED
      BY <2>1, <2>2, <3>2, LogTypes
  <2>4. log' \in Seq(Status[house]) /\ Len(log') <= rounds
    BY <1>0, <2>1, <2>3 DEF TypeOK, LogOK
  <2>5. line' = IF tail = "whole" THEN Len(log) + 1 ELSE 0
    BY <1>2 DEF AppendStatus
  <2>6. line' \in 0 .. Len(log') /\ complete \subseteq 1 .. Len(log')
    BY <1>0, <2>3, <2>5 DEF TypeOK, LogOK
  <2>7. /\ tail' = "whole" /\ step' = "latest"
        /\ UNCHANGED <<house, got, memory, file, moved, complete, failed, bounds>>
    BY <1>2 DEF AppendStatus
  <2>8. TypeOK'
    BY <2>4, <2>6, <2>7 DEF memory, bounds, TypeOK, Steps
  <2>9. got # Unknown
    BY <2>1 DEF LogOK
  <2>10. LogOK'
    BY <2>4, <2>7, <2>9 DEF bounds, LogOK
  <2>11. CountOK'
    BY <2>7 DEF memory, CountOK, CountIsHonest
  <2> QED
    BY <2>8, <2>10, <2>11
<1>3. CASE Midnight
  BY <1>3 DEF Midnight, memory, bounds, TypeOK, LogOK, CountOK, CountIsHonest
<1>4. CASE WriteLatest
  BY <1>4 DEF WriteLatest, memory, logs, bounds, TypeOK, Steps, LogOK, CountOK, CountIsHonest
<1>5. CASE LogTransition
  <2>1. moved' \subseteq [to : Status[house], at : 0 .. MaxRounds]
    BY <1>5, MovedType DEF LogTransition, LogOK, TypeOK
  <2>2. TypeOK'
    BY <1>5, <2>1 DEF LogTransition, bounds, TypeOK, Steps
  <2>3. LogOK'
    BY <1>5 DEF LogTransition, bounds, LogOK
  <2>4. CountOK'
    BY <1>0, <1>5 DEF LogTransition, CountOK, CountIsHonest
  <2> QED
    BY <2>2, <2>3, <2>4
<1>6. CASE PollEvents
  <2>1. TypeOK'
    BY <1>0, <1>6 DEF PollEvents, memory, logs, bounds, TypeOK, Steps
  <2>2. LogOK' /\ CountOK'
    BY <1>6 DEF PollEvents, memory, logs, bounds, LogOK, CountOK, CountIsHonest
  <2> QED
    BY <2>1, <2>2
<1>7. CASE OpenState
  BY <1>7 DEF OpenState, memory, logs, bounds, TypeOK, Steps, LogOK, CountOK, CountIsHonest
<1>8. CASE WriteState
  <2>1. TypeOK'
    BY <1>0, <1>8, MemoryType DEF WriteState, memory, bounds, TypeOK, Steps
  <2>2. LogOK'
    BY <1>0, <1>8 DEF WriteState, bounds, LogOK, TypeOK
  <2>3. CountOK'
    BY <1>0, <1>8, MemoryType DEF WriteState, memory, CountOK, CountIsHonest
  <2> QED
    BY <2>1, <2>2, <2>3
<1>9. CASE FetchFails
  <2>1. TypeOK'
    BY <1>0, <1>9 DEF FetchFails, Fault, memory, logs, TypeOK, Steps
  <2>2. LogOK'
    BY <1>9 DEF FetchFails, Fault, logs, LogOK
  <2>3. CountOK'
    BY <1>0, <1>9 DEF FetchFails, Fault, memory, CountOK, CountIsHonest, TypeOK
  <2> QED
    BY <2>1, <2>2, <2>3
<1>10. CASE WriteFails
  <2>1. /\ faults' \in 0 .. MaxFaults /\ failed' = failed + 1 /\ step' = "report"
        /\ UNCHANGED <<house, got, line, memory, complete, rounds>>
    BY <1>0, <1>10 DEF WriteFails, Fault, TypeOK
  <2>2. file' \in {file, Memory}
    BY <1>10 DEF WriteFails, logs
  <2>3. CountOK'
    BY <1>0, <2>1, <2>2, MemoryType DEF memory, CountOK, CountIsHonest, TypeOK
  <2>4. file' = NoState \/ file' \in [snapshot : Status[house] \cup {Unknown}, failures : Nat]
    BY <2>2, MemoryType DEF TypeOK
  <2>5. moved' \subseteq [to : Status[house], at : 0 .. MaxRounds]
    BY <1>10, MovedType DEF WriteFails, TypeOK, LogOK
  <2>6. CASE log' # log
    <3>1. step = "status" /\ tail = "whole" /\ log' = Append(log, got) /\ tail' \in {"whole", "unended"}
      BY <1>10, <2>6 DEF WriteFails
    <3>2. got \in Status[house] /\ log \in Seq(Status[house]) /\ line = 0 /\ Len(log) < rounds
      BY <3>1 DEF TypeOK, LogOK
    <3>3. log' \in Seq(Status[house]) /\ Len(log') = Len(log) + 1
      BY <3>1, <3>2, LogTypes
    <3>4. complete \subseteq 1 .. Len(log) /\ Len(log') \notin complete
      BY <1>0, <3>3 DEF TypeOK
    <3>5. TypeOK'
      BY <1>0, <2>1, <2>4, <2>5, <3>1, <3>2, <3>3, <3>4 DEF memory, TypeOK, Steps
    <3>6. LogOK'
      BY <1>0, <2>1, <3>1, <3>2, <3>3, <3>4 DEF LogOK
    <3> QED
      BY <2>3, <3>5, <3>6
  <2>7. CASE log' = log
    <3>1. tail' = tail \/ tail' = "torn" \/ (log' = Append(log, got) /\ step = "status")
      BY <1>10 DEF WriteFails
    <3>2. ~(log' = Append(log, got) /\ step = "status")
      <4>1. ASSUME step = "status" PROVE Len(Append(log, got)) = Len(log) + 1
        BY <4>1, LogTypes DEF TypeOK, LogOK
      <4> QED
        BY <1>0, <2>7, <4>1
    <3>3. TypeOK'
      BY <2>1, <2>4, <2>5, <2>7, <3>1, <3>2 DEF memory, TypeOK, Steps
    <3>4. LogOK'
      BY <2>1, <2>7, <3>1, <3>2 DEF LogOK
    <3> QED
      BY <2>3, <3>3, <3>4
  <2> QED
    BY <2>6, <2>7
<1>11. CASE ReportError
  <2>1. TypeOK'
    BY <1>0, <1>11 DEF ReportError, logs, bounds, TypeOK, Steps
  <2>2. LogOK'
    BY <1>11 DEF ReportError, logs, bounds, LogOK
  <2>3. CountOK'
    BY <1>0, <1>11 DEF ReportError, CountOK, CountIsHonest
  <2> QED
    BY <2>1, <2>2, <2>3
<1>12. CASE ReportErrorFails
  <2>1. file' \in {file, Memory} /\ step' = "down"
    BY <1>12 DEF ReportErrorFails
  <2>2. TypeOK'
    BY <1>0, <1>12, <2>1, MemoryType DEF ReportErrorFails, Fault, memory, logs, TypeOK, Steps
  <2>3. LogOK'
    BY <1>12 DEF ReportErrorFails, Fault, logs, LogOK
  <2>4. CountOK'
    BY <1>0, <1>12, <2>1, MemoryType DEF ReportErrorFails, Fault, memory, CountOK, CountIsHonest, TypeOK
  <2> QED
    BY <2>2, <2>3, <2>4
<1>13. CASE Crash
  <2>1. TypeOK'
    BY <1>0, <1>13 DEF Crash, memory, logs, TypeOK, Steps
  <2>2. LogOK' /\ CountOK'
    BY <1>13 DEF Crash, memory, logs, LogOK, CountOK, CountIsHonest
  <2> QED
    BY <2>1, <2>2
<1>14. CASE Start
  <2>1. TypeOK'
    BY <1>0, <1>14 DEF Start, logs, bounds, TypeOK, Steps
  <2>2. LogOK'
    BY <1>14 DEF Start, logs, bounds, LogOK
  <2>3. CountOK'
    BY <1>0, <1>14 DEF Start, CountOK, CountIsHonest
  <2> QED
    BY <2>1, <2>2, <2>3
<1>15. CASE UNCHANGED vars
  BY <1>15 DEF vars, memory, logs, bounds, TypeOK, LogOK, CountOK, CountIsHonest
<1> QED
  BY <1>1, <1>2, <1>3, <1>4, <1>5, <1>6, <1>7, <1>8, <1>9, <1>10, <1>11, <1>12, <1>13, <1>14, <1>15
  DEF Next

\* So every reachable state satisfies it.
LEMMA StatusInvariant == Spec => []StatusInv
BY InitOK, Inductive, PTL DEF Spec

-----------------------------------------------------------------------------
(* The status log and the transitions log                                   *)

\* The last line that the next one is not read together with.
Settled == IF tail = "unended" THEN Len(log) - 1 ELSE Len(log)

\* A snapshot s after line n: if the poll of line n went through, s is its status, or a
\* later one that the transitions log tells of.
Traced(s, n) == n \in complete => s \in {Unknown, log[n]} \/ [to |-> s, at |-> n] \in moved

\* The transitions log tells of line i if it differs from a line before that went through.
Told(i) ==
  i - 1 \in complete /\ log[i] # log[i - 1] =>
    \E a \in {i - 1, i} : [to |-> log[i], at |-> a] \in moved

\* The line in hand is the last, and is not traced before it is in the transitions log.
InHand ==
  /\ step \in {"latest", "transition"} => tail = "whole"
  /\ step \in {"latest", "transition", "open", "write"} /\ line # 0 =>
       line = Len(log) /\ line \notin complete /\ got = log[line]
  /\ step \in {"latest", "transition"} /\ line # 0 => Traced(snapshot, line - 1)
  /\ step \in {"open", "write"} /\ line # 0 => snapshot = got /\ Told(line)

TraceOK ==
  /\ InHand
  /\ Traced(snapshot, Settled)
  /\ file # NoState => Traced(file.snapshot, Settled)
  /\ \A i \in complete : Told(i)

\* In the first state nothing is traced or told.
LEMMA TraceInit == Init => TraceOK
BY DEF Init, TraceOK, InHand, Traced, Told

\* What is traced and told stays so when lines that went through stay and the transitions log grows.
LEMMA TraceKept ==
  ASSUME moved \subseteq moved', complete' = complete, \A i \in complete : log'[i] = log[i]
  PROVE  /\ \A s, n : Traced(s, n) => Traced(s, n)'
         /\ \A i \in complete : Told(i) => Told(i)'
BY DEF Traced, Told

\* When nothing of the logs changes, and the snapshots only go from the file to the memory or back.
LEMMA TraceUnchanged ==
  ASSUME TraceOK, UNCHANGED logs,
         snapshot' \in {snapshot, Unknown} \/ (file # NoState /\ snapshot' = file.snapshot),
         file' \in {NoState, file, Memory}
  PROVE  /\ Traced(snapshot, Settled)'
         /\ file' # NoState => Traced(file.snapshot, Settled)'
         /\ \A i \in complete' : Told(i)'
<1>1. Memory.snapshot = snapshot
  BY DEF Memory
<1>2. Settled' = Settled
  BY DEF logs, Settled
<1> HIDE DEF Settled
<1>3. Traced(snapshot, Settled)'
  BY <1>2 DEF TraceOK, Traced, logs
<1>4. file' # NoState => Traced(file.snapshot, Settled)'
  BY <1>1, <1>2 DEF TraceOK, Traced, logs
<1>5. \A i \in complete' : Told(i)'
  BY DEF TraceOK, Told, logs
<1> QED
  BY <1>3, <1>4, <1>5

\* When a line is added or taken away, or a line to the transitions log.
LEMMA TraceMoved ==
  ASSUME TraceOK, moved \subseteq moved', complete' = complete, \A i \in complete : log'[i] = log[i],
         Settled' \in {Settled} \/ Settled' \notin complete,
         snapshot' = snapshot, file' \in {file, Memory}
  PROVE  /\ Traced(snapshot, Settled)'
         /\ file' # NoState => Traced(file.snapshot, Settled)'
         /\ \A i \in complete' : Told(i)'
<1>1. Memory.snapshot = snapshot
  BY DEF Memory
<1> DEFINE n == Settled'
<1>2. n = Settled \/ n \notin complete
  OBVIOUS
<1>3. Traced(snapshot, Settled)' <=>
        (n \in complete' => \/ snapshot' \in {Unknown, log'[n]}
                            \/ [to |-> snapshot', at |-> n] \in moved')
  BY DEF Traced
<1>4. Traced(file.snapshot, Settled)' <=>
        (n \in complete' => \/ file'.snapshot \in {Unknown, log'[n]}
                            \/ [to |-> file'.snapshot, at |-> n] \in moved')
  BY DEF Traced
<1> HIDE DEF n, Settled
<1>5. Traced(snapshot, Settled)'
  BY <1>2, <1>3 DEF TraceOK, Traced
<1>6. file' # NoState => Traced(file.snapshot, Settled)'
  BY <1>1, <1>2, <1>4 DEF TraceOK, Traced
<1>7. \A i \in complete' : Told(i)'
  BY DEF TraceOK, Told
<1> QED
  BY <1>5, <1>6, <1>7

\* Every step keeps it.
LEMMA TraceInductive == StatusInv /\ TraceOK /\ [Next]_vars => TraceOK'
<1> SUFFICES ASSUME StatusInv, TraceOK, [Next]_vars
             PROVE  TraceOK'
  OBVIOUS
<1>0. /\ TypeOK /\ LogOK /\ InHand
      /\ Len(log) \in Nat /\ complete \subseteq 1 .. Len(log)
  BY DEF StatusInv, TypeOK, TraceOK
<1>1. CASE FetchStatus
  BY <1>1, TraceUnchanged DEF FetchStatus, memory, TraceOK, InHand
<1>2. CASE AppendStatus
  <2> DEFINE shorter == SubSeq(log, 1, Len(log) - 1)
  <2>1. /\ tail = "whole" => log' = Append(log, got)
        /\ tail = "torn" => log' = log
        /\ tail = "unended" => log' = shorter
        /\ line' = IF tail = "whole" THEN Len(log) + 1 ELSE 0
    BY <1>2, Zenon DEF AppendStatus
  <2>2. /\ tail' = "whole" /\ step' = "latest" /\ got' = got
        /\ snapshot' = snapshot /\ file' = file /\ moved' = moved /\ complete' = complete
    BY <1>2 DEF AppendStatus, memory
  <2>3. /\ tail = "unended" => Len(log) > 0 /\ Len(log) \notin complete
        /\ got \in Status[house] /\ log \in Seq(Status[house])
        /\ tail \in {"whole", "torn", "unended"}
    BY <1>0, <1>2 DEF AppendStatus, TypeOK, LogOK
  <2>4. /\ tail = "whole" => /\ Len(log') = Len(log) + 1 /\ log'[Len(log) + 1] = got
                             /\ \A i \in 1 .. Len(log) : log'[i] = log[i]
        /\ tail = "unended" => /\ Len(log') = Len(log) - 1
                               /\ \A i \in 1 .. Len(log) - 1 : log'[i] = log[i]
    BY <1>0, <2>1, <2>3
  <2>5. \A i \in complete : log'[i] = log[i]
    BY <1>0, <2>1, <2>3, <2>4
  <2>7. Settled' \in {Settled} \/ Settled' \notin complete
    BY <1>0, <2>1, <2>2, <2>3, <2>4 DEF Settled
  <2>8. InHand'
    <3> SUFFICES ASSUME line' # 0
                 PROVE  /\ line' = Len(log') /\ line' \notin complete' /\ got' = log'[line']
                        /\ Traced(snapshot, line - 1)'
      BY <2>2 DEF InHand
    <3>1. tail = "whole" /\ line' = Len(log) + 1 /\ line' - 1 = Len(log) /\ Settled = Len(log)
      BY <1>0, <2>1 DEF Settled
    <3>2. Traced(snapshot, Len(log))
      BY <3>1 DEF TraceOK
    <3> QED
      BY <1>0, <2>2, <2>4, <2>5, <3>1, <3>2 DEF Traced
  <2> QED
    BY <2>2, <2>5, <2>7, <2>8, TraceMoved DEF TraceOK
<1>3. CASE Midnight
  BY <1>0, <1>3 DEF Midnight, memory, LogOK, TraceOK, InHand, Traced, Told, Settled
<1>4. CASE WriteLatest
  BY <1>4, TraceUnchanged DEF WriteLatest, memory, logs, TraceOK, InHand, Traced
<1>5. CASE LogTransition
  <2>1. /\ step = "transition" /\ step' = "open"
        /\ moved' = (IF Changed THEN Moved ELSE moved) /\ snapshot' = got
        /\ log' = log /\ tail' = tail /\ complete' = complete /\ file' = file /\ got' = got /\ line' = line
    BY <1>5 DEF LogTransition
  <2>2. moved \subseteq moved'
    BY <2>1 DEF Moved
  <2>3. /\ \A s, n : Traced(s, n) => Traced(s, n)'
        /\ \A i \in complete : Told(i) => Told(i)'
    BY <2>1, <2>2, TraceKept
  <2>4. tail = "whole" /\ Settled = Len(log) /\ Settled' = Len(log) /\ got # Unknown
    BY <1>0, <2>1 DEF InHand, Settled, LogOK
  <2>5. Changed => [to |-> got, at |-> Len(log)] \in moved'
    BY <2>1 DEF Moved
  <2>6. ~Changed => snapshot = got
    BY DEF Changed
  <2>7. ASSUME line # 0
        PROVE  Told(line)' /\ line = Len(log) /\ line \notin complete /\ got = log[line]
    BY <1>0, <2>1, <2>4, <2>5, <2>6, <2>7 DEF InHand, Told, Traced
  <2>8. Traced(snapshot, Settled)'
    BY <2>1, <2>4, <2>5, <2>6 DEF TraceOK, Traced
  <2> QED
    BY <2>1, <2>3, <2>4, <2>7, <2>8 DEF TraceOK, InHand
<1>6. CASE PollEvents
  BY <1>6, TraceUnchanged DEF PollEvents, memory, TraceOK, InHand
<1>7. CASE OpenState
  BY <1>7, TraceUnchanged DEF OpenState, memory, logs, TraceOK, InHand, Told
<1>8. CASE WriteState
  BY <1>0, <1>8 DEF WriteState, memory, TraceOK, InHand, Told, Traced, Settled, Memory, LogOK
<1>9. CASE FetchFails
  BY <1>9, TraceUnchanged DEF FetchFails, Fault, memory, TraceOK, InHand
<1>10. CASE WriteFails
  <2>1. /\ step' = "report" /\ snapshot' = snapshot /\ complete' = complete
        /\ file' \in {file, Memory}
    BY <1>10 DEF WriteFails, memory
  <2>2. moved \subseteq moved'
    BY <1>10 DEF WriteFails, Moved
  <2>3. InHand'
    BY <2>1 DEF InHand
  <2>4. CASE log' = log /\ tail' = tail
    BY <2>1, <2>2, <2>3, <2>4, TraceMoved DEF TraceOK, Settled
  <2>5. CASE step = "status" /\ tail = "whole"
    <3>1. got \in Status[house] /\ log \in Seq(Status[house])
      BY <1>0, <2>5 DEF TypeOK, LogOK
    <3>2. \/ log' = Append(log, got) /\ tail' \in {"whole", "unended"}
          \/ log' = log /\ tail' \in {"whole", "torn"}
      BY <1>10, <2>5 DEF WriteFails
    <3>3. log' = Append(log, got) => Len(log') = Len(log) + 1 /\ \A i \in 1 .. Len(log) : log'[i] = log[i]
      BY <3>1
    <3>4. \A i \in complete : log'[i] = log[i]
      BY <1>0, <3>2, <3>3
    <3>5. Settled' \in {Settled} \/ Settled' \notin complete
      BY <1>0, <2>5, <3>2, <3>3 DEF Settled
    <3> QED
      BY <2>1, <2>2, <2>3, <3>4, <3>5, TraceMoved DEF TraceOK
  <2> QED
    BY <1>10, <2>4, <2>5 DEF WriteFails
<1>11. CASE ReportError
  BY <1>11, TraceUnchanged DEF ReportError, TraceOK, InHand
<1>12. CASE ReportErrorFails
  BY <1>12, TraceUnchanged DEF ReportErrorFails, Fault, memory, TraceOK, InHand
<1>13. CASE Crash
  BY <1>13, TraceUnchanged DEF Crash, memory, TraceOK, InHand
<1>14. CASE Start
  BY <1>14, TraceUnchanged DEF Start, TraceOK, InHand
<1>15. CASE UNCHANGED vars
  BY <1>15, TraceUnchanged DEF vars, memory, logs, TraceOK, InHand, Told, Traced
<1> QED
  BY <1>1, <1>2, <1>3, <1>4, <1>5, <1>6, <1>7, <1>8, <1>9, <1>10, <1>11, <1>12, <1>13, <1>14, <1>15
  DEF Next

\* So every reachable state satisfies it.
LEMMA TraceInvariant == Spec => [](StatusInv /\ TraceOK)
BY InitOK, TraceInit, Inductive, TraceInductive, PTL DEF Spec

-----------------------------------------------------------------------------
(* Induction                                                               *)

\* A nonempty set of naturals has a least element.
LEMMA Least ==
  ASSUME NEW T, T \subseteq Nat, T # {}
  PROVE  \E m \in T : \A n \in T : m <= n
<1> DEFINE R == OpToRel(<, Nat)
<1>1. IsWellFoundedOn(R, Nat)
  BY NatLessThanWellFounded
<1>2. \A i, j \in Nat : i < j => <<i, j>> \in R
  BY DEF OpToRel
<1> HIDE DEF R
<1>3. PICK m \in T : \A n \in T : ~(<<n, m>> \in R)
  BY <1>1, WFMin
<1>4. \A n \in T : ~(n < m)
  BY <1>2, <1>3
<1> QED
  BY <1>4

\* Induction over the naturals, for a set.
LEMMA SetInduction ==
  ASSUME NEW S, 0 \in S, \A n \in Nat : n \in S => n + 1 \in S
  PROVE  Nat \subseteq S
<1> SUFFICES ASSUME Nat \ S # {}
             PROVE  FALSE
  OBVIOUS
<1>1. PICK m \in Nat \ S : \A n \in Nat \ S : m <= n
  BY Least
<1>2. m - 1 \in Nat /\ m - 1 + 1 = m
  BY <1>1
<1>3. m - 1 \in S
  <2>1. ~(m <= m - 1)
    BY <1>1
  <2> QED
    BY <1>1, <1>2, <2>1
<1> QED
  BY <1>1, <1>2, <1>3

\* The scan of greenhouse 2 is what its definition says: a function that goes on from line
\* to line exists.
LEMMA SingleScanDef ==
  ASSUME NEW s, Len(s) \in Nat
  PROVE  /\ SingleScan(s)[0] = NothingBefore
         /\ \A i \in 1 .. Len(s) : SingleScan(s)[i] = SingleStep(SingleScan(s)[i - 1], s[i], i)
<1> DEFINE Scans(f, n) ==
             f = [i \in 0 .. n |-> IF i = 0 THEN NothingBefore ELSE SingleStep(f[i - 1], s[i], i)]
           S == {n \in Nat : \E f : Scans(f, n)}
<1>1. 0 \in S
  <2> DEFINE f == [i \in 0 .. 0 |-> NothingBefore]
  <2>1. Scans(f, 0)
    OBVIOUS
  <2> QED
    BY <2>1
<1>2. ASSUME NEW n \in Nat, n \in S
      PROVE  n + 1 \in S
  <2>1. PICK f : Scans(f, n)
    BY <1>2
  <2> DEFINE g == [i \in 0 .. n + 1 |-> IF i = n + 1 THEN SingleStep(f[n], s[n + 1], n + 1) ELSE f[i]]
  <2>2. ASSUME NEW i \in 0 .. n + 1
        PROVE  g[i] = IF i = 0 THEN NothingBefore ELSE SingleStep(g[i - 1], s[i], i)
    BY <2>1
  <2>3. Scans(g, n + 1) /\ n + 1 \in Nat
    BY <2>2
  <2> HIDE DEF g, Scans
  <2> QED
    BY <2>3
<1>3. PICK f : Scans(f, Len(s))
  <2> HIDE DEF S
  <2>1. Len(s) \in S
    BY <1>1, <1>2, SetInduction
  <2> QED
    BY <2>1 DEF S
<1>4. Scans(SingleScan(s), Len(s))
  BY <1>3, Zenon DEF SingleScan
<1> QED
  BY <1>4

\* The scan of greenhouse 1, likewise.
LEMMA DualScanDef ==
  ASSUME NEW s, Len(s) \in Nat, NEW zones, NEW skip
  PROVE  /\ DualScan(s, zones, skip)[0] = NoMovements
         /\ \A i \in 1 .. Len(s) :
              DualScan(s, zones, skip)[i] = DualLine(DualScan(s, zones, skip)[i - 1], s[i], i, zones, skip)
<1> DEFINE Scans(f, n) ==
             f = [i \in 0 .. n |-> IF i = 0 THEN NoMovements ELSE DualLine(f[i - 1], s[i], i, zones, skip)]
           S == {n \in Nat : \E f : Scans(f, n)}
<1>1. 0 \in S
  <2> DEFINE f == [i \in 0 .. 0 |-> NoMovements]
  <2>1. Scans(f, 0)
    OBVIOUS
  <2> QED
    BY <2>1
<1>2. ASSUME NEW n \in Nat, n \in S
      PROVE  n + 1 \in S
  <2>1. PICK f : Scans(f, n)
    BY <1>2
  <2> DEFINE g == [i \in 0 .. n + 1 |->
                     IF i = n + 1 THEN DualLine(f[n], s[n + 1], n + 1, zones, skip) ELSE f[i]]
  <2>2. ASSUME NEW i \in 0 .. n + 1
        PROVE  g[i] = IF i = 0 THEN NoMovements ELSE DualLine(g[i - 1], s[i], i, zones, skip)
    BY <2>1
  <2>3. Scans(g, n + 1) /\ n + 1 \in Nat
    BY <2>2
  <2> HIDE DEF g, Scans
  <2> QED
    BY <2>3
<1>3. PICK f : Scans(f, Len(s))
  <2> HIDE DEF S
  <2>1. Len(s) \in S
    BY <1>1, <1>2, SetInduction
  <2> QED
    BY <2>1 DEF S
<1>4. Scans(DualScan(s, zones, skip), Len(s))
  BY <1>3, Zenon DEF DualScan
<1> QED
  BY <1>4

\* f chooses of the first n starts, one after the other.
Chooses(f, starts, n, zones, skip) ==
  f = [k \in 0 .. n |-> IF k = 0 THEN <<>> ELSE Choose(f[k - 1], starts[k], zones, skip)]

\* What is chosen is what such a function, which exists, has chosen of all.
LEMMA ChosenScan ==
  ASSUME NEW starts, Len(starts) \in Nat, NEW zones, NEW skip
  PROVE  \E f : /\ Chooses(f, starts, Len(starts), zones, skip)
                /\ Chosen(starts, zones, skip) = f[Len(starts)]
<1> DEFINE S == {n \in Nat : \E f : Chooses(f, starts, n, zones, skip)}
<1>1. 0 \in S
  <2> DEFINE f == [i \in 0 .. 0 |-> <<>>]
  <2>1. Chooses(f, starts, 0, zones, skip)
    BY DEF Chooses
  <2> QED
    BY <2>1
<1>2. ASSUME NEW n \in Nat, n \in S
      PROVE  n + 1 \in S
  <2>1. PICK f : Chooses(f, starts, n, zones, skip)
    BY <1>2
  <2> DEFINE g == [i \in 0 .. n + 1 |->
                     IF i = n + 1 THEN Choose(f[n], starts[n + 1], zones, skip) ELSE f[i]]
  <2>2. ASSUME NEW i \in 0 .. n + 1
        PROVE  g[i] = IF i = 0 THEN <<>> ELSE Choose(g[i - 1], starts[i], zones, skip)
    BY <2>1 DEF Chooses
  <2>3. Chooses(g, starts, n + 1, zones, skip) /\ n + 1 \in Nat
    BY <2>2 DEF Chooses
  <2> HIDE DEF g
  <2> QED
    BY <2>3
<1>3. PICK f : Chooses(f, starts, Len(starts), zones, skip)
  <2> HIDE DEF S
  <2>1. Len(starts) \in S
    BY <1>1, <1>2, SetInduction
  <2> QED
    BY <2>1 DEF S
<1>4. LET g == CHOOSE g : Chooses(g, starts, Len(starts), zones, skip)
      IN  Chooses(g, starts, Len(starts), zones, skip) /\ Chosen(starts, zones, skip) = g[Len(starts)]
  BY <1>3, Zenon DEF Chosen, Chooses
<1> QED
  BY <1>4

\* What is chosen of one start more.
LEMMA ChosenAppend ==
  ASSUME NEW T, NEW starts \in Seq(T), NEW s \in T, NEW zones, NEW skip
  PROVE  Chosen(Append(starts, s), zones, skip) = Choose(Chosen(starts, zones, skip), s, zones, skip)
<1> DEFINE n == Len(starts)
           longer == Append(starts, s)
<1>1. /\ n \in Nat /\ Len(longer) = n + 1 /\ longer[n + 1] = s
      /\ \A k \in 1 .. n : longer[k] = starts[k]
  OBVIOUS
<1>2. PICK f : Chooses(f, starts, n, zones, skip) /\ Chosen(starts, zones, skip) = f[n]
  BY <1>1, ChosenScan
<1> HIDE DEF longer
<1>3. PICK g : Chooses(g, longer, n + 1, zones, skip) /\ Chosen(longer, zones, skip) = g[n + 1]
  <2>1. Len(longer) \in Nat
    BY <1>1
  <2> QED
    BY <1>1, <2>1, ChosenScan
<1> HIDE DEF n
<1> DEFINE S == {k \in Nat : k <= n => f[k] = g[k]}
<1>4. 0 \in S
  BY <1>1, <1>2, <1>3 DEF Chooses
<1>5. ASSUME NEW k \in Nat, k \in S
      PROVE  k + 1 \in S
  <2>1. ASSUME k + 1 <= n
        PROVE  f[k + 1] = g[k + 1]
    <3>1. k + 1 \in 1 .. n /\ k + 1 \in 0 .. n + 1 /\ k + 1 # 0 /\ k + 1 - 1 = k /\ f[k] = g[k]
      BY <1>1, <1>5, <2>1
    <3>2. f[k + 1] = Choose(f[k], starts[k + 1], zones, skip)
      BY <1>1, <1>2, <3>1 DEF Chooses
    <3>3. g[k + 1] = Choose(g[k], longer[k + 1], zones, skip)
      BY <1>1, <1>3, <3>1 DEF Chooses
    <3> QED
      BY <1>1, <3>1, <3>2, <3>3
  <2> QED
    BY <2>1
<1>6. f[n] = g[n]
  <2> HIDE DEF S
  <2>1. n \in S
    BY <1>1, <1>4, <1>5, SetInduction
  <2> QED
    BY <1>1, <2>1 DEF S
<1>7. g[n + 1] = Choose(g[n], s, zones, skip)
  BY <1>1, <1>3 DEF Chooses
<1> QED
  BY <1>2, <1>3, <1>6, <1>7 DEF longer

\* Of no starts none is chosen.
LEMMA ChosenEmpty ==
  ASSUME NEW zones, NEW skip
  PROVE  Chosen(<<>>, zones, skip) = <<>>
<1>1. Len(<<>>) = 0
  OBVIOUS
<1> QED
  BY <1>1, ChosenScan DEF Chooses

-----------------------------------------------------------------------------
(* Greenhouse 2                                                            *)

\* The direction of a line after one with the level before.
DirectionAfter(entry, before) == DirectionBy(Trigger(entry, before), entry, before)

\* A line that says its direction by its state or message says so after every level.
LEMMA DirectionFacts ==
  ASSUME NEW entry, NEW before
  PROVE  /\ DirectionAfter(entry, before) \in {"OPEN", "CLOSE", NoDirection}
         /\ DirectionAfter(entry, entry.level) # NoDirection =>
              DirectionAfter(entry, before) = DirectionAfter(entry, entry.level)
<1>1. /\ StateDirection(entry.state) \in {"OPEN", "CLOSE", NoDirection}
      /\ MessageDirection(entry.message) \in {"OPEN", "CLOSE", NoDirection}
      /\ LevelDirection(before, entry.level) \in {"OPEN", "CLOSE", NoDirection}
  BY DEF StateDirection, MessageDirection, LevelDirection, NoDirection
<1>2. LevelDirection(entry.level, entry.level) = NoDirection
  BY DEF LevelDirection
<1> QED
  BY <1>1, <1>2 DEF DirectionAfter, DirectionBy, Trigger, NoDirection

SingleStart == [line : Nat, zone : {1}, direction : {"OPEN", "CLOSE"}]

\* A movement among starts goes on from its beginning to line i.
Covered(starts, i) ==
  \E k \in 1 .. Len(starts) :
    /\ starts[k].line <= i
    /\ \A j \in starts[k].line .. i : Direction(j) = starts[k].direction

\* A start among the first n lines is a line that moves, and moves otherwise than before.
Moving(start, n) ==
  /\ start.line \in 1 .. n
  /\ Direction(start.line) = start.direction
  /\ start.line = 1 \/ log[start.line] # log[start.line - 1]

\* What is known after line i, and what the starts up to there say.
SingleInv(i) ==
  LET scan == SingleScan(log)[i] IN
    /\ scan.direction = IF i = 0 THEN NoDirection ELSE Direction(i)
    /\ i # 0 => scan.state = log[i].state
    /\ scan.level = IF i = 0 THEN NoLevel ELSE log[i].level
    /\ scan.starts \in Seq(SingleStart)
    /\ \A j \in 1 .. i : Direction(j) # NoDirection => Covered(scan.starts, j)
    /\ \A k \in 1 .. Len(scan.starts) : Moving(scan.starts[k], i)

\* One start more covers what the starts before covered.
LEMMA CoveredLonger ==
  ASSUME NEW starts \in Seq(SingleStart), NEW s \in SingleStart, NEW j \in Nat
  PROVE  /\ Covered(starts, j) => Covered(Append(starts, s), j)
         /\ s.line = j /\ Direction(j) = s.direction => Covered(Append(starts, s), j)
<1> DEFINE longer == Append(starts, s)
<1>1. /\ Len(starts) \in Nat /\ Len(longer) = Len(starts) + 1 /\ longer[Len(starts) + 1] = s
      /\ \A k \in 1 .. Len(starts) : longer[k] = starts[k]
      /\ s.line \in Nat
  BY DEF SingleStart
<1> HIDE DEF longer
<1>2. ASSUME Covered(starts, j)
      PROVE  Covered(longer, j)
  <2>1. PICK k \in 1 .. Len(starts) :
          starts[k].line <= j /\ \A i \in starts[k].line .. j : Direction(i) = starts[k].direction
    BY <1>2 DEF Covered
  <2>2. k \in 1 .. Len(longer) /\ longer[k] = starts[k]
    BY <1>1
  <2> QED
    BY <2>1, <2>2 DEF Covered
<1>3. ASSUME s.line = j, Direction(j) = s.direction
      PROVE  Covered(longer, j)
  <2>1. Len(starts) + 1 \in 1 .. Len(longer)
    BY <1>1
  <2>2. \A i \in s.line .. j : i = j
    BY <1>1, <1>3
  <2> QED
    BY <1>1, <1>3, <2>1, <2>2 DEF Covered
<1> QED
  BY <1>2, <1>3 DEF longer

\* One line more of the scan of greenhouse 2.
LEMMA SingleInductive ==
  ASSUME Len(log) \in Nat, NEW i \in 1 .. Len(log), SingleInv(i - 1)
  PROVE  SingleInv(i)
<1> DEFINE before == SingleScan(log)[i - 1]
           scan == SingleScan(log)[i]
           trigger == Trigger(log[i], before.level)
           direction == DirectionBy(trigger, log[i], before.level)
           begins == SingleBegins(trigger, direction, log[i], before)
           start == [line |-> i, zone |-> 1, direction |-> direction]
<1>1. /\ i - 1 \in Nat /\ i \in Nat /\ i # 0
      /\ before.level = IF i = 1 THEN NoLevel ELSE log[i - 1].level
      /\ before.direction = IF i = 1 THEN NoDirection ELSE Direction(i - 1)
      /\ i # 1 => before.state = log[i - 1].state
      /\ before.starts \in Seq(SingleStart)
      /\ \A j \in 1 .. i - 1 : Direction(j) # NoDirection => Covered(before.starts, j)
      /\ \A k \in 1 .. Len(before.starts) : Moving(before.starts[k], i - 1)
  BY DEF SingleInv
<1>2. direction = Direction(i) /\ direction = DirectionAfter(log[i], before.level)
  BY <1>1 DEF Direction, DirectionAfter
<1>3. /\ scan.direction = direction /\ scan.state = log[i].state /\ scan.level = log[i].level
      /\ scan.starts = IF begins THEN Append(before.starts, start) ELSE before.starts
  <2>1. scan = SingleStep(before, log[i], i)
    BY SingleScanDef
  <2> HIDE DEF before, scan
  <2> QED
    BY <2>1 DEF SingleStep
<1>4. direction \in {"OPEN", "CLOSE", NoDirection}
  BY <1>2, DirectionFacts
<1> HIDE DEF before, scan, trigger, direction
<1>5. begins => direction # NoDirection /\ start \in SingleStart
  BY <1>1, <1>4 DEF SingleBegins, SingleStart
<1>6. begins => i = 1 \/ log[i] # log[i - 1]
  <2> SUFFICES ASSUME begins, i # 1, log[i] = log[i - 1]
               PROVE  FALSE
    OBVIOUS
  <2>1. before.level = log[i].level /\ before.state = log[i].state /\ before.direction = Direction(i - 1)
    BY <1>1
  <2>2. direction # NoDirection
    BY <1>5
  <2>3. Direction(i - 1) = DirectionAfter(log[i], IF i - 1 = 1 THEN NoLevel ELSE log[i - 1 - 1].level)
    BY DEF Direction, DirectionAfter
  <2>4. Direction(i - 1) = direction
    BY <1>2, <2>1, <2>2, <2>3, DirectionFacts
  <2> QED
    BY <2>1, <2>2, <2>4 DEF SingleBegins
<1>7. ~begins /\ direction # NoDirection => i # 1 /\ Direction(i - 1) = direction
  BY <1>1 DEF SingleBegins
<1> HIDE DEF begins
<1>8. scan.starts \in Seq(SingleStart)
  BY <1>1, <1>3, <1>5
<1>9. ASSUME NEW j \in 1 .. i, Direction(j) # NoDirection
      PROVE  Covered(scan.starts, j)
  <2>1. CASE j # i
    <3>1. Covered(before.starts, j) /\ j \in Nat
      BY <1>1, <1>9, <2>1
    <3> HIDE DEF start
    <3> QED
      BY <1>1, <1>3, <1>5, <3>1, CoveredLonger
  <2>2. CASE j = i /\ begins
    <3>1. start.line = i /\ start.direction = Direction(i)
      BY <1>2
    <3> HIDE DEF start
    <3> QED
      BY <1>1, <1>3, <1>5, <2>2, <3>1, CoveredLonger
  <2>3. CASE j = i /\ ~begins
    <3>1. i # 1 /\ Direction(i - 1) = Direction(i)
      BY <1>2, <1>7, <1>9, <2>3
    <3>2. Covered(before.starts, i - 1)
      <4>1. i - 1 \in 1 .. i - 1
        BY <1>1, <3>1
      <4> QED
        BY <1>1, <1>9, <2>3, <3>1, <4>1
    <3>3. PICK k \in 1 .. Len(before.starts) :
            /\ before.starts[k].line <= i - 1
            /\ \A m \in before.starts[k].line .. i - 1 : Direction(m) = before.starts[k].direction
      BY <3>2 DEF Covered
    <3>4. before.starts[k].line \in Nat
      BY <1>1, <3>3 DEF Moving
    <3>5. before.starts[k].line <= i /\ Direction(i - 1) = before.starts[k].direction
      BY <1>1, <3>3, <3>4
    <3>6. \A m \in before.starts[k].line .. i : m = i \/ m \in before.starts[k].line .. i - 1
      BY <1>1, <3>4
    <3> QED
      BY <1>3, <2>3, <3>1, <3>3, <3>5, <3>6 DEF Covered
  <2> QED
    BY <2>1, <2>2, <2>3
<1>10. ASSUME NEW k \in 1 .. Len(scan.starts)
       PROVE  Moving(scan.starts[k], i)
  <2>1. CASE k \in 1 .. Len(before.starts) /\ scan.starts[k] = before.starts[k]
    BY <1>1, <2>1 DEF Moving
  <2>2. CASE begins /\ scan.starts[k] = start
    <3>1. start.line = i /\ start.direction = Direction(i)
      BY <1>2
    <3> QED
      BY <1>1, <1>6, <2>2, <3>1 DEF Moving
  <2>3. CASE begins
    <3> HIDE DEF start
    <3> QED
      BY <1>1, <1>3, <1>5, <1>10, <2>1, <2>2, <2>3
  <2> QED
    BY <1>3, <1>10, <2>1, <2>3
<1> QED
  BY <1>1, <1>2, <1>3, <1>8, <1>9, <1>10 DEF SingleInv, scan

\* So what is known after the last line is right.
LEMMA SingleThroughout ==
  ASSUME Len(log) \in Nat
  PROVE  SingleInv(Len(log))
<1> DEFINE S == {n \in Nat : n <= Len(log) => SingleInv(n)}
<1>1. 0 \in S
  <2>1. SingleScan(log)[0] = NothingBefore
    BY SingleScanDef
  <2>2. /\ NothingBefore.direction = NoDirection /\ NothingBefore.level = NoLevel
        /\ NothingBefore.starts \in Seq(SingleStart) /\ Len(NothingBefore.starts) = 0
    BY DEF NothingBefore
  <2>3. SingleInv(0)
    BY <2>1, <2>2 DEF SingleInv
  <2> QED
    BY <2>3
<1>2. ASSUME NEW n \in Nat, n \in S
      PROVE  n + 1 \in S
  <2>1. ASSUME n + 1 <= Len(log)
        PROVE  SingleInv(n + 1)
    <3>1. n + 1 \in 1 .. Len(log) /\ n + 1 - 1 = n /\ SingleInv(n)
      BY <1>2, <2>1
    <3> QED
      BY <3>1, SingleInductive
  <2> QED
    BY <2>1
<1> HIDE DEF S
<1>3. Len(log) \in S
  BY <1>1, <1>2, SetInduction
<1> QED
  BY <1>3 DEF S

-----------------------------------------------------------------------------
(* Greenhouse 1                                                            *)

DualStart == [line : Nat, zone : 1 .. 2, command : STRING, direction : {"OPEN", "CLOSE"}]

\* What is remembered of zone z after line i.
Recalled(i, z) == IF i = 0 THEN NoMovement ELSE Remembered(log[i][z], NoMovement, FALSE)

\* A movement of zone z that begins in line i.
BeginsAt(i, z) == Begins(log[i][z], Recalled(i - 1, z))
StartAt(i, z) ==
  [line |-> i, zone |-> z, command |-> log[i][z].command, direction |-> ClassifyDirection(log[i][z])]

\* The starts after zone z of line i was looked at.
After(starts, i, z, zones, skip) ==
  IF z \in zones /\ BeginsAt(i, z) THEN Choose(starts, StartAt(i, z), zones, skip) ELSE starts

\* The same when every zone and movement is asked for.
AfterAll(starts, i, z) == IF BeginsAt(i, z) THEN Append(starts, StartAt(i, z)) ELSE starts

\* The scan remembers of zone z what it should.
Remembers(scan, i, z) ==
  /\ DOMAIN scan.previous = 1 .. 2
  /\ scan.previous[z] = Recalled(i, z)

\* One zone of one line: whether a start is left out makes no difference to what is remembered.
LEMMA DualStepFacts ==
  ASSUME NEW i \in Nat \ {0}, NEW z \in 1 .. 2, NEW zones, z \in zones, NEW skip,
         NEW before, Remembers(before, i - 1, z)
  PROVE  LET scan == DualStep(before, log[i], z, i, skip) IN
         /\ scan.starts = After(before.starts, i, z, zones, skip)
         /\ Remembers(scan, i, z)
         /\ \A y \in 1 .. 2, n \in Nat : y # z /\ Remembers(before, n, y) => Remembers(scan, n, y)
<1> DEFINE scan == DualStep(before, log[i], z, i, skip)
           begins == BeginsAt(i, z)
           skipped == begins /\ skip /\ log[i][z].command = "STARTUP_CLOSE"
<1>1. DOMAIN before.previous = 1 .. 2 /\ before.previous[z] = Recalled(i - 1, z)
  BY DEF Remembers
<1>2. /\ scan.previous = [before.previous EXCEPT ![z] = Remembered(log[i][z], @, skipped)]
      /\ scan.starts = IF begins /\ ~skipped THEN Append(before.starts, StartAt(i, z)) ELSE before.starts
  BY <1>1 DEF DualStep, BeginsAt, StartAt
<1>3. /\ StartAt(i, z).zone = z /\ StartAt(i, z).command = log[i][z].command
  BY DEF StartAt
<1>4. Remembered(log[i][z], before.previous[z], skipped) = Recalled(i, z)
  BY DEF Remembered, Recalled
<1> HIDE DEF scan, begins
<1>5. scan.starts = IF begins THEN Choose(before.starts, StartAt(i, z), zones, skip) ELSE before.starts
  BY <1>2, <1>3 DEF Choose
<1> HIDE DEF skipped
<1>6. /\ DOMAIN scan.previous = 1 .. 2
      /\ scan.previous[z] = Remembered(log[i][z], before.previous[z], skipped)
      /\ \A y \in 1 .. 2 : y # z => scan.previous[y] = before.previous[y]
  BY <1>1, <1>2
<1> QED
  BY <1>4, <1>5, <1>6 DEF After, Remembers, begins, scan

\* Both zones.
LEMMA DualLineFacts ==
  ASSUME NEW i \in Nat \ {0}, NEW zones \in SUBSET (1 .. 2), NEW skip,
         NEW before, \A z \in zones : Remembers(before, i - 1, z)
  PROVE  LET scan == DualLine(before, log[i], i, zones, skip) IN
         /\ \A z \in zones : Remembers(scan, i, z)
         /\ scan.starts = After(After(before.starts, i, 1, zones, skip), i, 2, zones, skip)
<1> DEFINE scan == DualLine(before, log[i], i, zones, skip)
           first == IF 1 \in zones THEN DualStep(before, log[i], 1, i, skip) ELSE before
<1>1. scan = IF 2 \in zones THEN DualStep(first, log[i], 2, i, skip) ELSE first
  BY DEF DualLine
<1>2. /\ 1 \in 1 .. 2 /\ 2 \in 1 .. 2 /\ 1 # 2 /\ i - 1 \in Nat /\ \A z \in zones : z = 1 \/ z = 2
      /\ \A s : 1 \notin zones => After(s, i, 1, zones, skip) = s
      /\ \A s : 2 \notin zones => After(s, i, 2, zones, skip) = s
  BY DEF After
<1> HIDE DEF scan
<1>3. /\ first.starts = After(before.starts, i, 1, zones, skip)
      /\ 1 \in zones => Remembers(first, i, 1)
      /\ 2 \in zones => Remembers(first, i - 1, 2)
  <2>1. CASE 1 \in zones
    <3>1. first = DualStep(before, log[i], 1, i, skip)
      BY <2>1
    <3> HIDE DEF first
    <3> QED
      BY <1>2, <2>1, <3>1, DualStepFacts
  <2>2. CASE 1 \notin zones
    BY <1>2, <2>2
  <2> QED
    BY <2>1, <2>2
<1> HIDE DEF first
<1>4. /\ scan.starts = After(first.starts, i, 2, zones, skip)
      /\ 1 \in zones => Remembers(scan, i, 1)
      /\ 2 \in zones => Remembers(scan, i, 2)
  BY <1>1, <1>2, <1>3, DualStepFacts
<1> QED
  BY <1>2, <1>3, <1>4 DEF scan

\* Both zones, when every zone and movement is asked for.
LEMMA FullLineFacts ==
  ASSUME NEW i \in Nat \ {0}, NEW before, \A z \in {1, 2} : Remembers(before, i - 1, z)
  PROVE  LET scan == DualLine(before, log[i], i, {1, 2}, FALSE) IN
         /\ \A z \in {1, 2} : Remembers(scan, i, z)
         /\ scan.starts = AfterAll(AfterAll(before.starts, i, 1), i, 2)
<1> DEFINE scan == DualLine(before, log[i], i, {1, 2}, FALSE)
<1>1. {1, 2} \in SUBSET (1 .. 2)
  OBVIOUS
<1>2. /\ \A z \in {1, 2} : Remembers(scan, i, z)
      /\ scan.starts = After(After(before.starts, i, 1, {1, 2}, FALSE), i, 2, {1, 2}, FALSE)
  BY <1>1, DualLineFacts
<1>3. ASSUME NEW starts, NEW z \in {1, 2}
      PROVE  After(starts, i, z, {1, 2}, FALSE) = AfterAll(starts, i, z)
  BY DEF After, AfterAll, Choose, StartAt
<1>4. scan.starts = AfterAll(AfterAll(before.starts, i, 1), i, 2)
  <2> HIDE DEF scan
  <2> QED
    BY <1>2, <1>3
<1> QED
  BY <1>2, <1>4

\* Choosing commutes with looking at one zone more.
Commutes(starts, i, z, zones, skip) ==
  Chosen(AfterAll(starts, i, z), zones, skip) = After(Chosen(starts, zones, skip), i, z, zones, skip)

\* It does when the start is one.
LEMMA ChosenAfter ==
  ASSUME NEW i \in Nat, NEW z \in 1 .. 2, StartAt(i, z) \in DualStart,
         NEW starts \in Seq(DualStart), NEW zones, NEW skip
  PROVE  Commutes(starts, i, z, zones, skip)
<1> DEFINE s == StartAt(i, z)
<1>1. s.zone = z
  BY DEF StartAt
<1> HIDE DEF s
<1>2. AfterAll(starts, i, z) = IF BeginsAt(i, z) THEN Append(starts, s) ELSE starts
  BY DEF AfterAll, s
<1>3. Chosen(Append(starts, s), zones, skip) = Choose(Chosen(starts, zones, skip), s, zones, skip)
  BY ChosenAppend DEF s
<1>4. z \notin zones => Choose(Chosen(starts, zones, skip), s, zones, skip) = Chosen(starts, zones, skip)
  BY <1>1 DEF Choose
<1>5. After(Chosen(starts, zones, skip), i, z, zones, skip) =
        IF z \in zones /\ BeginsAt(i, z) THEN Choose(Chosen(starts, zones, skip), s, zones, skip)
        ELSE Chosen(starts, zones, skip)
  BY DEF After, s
<1> QED
  BY <1>2, <1>3, <1>4, <1>5 DEF Commutes

\* A zone that moves is a direction and a command.
LEMMA StartTypes ==
  ASSUME log \in Seq(Lines("g1")), NEW i \in 1 .. Len(log), NEW z \in 1 .. 2
  PROVE  /\ log[i][z].command \in STRING
         /\ ClassifyDirection(log[i][z]) \in {"OPEN", "CLOSE", NoDirection}
         /\ BeginsAt(i, z) => StartAt(i, z) \in DualStart
<1>1. log[i] \in [1 .. 2 -> [command : STRING, state : STRING]]
  BY DEF Lines
<1>2. ClassifyDirection(log[i][z]) \in {"OPEN", "CLOSE", NoDirection}
  BY DEF ClassifyDirection
<1>3. BeginsAt(i, z) => ClassifyDirection(log[i][z]) # NoDirection
  BY DEF BeginsAt, Begins
<1> QED
  BY <1>1, <1>2, <1>3 DEF StartAt, DualStart

\* A movement of zone z among starts goes on from its beginning to line i.
DualCovered(starts, i, z) ==
  \E k \in 1 .. Len(starts) :
    /\ starts[k].zone = z
    /\ starts[k].line <= i
    /\ \A j \in starts[k].line .. i :
         /\ ClassifyDirection(log[j][z]) # NoDirection
         /\ log[j][z].command = starts[k].command

\* Every line up to n in which zone z moves is in a movement.
DualCovers(starts, n, z) ==
  \A j \in 1 .. n : ClassifyDirection(log[j][z]) # NoDirection => DualCovered(starts, j, z)

\* A start among the first n lines is not of a line that says what the line before said.
DualMoving(start, n) ==
  /\ start.line \in 1 .. n
  /\ start.line = 1 \/ log[start.line] # log[start.line - 1]

\* One start more covers what the starts before covered.
LEMMA DualCoveredLonger ==
  ASSUME NEW starts \in Seq(DualStart), NEW s \in DualStart, NEW j \in Nat, NEW z
  PROVE  /\ DualCovered(starts, j, z) => DualCovered(Append(starts, s), j, z)
         /\ /\ s.line = j /\ s.zone = z /\ s.command = log[j][z].command
            /\ ClassifyDirection(log[j][z]) # NoDirection
            => DualCovered(Append(starts, s), j, z)
<1> DEFINE longer == Append(starts, s)
<1>1. /\ Len(starts) \in Nat /\ Len(longer) = Len(starts) + 1 /\ longer[Len(starts) + 1] = s
      /\ \A k \in 1 .. Len(starts) : longer[k] = starts[k]
      /\ s.line \in Nat
  BY DEF DualStart
<1> HIDE DEF longer
<1>2. ASSUME DualCovered(starts, j, z)
      PROVE  DualCovered(longer, j, z)
  <2>1. PICK k \in 1 .. Len(starts) :
          /\ starts[k].zone = z
          /\ starts[k].line <= j
          /\ \A i \in starts[k].line .. j :
               /\ ClassifyDirection(log[i][z]) # NoDirection
               /\ log[i][z].command = starts[k].command
    BY <1>2 DEF DualCovered
  <2>2. k \in 1 .. Len(longer) /\ longer[k] = starts[k]
    BY <1>1
  <2> QED
    BY <2>1, <2>2 DEF DualCovered
<1>3. ASSUME s.line = j, s.zone = z, s.command = log[j][z].command,
             ClassifyDirection(log[j][z]) # NoDirection
      PROVE  DualCovered(longer, j, z)
  <2>1. Len(starts) + 1 \in 1 .. Len(longer)
    BY <1>1
  <2>2. \A i \in s.line .. j : i = j
    BY <1>1, <1>3
  <2> QED
    BY <1>1, <1>3, <2>1, <2>2 DEF DualCovered
<1> QED
  BY <1>2, <1>3 DEF longer

\* What the line before must have said of a zone that goes on.
LEMMA GoesOn ==
  ASSUME NEW i \in Nat \ {0}, NEW z, ClassifyDirection(log[i][z]) # NoDirection
  PROVE  /\ ~BeginsAt(i, z) => /\ i # 1 /\ ClassifyDirection(log[i - 1][z]) # NoDirection
                               /\ log[i - 1][z].command = log[i][z].command
         /\ i # 1 /\ log[i] = log[i - 1] => ~BeginsAt(i, z)
<1>1. i - 1 = 0 <=> i = 1
  OBVIOUS
<1>2. i = 1 => Recalled(i - 1, z).direction = NoDirection
  BY <1>1 DEF Recalled, NoMovement
<1>3. i # 1 => Recalled(i - 1, z) = Remembered(log[i - 1][z], NoMovement, FALSE)
  BY <1>1 DEF Recalled
<1>4. /\ ClassifyDirection(log[i - 1][z]) = NoDirection =>
           Remembered(log[i - 1][z], NoMovement, FALSE).direction = NoDirection
      /\ ClassifyDirection(log[i - 1][z]) # NoDirection =>
           /\ Remembered(log[i - 1][z], NoMovement, FALSE).direction # NoDirection
           /\ Remembered(log[i - 1][z], NoMovement, FALSE).command = log[i - 1][z].command
  BY DEF Remembered, NoMovement
<1> QED
  BY <1>2, <1>3, <1>4 DEF BeginsAt, Begins

\* One zone of line i more.
LEMMA AfterFacts ==
  ASSUME log \in Seq(Lines("g1")), NEW i \in 1 .. Len(log), NEW z \in 1 .. 2,
         NEW starts \in Seq(DualStart), \A k \in 1 .. Len(starts) : DualMoving(starts[k], i),
         DualCovers(starts, i - 1, z)
  PROVE  LET after == AfterAll(starts, i, z) IN
         /\ after \in Seq(DualStart)
         /\ \A k \in 1 .. Len(after) : DualMoving(after[k], i)
         /\ DualCovers(after, i, z)
         /\ \A y \in 1 .. 2, n \in Nat : DualCovers(starts, n, y) => DualCovers(after, n, y)
<1> DEFINE after == AfterAll(starts, i, z)
           s == StartAt(i, z)
           begins == BeginsAt(i, z)
<1>1. /\ s.line = i /\ s.zone = z /\ s.command = log[i][z].command /\ z \in {1, 2}
      /\ i \in Nat \ {0} /\ i - 1 \in Nat
  BY DEF StartAt
<1>2. after = IF begins THEN Append(starts, s) ELSE starts
  BY DEF AfterAll
<1>3. /\ begins => s \in DualStart
      /\ begins => ClassifyDirection(log[i][z]) # NoDirection
  BY StartTypes DEF BeginsAt, Begins
<1>4. begins => DualMoving(s, i)
  BY <1>1, <1>3, GoesOn DEF DualMoving
<1> HIDE DEF after, s, begins
<1>5. after \in Seq(DualStart)
  BY <1>2, <1>3
<1>6. ASSUME NEW k \in 1 .. Len(after)
      PROVE  DualMoving(after[k], i)
  <2>1. CASE begins
    <3>1. after[k] = s \/ (k \in 1 .. Len(starts) /\ after[k] = starts[k])
      BY <1>2, <1>3, <1>6, <2>1
    <3> QED
      BY <1>4, <2>1, <3>1
  <2>2. CASE ~begins
    BY <1>2, <1>6, <2>2
  <2> QED
    BY <2>1, <2>2
<1>7. ASSUME NEW y, NEW j \in Nat, DualCovered(starts, j, y)
      PROVE  DualCovered(after, j, y)
  BY <1>2, <1>3, <1>7, DualCoveredLonger
<1>8. \A y \in 1 .. 2, n \in Nat : DualCovers(starts, n, y) => DualCovers(after, n, y)
  BY <1>7 DEF DualCovers
<1>9. ASSUME NEW j \in 1 .. i, ClassifyDirection(log[j][z]) # NoDirection
      PROVE  DualCovered(after, j, z)
  <2>1. CASE j # i
    <3>1. DualCovered(starts, j, z) /\ j \in Nat
      <4>1. j \in 1 .. i - 1 /\ j \in Nat
        BY <1>1, <1>9, <2>1
      <4> QED
        BY <1>9, <4>1 DEF DualCovers
    <3> QED
      BY <1>7, <3>1
  <2>2. CASE j = i /\ begins
    BY <1>1, <1>2, <1>3, <1>9, <2>2, DualCoveredLonger
  <2>3. CASE j = i /\ ~begins
    <3>1. /\ i # 1 /\ ClassifyDirection(log[i - 1][z]) # NoDirection
          /\ log[i - 1][z].command = log[i][z].command
      BY <1>1, <1>9, <2>3, GoesOn DEF begins
    <3>2. DualCovered(starts, i - 1, z)
      <4>1. i - 1 \in 1 .. i - 1
        BY <1>1, <3>1
      <4> QED
        BY <3>1, <4>1 DEF DualCovers
    <3>3. PICK k \in 1 .. Len(starts) :
            /\ starts[k].zone = z
            /\ starts[k].line <= i - 1
            /\ \A m \in starts[k].line .. i - 1 :
                 /\ ClassifyDirection(log[m][z]) # NoDirection
                 /\ log[m][z].command = starts[k].command
      BY <3>2 DEF DualCovered
    <3>4. starts[k].line \in Nat
      BY <1>1, <3>3 DEF DualMoving
    <3>5. starts[k].line <= i /\ log[i - 1][z].command = starts[k].command
      BY <1>1, <3>3, <3>4
    <3>6. \A m \in starts[k].line .. i : m = i \/ m \in starts[k].line .. i - 1
      BY <1>1, <3>4
    <3>7. after = starts
      BY <1>2, <2>3
    <3>8. \A m \in starts[k].line .. i :
                 /\ ClassifyDirection(log[m][z]) # NoDirection
                 /\ log[m][z].command = starts[k].command
      BY <1>9, <2>3, <3>1, <3>3, <3>5, <3>6
    <3> QED
      BY <2>3, <3>3, <3>5, <3>7, <3>8 DEF DualCovered
  <2> QED
    BY <2>1, <2>2, <2>3
<1> QED
  BY <1>5, <1>6, <1>8, <1>9 DEF DualCovers, after

\* The scan for every zone and movement: what is remembered after line i, and what the
\* starts up to there say.
FullScan(i) == DualScan(log, {1, 2}, FALSE)[i]
DualInv(i) ==
  /\ \A z \in {1, 2} : Remembers(FullScan(i), i, z)
  /\ FullScan(i).starts \in Seq(DualStart)
  /\ \A k \in 1 .. Len(FullScan(i).starts) : DualMoving(FullScan(i).starts[k], i)
  /\ \A z \in 1 .. 2 : DualCovers(FullScan(i).starts, i, z)

\* One line more of the scan for every zone.
LEMMA DualInductive ==
  ASSUME log \in Seq(Lines("g1")), NEW i \in 1 .. Len(log), DualInv(i - 1)
  PROVE  DualInv(i)
<1> DEFINE before == FullScan(i - 1)
           scan == FullScan(i)
           first == AfterAll(before.starts, i, 1)
<1>1. Len(log) \in Nat /\ i \in Nat \ {0} /\ i - 1 \in Nat /\ 1 \in 1 .. 2 /\ 2 \in 1 .. 2
      /\ {1, 2} \in SUBSET (1 .. 2)
  OBVIOUS
<1>2. scan = DualLine(before, log[i], i, {1, 2}, FALSE)
  BY <1>1, DualScanDef DEF FullScan
<1>3. /\ \A z \in {1, 2} : Remembers(before, i - 1, z)
      /\ before.starts \in Seq(DualStart)
      /\ \A k \in 1 .. Len(before.starts) : DualMoving(before.starts[k], i - 1)
      /\ \A z \in 1 .. 2 : DualCovers(before.starts, i - 1, z)
  BY DEF DualInv
<1> HIDE DEF before, scan
<1>4. \A z \in {1, 2} : Remembers(before, i - 1, z)
  BY <1>3
<1>5. /\ \A z \in {1, 2} : Remembers(scan, i, z)
      /\ scan.starts = AfterAll(first, i, 2)
  BY ONLY <1>1, <1>2, <1>4, FullLineFacts
<1>6. \A k \in 1 .. Len(before.starts) : DualMoving(before.starts[k], i)
  BY <1>1, <1>3 DEF DualMoving
<1>7. /\ first \in Seq(DualStart)
      /\ \A k \in 1 .. Len(first) : DualMoving(first[k], i)
      /\ DualCovers(first, i, 1) /\ DualCovers(first, i - 1, 2)
  BY <1>1, <1>3, <1>6, AfterFacts
<1> HIDE DEF first
<1> DEFINE starts == scan.starts
<1>8. starts = AfterAll(first, i, 2)
  BY <1>5
<1> HIDE DEF starts
<1>9. /\ starts \in Seq(DualStart)
      /\ \A k \in 1 .. Len(starts) : DualMoving(starts[k], i)
      /\ DualCovers(starts, i, 1) /\ DualCovers(starts, i, 2)
  BY <1>1, <1>7, <1>8, AfterFacts
<1>10. \A z \in 1 .. 2 : z = 1 \/ z = 2
  OBVIOUS
<1> QED
  BY <1>5, <1>9, <1>10 DEF DualInv, scan, starts

\* The scan for some zones chooses from what the scan for all of them found.
DualTaken(i, zones, skip) ==
  /\ \A z \in zones : Remembers(DualScan(log, zones, skip)[i], i, z)
  /\ DualScan(log, zones, skip)[i].starts = Chosen(FullScan(i).starts, zones, skip)

\* The starts of a log's lines are starts, so choosing commutes with each of its lines.
LEMMA ChosenAfterLine ==
  ASSUME log \in Seq(Lines("g1")), NEW i \in 1 .. Len(log), NEW z \in 1 .. 2,
         NEW starts \in Seq(DualStart), NEW zones, NEW skip
  PROVE  Commutes(starts, i, z, zones, skip)
<1>1. CASE BeginsAt(i, z)
  <2>1. StartAt(i, z) \in DualStart /\ i \in Nat
    BY <1>1, StartTypes
  <2> QED
    BY <2>1, ChosenAfter, Zenon
<1>2. CASE ~BeginsAt(i, z)
  BY <1>2 DEF Commutes, After, AfterAll
<1> QED
  BY <1>1, <1>2

\* One line more of the scan for some zones.
LEMMA DualTakenInductive ==
  ASSUME log \in Seq(Lines("g1")), NEW i \in 1 .. Len(log), DualInv(i - 1),
         NEW zones \in SUBSET (1 .. 2), NEW skip, DualTaken(i - 1, zones, skip)
  PROVE  DualTaken(i, zones, skip)
<1> DEFINE before == DualScan(log, zones, skip)[i - 1]
           scan == DualScan(log, zones, skip)[i]
           full == FullScan(i - 1)
           fuller == FullScan(i)
           first == AfterAll(full.starts, i, 1)
<1>1. Len(log) \in Nat /\ i \in Nat \ {0} /\ i - 1 \in Nat /\ 1 \in 1 .. 2 /\ 2 \in 1 .. 2
      /\ {1, 2} \in SUBSET (1 .. 2) /\ i \in Nat
  OBVIOUS
<1>2. /\ fuller = DualLine(full, log[i], i, {1, 2}, FALSE)
      /\ scan = DualLine(before, log[i], i, zones, skip)
  BY <1>1, DualScanDef DEF FullScan
<1>3. /\ \A z \in {1, 2} : Remembers(full, i - 1, z)
      /\ full.starts \in Seq(DualStart)
      /\ \A k \in 1 .. Len(full.starts) : DualMoving(full.starts[k], i - 1)
      /\ \A z \in 1 .. 2 : DualCovers(full.starts, i - 1, z)
  BY DEF DualInv
<1>4. /\ \A z \in zones : Remembers(before, i - 1, z)
      /\ before.starts = Chosen(full.starts, zones, skip)
  BY DEF DualTaken
<1> HIDE DEF before, full, scan, fuller
<1>5. \A z \in {1, 2} : Remembers(full, i - 1, z)
  BY <1>3
<1>6. zones \in SUBSET (1 .. 2) /\ \A z \in zones : Remembers(before, i - 1, z)
  BY <1>4
<1>7. fuller.starts = AfterAll(first, i, 2)
  BY ONLY <1>1, <1>2, <1>5, FullLineFacts
<1>8. /\ \A z \in zones : Remembers(scan, i, z)
      /\ scan.starts = After(After(before.starts, i, 1, zones, skip), i, 2, zones, skip)
  BY ONLY <1>1, <1>2, <1>6, DualLineFacts
<1>9. \A k \in 1 .. Len(full.starts) : DualMoving(full.starts[k], i)
  BY <1>1, <1>3 DEF DualMoving
<1>10. first \in Seq(DualStart)
  BY <1>1, <1>3, <1>9, AfterFacts
<1>11. Chosen(first, zones, skip) = After(before.starts, i, 1, zones, skip)
  <2>1. Commutes(full.starts, i, 1, zones, skip)
    BY <1>1, <1>3, ChosenAfterLine
  <2> QED
    BY <1>4, <2>1 DEF Commutes
<1> HIDE DEF first
<1>12. Chosen(fuller.starts, zones, skip) = After(Chosen(first, zones, skip), i, 2, zones, skip)
  <2>1. Commutes(first, i, 2, zones, skip)
    BY <1>1, <1>10, ChosenAfterLine
  <2> QED
    BY <1>7, <2>1 DEF Commutes
<1> QED
  BY <1>8, <1>11, <1>12 DEF DualTaken, scan, fuller

\* So both scans are right after the last line.
LEMMA DualThroughout ==
  ASSUME log \in Seq(Lines("g1")), NEW zones \in SUBSET (1 .. 2), NEW skip
  PROVE  DualInv(Len(log)) /\ DualTaken(Len(log), zones, skip)
<1> DEFINE S == {n \in Nat : n <= Len(log) => DualInv(n) /\ DualTaken(n, zones, skip)}
<1>0. Len(log) \in Nat
  OBVIOUS
<1>1. 0 \in S
  <2>1. /\ FullScan(0) = NoMovements /\ DualScan(log, zones, skip)[0] = NoMovements
    BY <1>0, DualScanDef DEF FullScan
  <2>2. /\ NoMovements.starts = <<>>
        /\ \A z \in 1 .. 2 : Remembers(NoMovements, 0, z)
    BY DEF NoMovements, Remembers, Recalled
  <2>3. /\ <<>> \in Seq(DualStart) /\ Len(<<>>) = 0
        /\ \A z \in 1 .. 2 : DualCovers(<<>>, 0, z)
        /\ \A z \in {1, 2} : z \in 1 .. 2
    BY DEF DualCovers
  <2>4. DualInv(0)
    <3>1. FullScan(0).starts = <<>> /\ \A z \in 1 .. 2 : Remembers(FullScan(0), 0, z)
      BY <2>1, <2>2
    <3>2. \A k \in 1 .. Len(FullScan(0).starts) : FALSE
      BY <2>3, <3>1
    <3>3. \A z \in 1 .. 2 : DualCovers(FullScan(0).starts, 0, z)
      BY <2>3, <3>1
    <3>4. FullScan(0).starts \in Seq(DualStart)
      BY <2>3, <3>1
    <3> QED
      BY <2>3, <3>1, <3>2, <3>3, <3>4, Zenon DEF DualInv
  <2>5. DualTaken(0, zones, skip)
    BY <2>1, <2>2, ChosenEmpty DEF DualTaken
  <2> QED
    BY <2>4, <2>5
<1>2. ASSUME NEW n \in Nat, n \in S
      PROVE  n + 1 \in S
  <2>1. ASSUME n + 1 <= Len(log)
        PROVE  DualInv(n + 1) /\ DualTaken(n + 1, zones, skip)
    <3>1. n + 1 \in 1 .. Len(log) /\ n + 1 - 1 = n /\ DualInv(n) /\ DualTaken(n, zones, skip)
      BY <1>0, <1>2, <2>1
    <3> QED
      BY <3>1, DualInductive, DualTakenInductive
  <2> QED
    BY <2>1
<1> HIDE DEF S
<1>3. Len(log) \in S
  BY <1>0, <1>1, <1>2, SetInduction
<1> QED
  BY <1>0, <1>3 DEF S

-----------------------------------------------------------------------------
(* What the invariants of the scans say of the starts                      *)

\* The log is a sequence of the greenhouse's lines.
LEMMA LogLines ==
  ASSUME TypeOK
  PROVE  Len(log) \in Nat /\ log \in Seq(Lines(house))
<1>1. log \in Seq(Status[house]) /\ house \in Houses
  BY DEF TypeOK
<1>2. Status[house] \subseteq Lines(house)
  BY <1>1, StatusAssumption
<1> QED
  BY <1>1, <1>2

\* What the summaries promise holds of every such log.
LEMMA TypesSuffice ==
  ASSUME TypeOK
  PROVE  SingleReported /\ DualReported /\ OptionsOnlySelect
<1>1. Len(log) \in Nat /\ log \in Seq(Lines(house))
  BY LogLines
<1>2. SingleReported
  <2> SUFFICES ASSUME house = "g2"
               PROVE  SingleReported
    BY DEF SingleReported
  <2>1. Starts = SingleScan(log)[Len(log)].starts
    BY DEF Starts, SingleStarts
  <2>2. SingleInv(Len(log))
    BY <1>1, SingleThroughout
  <2> DEFINE starts == Starts
  <2>3. /\ \A j \in 1 .. Len(log) : Direction(j) # NoDirection => Covered(starts, j)
        /\ \A k \in 1 .. Len(starts) : Moving(starts[k], Len(log))
    BY <2>1, <2>2 DEF SingleInv
  <2> HIDE DEF starts
  <2> QED
    BY <2>3 DEF SingleReported, Covered, Moving, starts
<1>3. ASSUME house = "g1", NEW zones \in {{1}, {2}, {1, 2}}, NEW skip \in BOOLEAN
      PROVE  DualInv(Len(log)) /\ DualTaken(Len(log), zones, skip)
             /\ Starts = FullScan(Len(log)).starts
  <2>1. zones \in SUBSET (1 .. 2)
    OBVIOUS
  <2>2. Starts = FullScan(Len(log)).starts
    BY <1>3, Zenon DEF Starts, DualStarts, FullScan
  <2> QED
    BY <1>1, <1>3, <2>1, <2>2, DualThroughout
<1>4. DualReported
  <2> SUFFICES ASSUME house = "g1"
               PROVE  DualReported
    BY DEF DualReported
  <2>1. DualInv(Len(log)) /\ Starts = FullScan(Len(log)).starts
    BY <1>3
  <2> DEFINE starts == Starts
  <2>2. \A z \in 1 .. 2 : DualCovers(starts, Len(log), z)
    BY <2>1 DEF DualInv
  <2> HIDE DEF starts
  <2> QED
    BY <2>2 DEF DualReported, DualCovers, DualCovered, starts
<1>5. OptionsOnlySelect
  BY <1>3 DEF OptionsOnlySelect, DualTaken, DualStarts
<1> QED
  BY <1>2, <1>4, <1>5

\* A movement that is reported does not begin in a line that says what the line before said.
LEMMA StartsDiffer ==
  ASSUME TypeOK, NEW k \in 1 .. Len(Starts)
  PROVE  LET i == Starts[k].line IN
         /\ i \in 1 .. Len(log)
         /\ i = 1 \/ log[i] # log[i - 1]
<1>1. Len(log) \in Nat /\ log \in Seq(Lines(house)) /\ house \in {"g1", "g2"}
  BY LogLines DEF TypeOK, Houses
<1>2. CASE house = "g2"
  <2>1. Starts = SingleScan(log)[Len(log)].starts
    BY <1>2 DEF Starts, SingleStarts
  <2>2. SingleInv(Len(log))
    BY <1>1, SingleThroughout
  <2> QED
    BY <2>1, <2>2 DEF SingleInv, Moving
<1>3. CASE house = "g1"
  <2>1. {1, 2} \in SUBSET (1 .. 2)
    OBVIOUS
  <2>2. Starts = FullScan(Len(log)).starts
    BY <1>3, Zenon DEF Starts, DualStarts, FullScan
  <2>3. DualInv(Len(log))
    BY <1>1, <1>3, <2>1, DualThroughout
  <2> QED
    BY <2>2, <2>3 DEF DualInv, DualMoving
<1> QED
  BY <1>1, <1>2, <1>3

-----------------------------------------------------------------------------
(* The theorems                                                            *)

\* Every reachable state is well typed.
THEOREM StatusTypes == Spec => []TypeOK
<1>1. StatusInv => TypeOK
  BY DEF StatusInv
<1> QED
  BY <1>1, StatusInvariant, PTL

\* Whatever fails and however often the logger is killed and reads its file back, the
\* count of failures never exceeds the failures since a poll last went through.
THEOREM CountAlwaysHonest == Spec => []CountIsHonest
<1>1. StatusInv => CountIsHonest
  BY DEF StatusInv, CountOK
<1> QED
  BY <1>1, StatusInvariant, PTL

\* Greenhouse 2: however long the log and whatever is in it, every line that moves is in a
\* movement that was reported, with its direction, and what is reported did begin there.
THEOREM SingleMovementsReported == Spec => []SingleReported
<1>1. TypeOK => SingleReported
  BY TypesSuffice
<1> QED
  BY <1>1, StatusTypes, PTL

\* Greenhouse 1: every line in which a zone moves is in a movement that was reported, with
\* the zone and its command.
THEOREM DualMovementsReported == Spec => []DualReported
<1>1. TypeOK => DualReported
  BY TypesSuffice
<1> QED
  BY <1>1, StatusTypes, PTL

\* Asking the summary of greenhouse 1 for one zone, or for no movements at the controller's
\* start, leaves out just those, in every log.
THEOREM OptionsSelectOnly == Spec => []OptionsOnlySelect
<1>1. TypeOK => OptionsOnlySelect
  BY TypesSuffice
<1> QED
  BY <1>1, StatusTypes, PTL

\* When the summary sees a movement begin between two polls that both went through, the
\* transitions log tells of it, whatever failed between them and after, for any number of
\* polls, failures and deaths of the logger.
THEOREM StartsAreTransitions == Spec => []StartIsTransition
<1>1. ASSUME StatusInv, TraceOK
      PROVE  StartIsTransition
  <2> DEFINE starts == Starts
  <2> SUFFICES ASSUME NEW k \in 1 .. Len(starts),
                      starts[k].line - 1 \in complete, starts[k].line \in complete
               PROVE  \E t \in moved : /\ t.to = log[starts[k].line]
                                       /\ t.at \in {starts[k].line - 1, starts[k].line}
    BY DEF StartIsTransition
  <2> DEFINE i == starts[k].line
  <2>1. TypeOK /\ complete \subseteq 1 .. Len(log) /\ Len(log) \in Nat
    BY <1>1 DEF StatusInv, TypeOK
  <2>2. i \in 1 .. Len(log) /\ (i = 1 \/ log[i] # log[i - 1])
    BY <2>1, StartsDiffer
  <2> HIDE DEF i
  <2>3. i - 1 \in complete /\ i \in complete
    BY DEF i
  <2>4. log[i] # log[i - 1]
    BY <2>1, <2>2, <2>3
  <2>5. \E a \in {i - 1, i} : [to |-> log[i], at |-> a] \in moved
    BY <1>1, <2>3, <2>4 DEF TraceOK, Told
  <2> QED
    BY <2>5 DEF i
<1> QED
  BY <1>1, TraceInvariant, PTL
=============================================================================
