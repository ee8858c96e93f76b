------------------------- MODULE SnapshotRuntimeProofs -------------------------
(* Proofs about SnapshotRuntime, for every instance of its constants.          *)
EXTENDS SnapshotRuntime, TLAPS

-----------------------------------------------------------------------------
(* The inductive invariant                                                 *)

Inside == {"copy", "copyRest", "seal"}

\* Where a thread stands fits the lock, the numbers and what it has copied; the value
\* that started it is in the store until it is in the copy.
ThreadOK(t) ==
  /\ thread[t].pc \in Inside <=> lock = t
  /\ lock = t => thread[t].seq = seq
  /\ thread[t].pc \notin {"seal", "publishG1", "publishG2", "publishT3"} => thread[t].due <= store.g2
  /\ thread[t].pc \in {"seal", "publishG1", "publishG2"} => thread[t].due <= thread[t].copy.g2
  /\ thread[t].pc = "seal" =>
       /\ thread[t].copy.g2 <= store.g2
       /\ thread[t].copy.g2 >= last.g2
       /\ thread[t].copy.t3 = store.t3

\* No number and no value of greenhouse 2 in the last packet is ahead of the store.
LastOK ==
  /\ last.seq <= seq
  /\ last.envelope <= envelope
  /\ last.g2 <= store.g2
  /\ lock \in Thread => last.seq < seq \/ seq = MaxNumber

\* The snapshots that changes started are a second apart.
PaceOK ==
  /\ reactive * Second <= lastReactive
  /\ lastReactive <= clock
  /\ mqtt.pc = "wait" => mqtt.at <= clock /\ mqtt.value <= store.g2

SnapshotInv ==
  /\ TypeOK
  /\ \A t \in Thread : ThreadOK(t)
  /\ LastOK
  /\ AlertsFitCopy
  /\ PaceOK

-----------------------------------------------------------------------------
(* Types of the records                                                    *)

LEMMA RecordTypes ==
  /\ NoNode \in Node /\ NoState \in State /\ Fresh \in Threads /\ Idle \in Threads
  /\ Fresh.pc = "fetch" /\ Idle.pc = "idle" /\ Fresh.due = 0 /\ Idle.due = 0
  /\ NoState.g1 = 0 /\ NoState.g2 = 0
<1>1. NoNode \in Node
  BY DEF NoNode, Node
<1>2. NoState \in State /\ NoState.g1 = 0 /\ NoState.g2 = 0
  BY <1>1 DEF NoState, State
<1>3. Fresh \in Threads /\ Fresh.pc = "fetch" /\ Fresh.due = 0
  BY <1>1, <1>2 DEF Fresh, Threads, Steps
<1>4. Idle \in Threads /\ Idle.pc = "idle" /\ Idle.due = 0
  BY <1>3 DEF Idle, Threads, Steps
<1> QED
  BY <1>1, <1>2, <1>3, <1>4

\* A snapshot thread that is started for a value.
LEMMA Starting ==
  ASSUME NEW due \in Nat
  PROVE  /\ [Fresh EXCEPT !.due = due] \in Threads
         /\ [Fresh EXCEPT !.due = due].pc = "fetch" /\ [Fresh EXCEPT !.due = due].due = due
BY RecordTypes DEF Threads

LEMMA OtherRecordTypes ==
  /\ NoAnswer \in [pc : {"idle", "compare", "replace"}, g1 : Nat, changed : BOOLEAN]
  /\ NoMessage \in [pc : {"idle", "set", "wait"}, value : Nat, at : Nat, current : BOOLEAN]
  /\ NoMessage.pc = "idle"
  /\ NoSnapshot \in [seq : Nat, envelope : Nat, g2 : Nat, t3 : Node, alertsG2 : Nat, alertsT3 : Node]
<1>1. NoAnswer \in [pc : {"idle", "compare", "replace"}, g1 : Nat, changed : BOOLEAN]
  BY DEF NoAnswer
<1>2. NoMessage \in [pc : {"idle", "set", "wait"}, value : Nat, at : Nat, current : BOOLEAN]
  BY DEF NoMessage
<1>3. NoSnapshot \in [seq : Nat, envelope : Nat, g2 : Nat, t3 : Node, alertsG2 : Nat, alertsT3 : Node]
  BY RecordTypes DEF NoSnapshot
<1> QED
  BY <1>1, <1>2, <1>3 DEF NoMessage

LEMMA BumpType ==
  ASSUME NEW n \in 0 .. MaxNumber
  PROVE  /\ Bump(n) \in 0 .. MaxNumber /\ Bump(n) >= n
         /\ Bump(n) > n \/ Bump(n) = MaxNumber
BY SnapshotAssumption DEF Bump

-----------------------------------------------------------------------------
(* The invariant holds at first                                            *)

LEMMA InvInit == Init => SnapshotInv
<1> SUFFICES ASSUME Init PROVE SnapshotInv
  OBVIOUS
<1> USE SnapshotAssumption DEF Init
<1>1. TypeOK
  BY RecordTypes, OtherRecordTypes DEF TypeOK
<1>2. \A t \in Thread : ThreadOK(t)
  BY RecordTypes DEF ThreadOK, Inside
<1>3. LastOK /\ AlertsFitCopy
  BY RecordTypes DEF LastOK, AlertsFitCopy, NoSnapshot
<1>4. PaceOK
  BY OtherRecordTypes DEF PaceOK
<1> QED
  BY <1>1, <1>2, <1>3, <1>4 DEF SnapshotInv

-----------------------------------------------------------------------------
(* What steps leave alone                                                  *)

\* A thread that does not move, while greenhouse 2 gets no older and, if it is inside,
\* nobody draws a number, seals or replaces the node.
LEMMA ThreadFrame ==
  ASSUME TypeOK, TypeOK', NEW t \in Thread, ThreadOK(t), thread'[t] = thread[t],
         lock' = t <=> lock = t, store'.g2 >= store.g2,
         lock = t => seq' = seq /\ last' = last /\ store'.t3 = store.t3
  PROVE  ThreadOK(t)'
<1>1. thread[t] \in Threads /\ store \in State /\ store' \in State
  BY DEF TypeOK
<1>2. /\ thread[t].due \in Nat /\ thread[t].copy \in State /\ thread[t].copy.g2 \in Nat
      /\ store.g2 \in Nat /\ store'.g2 \in Nat
  BY <1>1 DEF Threads, State
<1>3. (thread[t].pc = "seal") => lock = t
  BY DEF ThreadOK, Inside
<1> QED
  BY <1>2, <1>3 DEF ThreadOK

\* All threads, when none moves.
LEMMA ThreadsFrame ==
  ASSUME SnapshotInv, TypeOK', UNCHANGED <<thread, seq, last>>,
         \A t \in Thread : lock' = t <=> lock = t,
         store'.g2 >= store.g2, store'.t3 = store.t3
  PROVE  \A t \in Thread : ThreadOK(t)'
BY ThreadFrame DEF SnapshotInv

\* A thread in a slot is started for a value that is in the store.
LEMMA StartFrame ==
  ASSUME SnapshotInv, TypeOK', UNCHANGED <<lock, seq, last>>, NEW due \in Nat, StartSnapshot(due),
         store'.g2 >= store.g2, store'.t3 = store.t3, due <= store.g2
  PROVE  \A t \in Thread : ThreadOK(t)'
<1>1. PICK s \in Slot : At(s, "idle") /\ thread' = [thread EXCEPT ![s] = [Fresh EXCEPT !.due = due]]
  BY DEF StartSnapshot
<1>2. TypeOK /\ s \in Thread
  BY DEF SnapshotInv, Thread
<1>3. thread'[s] = [Fresh EXCEPT !.due = due]
  BY <1>1, <1>2 DEF TypeOK
<1>4. thread'[s].pc = "fetch" /\ thread'[s].due = due
  BY <1>3, Starting
<1>5. lock # s
  BY <1>1, <1>2 DEF SnapshotInv, ThreadOK, At, Inside
<1>6. store.g2 \in Nat /\ store'.g2 \in Nat
  BY <1>2 DEF TypeOK, State
<1>7. ThreadOK(s)'
  BY <1>4, <1>5, <1>6 DEF ThreadOK, Inside
<1>8. ASSUME NEW t \in Thread, t # s PROVE ThreadOK(t)'
  <2>1. thread'[t] = thread[t]
    BY <1>1, <1>2, <1>8 DEF TypeOK
  <2> QED
    BY <1>2, <2>1, ThreadFrame DEF SnapshotInv
<1> QED
  BY <1>7, <1>8

LEMMA StartType ==
  ASSUME TypeOK, NEW due \in Nat, StartSnapshot(due)
  PROVE  thread' \in [Thread -> Threads]
BY Starting DEF TypeOK, StartSnapshot, Thread

\* The threads that one thread's step leaves behind it.
LEMMA OneThread ==
  ASSUME SnapshotInv, TypeOK', NEW t \in Thread, NEW k, thread' = [thread EXCEPT ![t] = k],
         \A b \in Thread \ {t} : lock' = b <=> lock = b,
         store'.g2 >= store.g2,
         lock \in Thread \ {t} => seq' = seq /\ last' = last /\ store'.t3 = store.t3,
         ThreadOK(t)'
  PROVE  \A b \in Thread : ThreadOK(b)'
<1>1. ASSUME NEW b \in Thread, b # t PROVE ThreadOK(b)'
  <2>1. thread'[b] = thread[b]
    BY <1>1 DEF SnapshotInv, TypeOK
  <2> QED
    BY <1>1, <2>1, ThreadFrame DEF SnapshotInv
<1> QED
  BY <1>1

\* What the order of packets and the pace rest on, when nothing of them moves.
LEMMA LastFrame ==
  ASSUME SnapshotInv, TypeOK', UNCHANGED <<last, seq>>, envelope' >= envelope, store'.g2 >= store.g2,
         lock' \in Thread => lock' = lock
  PROVE  LastOK' /\ AlertsFitCopy'
<1>1. /\ last.g2 \in Nat /\ store.g2 \in Nat /\ store'.g2 \in Nat
      /\ last.envelope \in Nat /\ envelope \in Nat /\ envelope' \in Nat
  BY SnapshotAssumption DEF SnapshotInv, TypeOK, State
<1>2. last'.g2 <= store'.g2 /\ last'.envelope <= envelope'
  BY <1>1 DEF SnapshotInv, LastOK
<1>3. last'.seq <= seq' /\ (lock' \in Thread => last'.seq < seq' \/ seq' = MaxNumber)
  BY DEF SnapshotInv, LastOK
<1>4. AlertsFitCopy'
  BY DEF SnapshotInv, AlertsFitCopy
<1> QED
  BY <1>2, <1>3, <1>4 DEF LastOK

LEMMA PaceFrame ==
  ASSUME SnapshotInv, TypeOK', UNCHANGED pace, store'.g2 >= store.g2,
         mqtt'.pc = "wait" => mqtt.pc = "wait" /\ mqtt'.at = mqtt.at /\ mqtt'.value = mqtt.value
  PROVE  PaceOK'
<1>1. /\ mqtt.value \in Nat /\ store.g2 \in Nat /\ store'.g2 \in Nat
  BY DEF SnapshotInv, TypeOK, State
<1> QED
  BY <1>1 DEF SnapshotInv, PaceOK, pace

-----------------------------------------------------------------------------
(* The steps                                                               *)

LEMMA FaultType == TypeOK /\ Fault => faults' \in Nat /\ messages' \in Nat
BY DEF TypeOK, Fault

\* Steps that move no thread and do not touch the store, the lock or the numbers.
LEMMA QuietStep ==
  ASSUME SnapshotInv, TypeOK', UNCHANGED <<thread, lock, seq, envelope, last, store>>,
         PaceOK'
  PROVE  SnapshotInv'
<1>1. TypeOK /\ store.g2 \in Nat /\ envelope \in Nat
  BY DEF SnapshotInv, TypeOK, State
<1>2. store'.g2 >= store.g2 /\ store'.t3 = store.t3 /\ envelope' >= envelope
  BY <1>1, SnapshotAssumption DEF TypeOK
<1>3. \A t \in Thread : ThreadOK(t)'
  BY <1>2, ThreadsFrame
<1>4. LastOK' /\ AlertsFitCopy'
  BY <1>2, LastFrame
<1> QED
  BY <1>3, <1>4 DEF SnapshotInv

LEMMA DeviceStep ==
  ASSUME SnapshotInv, (\E p \in Parts : Change(p)) \/ Tick \/ PollStatus \/ Compare
  PROVE  SnapshotInv'
<1>1. TypeOK
  BY DEF SnapshotInv
<1>2. CASE \E p \in Parts : Change(p)
  <2>1. TypeOK'
    BY <1>1, <1>2 DEF TypeOK, Change, memory, pace, bounds
  <2>2. PaceOK'
    BY <1>2 DEF SnapshotInv, PaceOK, Change, memory, pace
  <2> QED
    BY <1>2, <2>1, <2>2, QuietStep DEF Change, memory
<1>3. CASE Tick
  <2>1. TypeOK'
    BY <1>1, <1>3 DEF TypeOK, Tick, memory, bounds
  <2>2. PaceOK'
    BY <1>1, <1>3 DEF SnapshotInv, PaceOK, Tick, memory, TypeOK
  <2> QED
    BY <1>3, <2>1, <2>2, QuietStep DEF Tick, memory
<1>4. CASE PollStatus
  <2>1. TypeOK'
    BY <1>1, <1>4 DEF TypeOK, PollStatus, memory, pace, bounds, Parts
  <2>2. PaceOK'
    BY <1>4 DEF SnapshotInv, PaceOK, PollStatus, memory, pace
  <2> QED
    BY <1>4, <2>1, <2>2, QuietStep DEF PollStatus, memory
<1>5. CASE Compare
  <2>1. TypeOK'
    BY <1>1, <1>5 DEF TypeOK, Compare, memory, pace, bounds
  <2>2. PaceOK'
    BY <1>5 DEF SnapshotInv, PaceOK, Compare, memory, pace
  <2> QED
    BY <1>5, <2>1, <2>2, QuietStep DEF Compare, memory
<1> QED
  BY <1>2, <1>3, <1>4, <1>5

\* Steps that only take a thread from one place outside the lock to another.
LEMMA OutsideStep ==
  ASSUME SnapshotInv, TypeOK', NEW t \in Thread, NEW k \in Threads, thread' = [thread EXCEPT ![t] = k],
         thread[t].pc \notin Inside, k.pc \notin Inside,
         k.pc \notin {"publishG1", "publishG2", "publishT3"} => k.due <= store.g2,
         k.pc \in {"publishG1", "publishG2"} => k.due <= k.copy.g2,
         UNCHANGED <<memory, lock, mqtt, last, pace>>
  PROVE  SnapshotInv'
<1>1. TypeOK /\ store.g2 \in Nat /\ envelope \in Nat /\ thread'[t] = k
  BY SnapshotAssumption DEF SnapshotInv, TypeOK, State
<1>2. store'.g2 >= store.g2 /\ store'.t3 = store.t3 /\ envelope' >= envelope
  BY <1>1 DEF memory
<1>3. lock # t
  BY DEF SnapshotInv, ThreadOK
<1>4. ThreadOK(t)'
  BY <1>1, <1>3 DEF ThreadOK, memory, Inside
<1>5. \A b \in Thread : ThreadOK(b)'
  BY <1>2, <1>4, OneThread DEF memory
<1>6. LastOK' /\ AlertsFitCopy'
  BY <1>2, LastFrame DEF memory
<1>7. PaceOK'
  BY <1>2, PaceFrame
<1> QED
  BY <1>5, <1>6, <1>7 DEF SnapshotInv

LEMMA DueStep ==
  ASSUME SnapshotInv, SnapshotDue \/ CommandDone
  PROVE  SnapshotInv'
<1>1. TypeOK /\ store.g2 \in Nat
  BY DEF SnapshotInv, TypeOK, State
<1>2. CASE SnapshotDue
  <2>1. Main \in Thread
    BY DEF Thread
  <2>2. TypeOK'
    BY <1>1, <1>2, <2>1, RecordTypes DEF TypeOK, SnapshotDue, memory, pace, bounds
  <2>3. /\ thread[Main].pc \notin Inside /\ Fresh.pc \notin Inside
        /\ Fresh.pc \notin {"publishG1", "publishG2", "publishT3"} /\ Fresh.due <= store.g2
        /\ Fresh \in Threads
    BY <1>1, <1>2, RecordTypes DEF SnapshotDue, At, Inside
  <2>4. thread' = [thread EXCEPT ![Main] = Fresh] /\ UNCHANGED <<memory, lock, mqtt, last, pace>>
    BY <1>2 DEF SnapshotDue
  <2> QED
    BY <2>1, <2>2, <2>3, <2>4, OutsideStep
<1>3. CASE CommandDone
  <2>1. PICK s \in Slot : At(s, "idle") /\ thread' = [thread EXCEPT ![s] = [Fresh EXCEPT !.due = 0]]
    BY <1>3 DEF CommandDone, StartSnapshot
  <2>2. TypeOK'
    BY <1>1, <1>3, StartType DEF TypeOK, CommandDone, memory, pace, bounds
  <2>3. s \in Thread /\ thread[s].pc \notin Inside
    BY <2>1 DEF Thread, At, Inside
  <2> DEFINE k == [Fresh EXCEPT !.due = 0]
  <2>4. k \in Threads /\ k.pc = "fetch" /\ k.due = 0 /\ thread' = [thread EXCEPT ![s] = k]
    BY <2>1, Starting
  <2> HIDE DEF k
  <2>5. /\ k.pc \notin Inside /\ k.due <= store.g2
        /\ k.pc \notin {"publishG1", "publishG2", "publishT3"}
    BY <1>1, <2>4 DEF Inside
  <2>6. UNCHANGED <<memory, lock, mqtt, last, pace>>
    BY <1>3 DEF CommandDone
  <2> QED
    BY <2>2, <2>3, <2>4, <2>5, <2>6, OutsideStep
<1> QED
  BY <1>2, <1>3

\* A thread outside the lock fetches.
LEMMA FetchStep ==
  ASSUME SnapshotInv, NEW t \in Thread, FetchG1(t) \/ FetchNode(t)
  PROVE  SnapshotInv'
<1>1. TypeOK /\ ThreadOK(t) /\ thread[t] \in Threads /\ store.t3 \in Node /\ device \in [Parts -> Nat]
  BY DEF SnapshotInv, TypeOK, State
<1>2. device["g1"] \in Nat /\ device["t3"] \in Nat /\ store.t3.value \in Nat
  BY <1>1 DEF Parts, Node
<1>3. faults' \in Nat /\ messages' \in Nat
  BY <1>1, FaultType DEF FetchG1, FetchNode, bounds, TypeOK
<1>4. Previous \in Node /\ [value |-> device["t3"], online |-> TRUE] \in Node
  BY <1>2 DEF Previous, Node
<1>5. PICK k \in Threads :
        /\ thread' = [thread EXCEPT ![t] = k]
        /\ k.pc \in {"fetchNode", "enter"} /\ k.due = thread[t].due
  <2> DEFINE k1 == [thread[t] EXCEPT !.pc = "fetchNode", !.g1 = device["g1"], !.t3 = Previous]
             k2 == [thread[t] EXCEPT !.pc = "fetchNode", !.t3 = Previous]
             k3 == [thread[t] EXCEPT !.pc = "enter", !.t3 = [value |-> device["t3"], online |-> TRUE]]
             k4 == [thread[t] EXCEPT !.pc = "enter"]
  <2>1. {k1, k2, k3, k4} \subseteq Threads
    BY <1>1, <1>2, <1>4 DEF Threads, Steps
  <2>2. \A k \in {k1, k2, k3, k4} : k.pc \in {"fetchNode", "enter"} /\ k.due = thread[t].due
    BY <1>1 DEF Threads
  <2>3. \E k \in {k1, k2, k3, k4} : thread' = [thread EXCEPT ![t] = k]
    BY <1>1 DEF FetchG1, FetchNode, TypeOK
  <2> HIDE DEF k1, k2, k3, k4
  <2> QED
    BY <2>1, <2>2, <2>3
<1>6. TypeOK'
  BY <1>1, <1>3, <1>5 DEF TypeOK, FetchG1, FetchNode, memory, pace
<1>7. thread[t].pc \notin Inside /\ k.pc \notin Inside
  BY <1>5 DEF FetchG1, FetchNode, At, Inside
<1>8. k.due <= store.g2 /\ k.pc \notin {"publishG1", "publishG2", "publishT3"}
  BY <1>1, <1>5 DEF ThreadOK, FetchG1, FetchNode, At
<1>9. UNCHANGED <<memory, lock, mqtt, last, pace>>
  BY DEF FetchG1, FetchNode
<1> QED
  BY <1>5, <1>6, <1>7, <1>8, <1>9, OutsideStep

\* What Refresh makes of the store and of a message under way.
LEMMA RefreshFacts ==
  ASSUME TypeOK, NEW t \in Thread, Refresh(t)
  PROVE  /\ store' \in State /\ store'.g2 = store.g2
         /\ mqtt' \in [pc : {"idle", "set", "wait"}, value : Nat, at : Nat, current : BOOLEAN]
         /\ mqtt'.pc = mqtt.pc /\ mqtt'.at = mqtt.at /\ mqtt'.value = mqtt.value
<1>1. store \in State /\ thread[t] \in Threads
  BY DEF TypeOK
<1>2. store' \in State /\ store'.g2 = store.g2
  BY <1>1 DEF Refresh, State, Threads
<1>3. /\ mqtt' \in [pc : {"idle", "set", "wait"}, value : Nat, at : Nat, current : BOOLEAN]
      /\ mqtt'.pc = mqtt.pc /\ mqtt'.at = mqtt.at /\ mqtt'.value = mqtt.value
  BY DEF Refresh, Replaced, TypeOK
<1> QED
  BY <1>2, <1>3

LEMMA EnterStep ==
  ASSUME SnapshotInv, NEW t \in Thread, Enter(t)
  PROVE  SnapshotInv'
<1>1. TypeOK /\ ThreadOK(t) /\ thread[t] \in Threads /\ store \in State /\ store.g2 \in Nat
  BY DEF SnapshotInv, TypeOK, State
<1>2. /\ store' \in State /\ store'.g2 = store.g2
      /\ mqtt' \in [pc : {"idle", "set", "wait"}, value : Nat, at : Nat, current : BOOLEAN]
      /\ mqtt'.pc = mqtt.pc /\ mqtt'.at = mqtt.at /\ mqtt'.value = mqtt.value
  BY <1>1, RefreshFacts DEF Enter
<1>3. /\ seq' \in 0 .. MaxNumber /\ seq' >= seq
      /\ seq' > seq \/ seq' = MaxNumber
  BY <1>1, BumpType DEF Enter, TypeOK
<1> DEFINE k == [thread[t] EXCEPT !.pc = "copy", !.g1 = 0, !.t3 = NoNode, !.seq = seq']
<1>4. k \in Threads /\ k.pc = "copy" /\ k.seq = seq' /\ k.due = thread[t].due
  <2>1. seq' \in Nat /\ NoNode \in Node
    BY <1>3, RecordTypes, SnapshotAssumption
  <2> QED
    BY ONLY <1>1, <2>1 DEF Threads, Steps, k
<1>5. thread' = [thread EXCEPT ![t] = k]
  BY <1>1 DEF Enter, TypeOK
<1> HIDE DEF k
<1>6. TypeOK' /\ thread'[t] = k
  BY <1>1, <1>2, <1>3, <1>4, <1>5 DEF TypeOK, Enter, pace, bounds
<1>7. ThreadOK(t)'
  BY <1>1, <1>2, <1>4, <1>6 DEF ThreadOK, Inside, Enter, At
<1>8. \A b \in Thread : ThreadOK(b)'
  <2>1. \A b \in Thread \ {t} : lock' = b <=> lock = b
    BY SnapshotAssumption DEF Enter
  <2>2. lock \notin Thread \ {t}
    BY SnapshotAssumption DEF Enter
  <2>3. store'.g2 >= store.g2
    BY <1>1, <1>2
  <2> QED
    BY <1>5, <1>6, <1>7, <2>1, <2>2, <2>3, OneThread
<1>9. LastOK' /\ AlertsFitCopy'
  <2>1. UNCHANGED <<last, envelope>>
    BY DEF Enter
  <2>2. last \in [seq : Nat, envelope : Nat, g2 : Nat, t3 : Node, alertsG2 : Nat, alertsT3 : Node]
    BY <1>1 DEF TypeOK
  <2>3. last.seq \in Nat /\ seq \in Nat /\ seq' \in Nat
    BY <1>1, <1>3, <2>2, SnapshotAssumption DEF TypeOK
  <2>4. last'.seq <= seq' /\ (last'.seq < seq' \/ seq' = MaxNumber)
    BY <1>3, <2>1, <2>3 DEF SnapshotInv, LastOK
  <2> QED
    BY <1>2, <2>1, <2>4 DEF SnapshotInv, LastOK, AlertsFitCopy
<1>10. PaceOK'
  BY <1>1, <1>2, <1>6, PaceFrame DEF Enter
<1> QED
  BY <1>6, <1>8, <1>9, <1>10 DEF SnapshotInv

\* The thread that holds the lock copies.
LEMMA CopyStep ==
  ASSUME SnapshotInv, NEW t \in Thread, CopyG1(t) \/ CopyRest(t)
  PROVE  SnapshotInv'
<1>1. /\ TypeOK /\ ThreadOK(t) /\ thread[t] \in Threads /\ thread[t].copy \in State
      /\ store \in State /\ store.g1 \in Nat /\ store.g2 \in Nat /\ store.t3 \in Node
  BY DEF SnapshotInv, TypeOK, State, Threads
<1>2. lock = t
  BY <1>1 DEF ThreadOK, Inside, CopyG1, CopyRest, At
<1>3. last.g2 <= store.g2 /\ thread[t].due <= store.g2
  BY <1>1 DEF SnapshotInv, LastOK, ThreadOK, CopyG1, CopyRest, At
<1>4. PICK k \in Threads :
        /\ thread' = [thread EXCEPT ![t] = k]
        /\ k.due = thread[t].due /\ k.seq = thread[t].seq
        /\ \/ k.pc = "copyRest"
           \/ k.pc = "seal" /\ k.copy.g2 = store.g2 /\ k.copy.t3 = store.t3
  <2> DEFINE c1 == [thread[t].copy EXCEPT !.g1 = store.g1]
             c2 == [thread[t].copy EXCEPT !.g2 = store.g2, !.t3 = store.t3]
             k1 == [thread[t] EXCEPT !.pc = "copyRest", !.copy = c1]
             k2 == [thread[t] EXCEPT !.pc = "seal", !.copy = c2]
  <2>1. c1 \in State /\ c2 \in State /\ c2.g2 = store.g2 /\ c2.t3 = store.t3
    BY <1>1 DEF State
  <2>2. CASE CopyG1(t)
    <3>1. thread' = [thread EXCEPT ![t] = k1]
      BY <1>1, <2>2 DEF CopyG1, TypeOK
    <3> HIDE DEF c1
    <3>2. k1 \in Threads /\ k1.due = thread[t].due /\ k1.seq = thread[t].seq /\ k1.pc = "copyRest"
      BY <1>1, <2>1 DEF Threads, Steps
    <3> QED
      BY <3>1, <3>2
  <2>3. CASE CopyRest(t)
    <3>1. thread' = [thread EXCEPT ![t] = k2]
      BY <1>1, <2>3 DEF CopyRest, TypeOK
    <3> HIDE DEF c2
    <3>2. /\ k2 \in Threads /\ k2.due = thread[t].due /\ k2.seq = thread[t].seq /\ k2.pc = "seal"
          /\ k2.copy = c2
      BY <1>1, <2>1 DEF Threads, Steps
    <3> QED
      BY <2>1, <3>1, <3>2
  <2> QED
    BY <2>2, <2>3
<1>5. UNCHANGED <<device, memory, lock, worker, mqtt, db, last, pace, bounds>>
  BY DEF CopyG1, CopyRest
<1>6. TypeOK' /\ thread'[t] = k
  BY <1>1, <1>4, <1>5 DEF TypeOK, memory, pace, bounds
<1>7. ThreadOK(t)'
  BY <1>1, <1>2, <1>3, <1>4, <1>5, <1>6 DEF ThreadOK, Inside, memory
<1>8. store'.g2 >= store.g2 /\ envelope' >= envelope /\ UNCHANGED <<last, seq>>
  BY <1>1, <1>5, SnapshotAssumption DEF memory, TypeOK
<1>9. \A b \in Thread : ThreadOK(b)'
  BY <1>2, <1>4, <1>5, <1>6, <1>7, <1>8, OneThread
<1>10. LastOK' /\ AlertsFitCopy'
  BY <1>5, <1>6, <1>8, LastFrame
<1>11. PaceOK'
  BY <1>5, <1>6, <1>8, PaceFrame
<1> QED
  BY <1>6, <1>9, <1>10, <1>11 DEF SnapshotInv

\* What a step that seals records.
LEMMA SealFacts ==
  ASSUME SnapshotInv, NEW t \in Thread, Seal(t)
  PROVE  /\ lock = t /\ thread[t].seq = seq
         /\ seq > last.seq \/ seq = MaxNumber
         /\ envelope' \in 0 .. MaxNumber /\ envelope' >= envelope
         /\ envelope' > last.envelope \/ envelope' = MaxNumber
         /\ last' = last \/ last' =
              [seq |-> seq, envelope |-> envelope', g2 |-> thread[t].copy.g2, t3 |-> store.t3,
               alertsG2 |-> store.g2, alertsT3 |-> store.t3]
         /\ thread[t].copy.g2 >= last.g2 /\ thread[t].copy.g2 <= store.g2
<1>1. TypeOK /\ ThreadOK(t) /\ thread[t].pc = "seal"
  BY DEF SnapshotInv, Seal, At
<1>2. lock = t /\ thread[t].seq = seq
  BY <1>1 DEF ThreadOK, Inside
<1>3. /\ envelope' \in 0 .. MaxNumber /\ envelope' >= envelope
      /\ envelope' > envelope \/ envelope' = MaxNumber
  BY <1>1, BumpType DEF Seal, TypeOK
<1>4. envelope' > last.envelope \/ envelope' = MaxNumber
  <2>1. last.envelope <= envelope
    BY DEF SnapshotInv, LastOK
  <2>2. last.envelope \in Nat /\ envelope \in Nat /\ envelope' \in Nat
    BY <1>1, <1>3, SnapshotAssumption DEF TypeOK
  <2> QED
    BY ONLY <1>3, <2>1, <2>2
<1>5. seq > last.seq \/ seq = MaxNumber
  <2>1. last.seq < seq \/ seq = MaxNumber
    BY <1>2 DEF SnapshotInv, LastOK
  <2>2. last.seq \in Nat /\ seq \in Nat
    BY <1>1, SnapshotAssumption DEF TypeOK
  <2> QED
    BY ONLY <2>1, <2>2
<1>6. thread[t].copy.g2 >= last.g2 /\ thread[t].copy.g2 <= store.g2 /\ thread[t].copy.t3 = store.t3
  BY <1>1 DEF ThreadOK
<1>7. last' = last \/ last' =
        [seq |-> seq, envelope |-> envelope', g2 |-> thread[t].copy.g2, t3 |-> store.t3,
         alertsG2 |-> store.g2, alertsT3 |-> store.t3]
  BY <1>2, <1>6 DEF Seal
<1> QED
  BY <1>2, <1>3, <1>4, <1>5, <1>6, <1>7

LEMMA SealStep ==
  ASSUME SnapshotInv, NEW t \in Thread, Seal(t)
  PROVE  SnapshotInv'
<1>1. /\ TypeOK /\ ThreadOK(t) /\ thread[t] \in Threads /\ thread[t].pc = "seal"
      /\ store.g2 \in Nat /\ store.t3 \in Node /\ seq \in Nat
      /\ thread[t].copy.g2 \in Nat
  BY SnapshotAssumption DEF SnapshotInv, TypeOK, State, Threads, Seal, At
<1>2. /\ lock = t
      /\ envelope' \in 0 .. MaxNumber /\ envelope' >= envelope
      /\ last' = last \/ last' =
           [seq |-> seq, envelope |-> envelope', g2 |-> thread[t].copy.g2, t3 |-> store.t3,
            alertsG2 |-> store.g2, alertsT3 |-> store.t3]
      /\ thread[t].copy.g2 <= store.g2
  BY SealFacts
<1> DEFINE k == [thread[t] EXCEPT !.pc = "publishG1", !.seq = 0]
<1>3. k \in Threads /\ k.pc = "publishG1" /\ k.due = thread[t].due /\ k.copy = thread[t].copy
  BY <1>1 DEF Threads, Steps
<1>4. thread' = [thread EXCEPT ![t] = k]
  BY <1>1 DEF Seal, TypeOK
<1> HIDE DEF k
<1>5. UNCHANGED <<device, store, seq, worker, mqtt, db, pace, bounds>> /\ lock' = NoThread
  BY DEF Seal
<1>6. envelope' \in Nat
  BY <1>2, SnapshotAssumption
<1>7. last' \in [seq : Nat, envelope : Nat, g2 : Nat, t3 : Node, alertsG2 : Nat, alertsT3 : Node]
  BY <1>1, <1>2, <1>6 DEF TypeOK
<1>8. TypeOK' /\ thread'[t] = k
  BY <1>1, <1>2, <1>3, <1>4, <1>5, <1>7 DEF TypeOK, pace, bounds
<1>9. ThreadOK(t)'
  BY <1>1, <1>3, <1>5, <1>8, SnapshotAssumption DEF ThreadOK, Inside
<1>10. \A b \in Thread : ThreadOK(b)'
  <2>1. \A b \in Thread \ {t} : lock' = b <=> lock = b
    BY <1>2, <1>5, SnapshotAssumption
  <2>2. store'.g2 >= store.g2
    BY <1>1, <1>5
  <2> QED
    BY <1>2, <1>4, <1>8, <1>9, <2>1, <2>2, OneThread
<1>11. LastOK' /\ AlertsFitCopy'
  <2>1. CASE last' = last
    <3>1. last.envelope <= envelope /\ last.envelope \in Nat /\ envelope \in Nat
      BY <1>1, SnapshotAssumption DEF SnapshotInv, LastOK, TypeOK
    <3>2. last'.envelope <= envelope'
      BY ONLY <1>2, <1>6, <2>1, <3>1
    <3> QED
      BY <1>5, <2>1, <3>2, SnapshotAssumption DEF SnapshotInv, LastOK, AlertsFitCopy
  <2>2. CASE last' = [seq |-> seq, envelope |-> envelope', g2 |-> thread[t].copy.g2, t3 |-> store.t3,
                      alertsG2 |-> store.g2, alertsT3 |-> store.t3]
    BY <1>1, <1>2, <1>5, <1>6, <2>2, SnapshotAssumption DEF LastOK, AlertsFitCopy
  <2> QED
    BY <1>2, <2>1, <2>2
<1>12. PaceOK'
  BY <1>1, <1>5, <1>8, PaceFrame
<1> QED
  BY <1>8, <1>10, <1>11, <1>12 DEF SnapshotInv
\* The part that a thread publishes, in the document and dropped from its copy.
LEMMA PublishedFacts ==
  ASSUME TypeOK, NEW t \in Thread, Publishing(t)
  PROVE  /\ Write(t) => db' \in State
         /\ Published(t) \in Threads
         /\ thread[t].pc = "publishG1" => /\ Published(t).pc = "publishG2"
                                         /\ Published(t).due = thread[t].due
                                         /\ Published(t).copy.g2 = thread[t].copy.g2
         /\ thread[t].pc = "publishG2" => Published(t).pc = "publishT3"
<1>1. db \in State /\ thread[t] \in Threads /\ thread[t].copy \in State
  BY DEF TypeOK, Threads
<1>2. NoState \in State
  BY RecordTypes
<1>3. CASE thread[t].pc = "publishG1"
  <2>1. NextPublish[thread[t].pc] = "publishG2" /\ PartOf[thread[t].pc] = "g1"
    BY <1>3 DEF NextPublish, PartOf
  <2> DEFINE c == [thread[t].copy EXCEPT !["g1"] = NoState["g1"]]
  <2>2. c \in State /\ c.g2 = thread[t].copy.g2
    BY <1>1, <1>2 DEF State
  <2>3. Published(t) = [thread[t] EXCEPT !.pc = "publishG2", !.copy = c]
    BY <1>1, <2>1 DEF Published, Threads
  <2>4. Write(t) => db' = [db EXCEPT !["g1"] = thread[t].copy["g1"]]
    BY <2>1 DEF Write
  <2>5. Write(t) => db' \in State
    BY <1>1, <2>4 DEF State
  <2> HIDE DEF c
  <2> QED
    BY <1>1, <1>3, <2>2, <2>3, <2>5 DEF Threads, Steps
<1>4. CASE thread[t].pc = "publishG2"
  <2>1. NextPublish[thread[t].pc] = "publishT3" /\ PartOf[thread[t].pc] = "g2"
    BY <1>4 DEF NextPublish, PartOf
  <2> DEFINE c == [thread[t].copy EXCEPT !["g2"] = NoState["g2"]]
  <2>2. c \in State
    BY <1>1, <1>2 DEF State
  <2>3. Published(t) = [thread[t] EXCEPT !.pc = "publishT3", !.copy = c, !.due = 0]
    BY <1>1, <2>1 DEF Published, Threads
  <2>4. Write(t) => db' = [db EXCEPT !["g2"] = thread[t].copy["g2"]]
    BY <2>1 DEF Write
  <2>5. Write(t) => db' \in State
    BY <1>1, <2>4 DEF State
  <2> HIDE DEF c
  <2> DEFINE k == [thread[t] EXCEPT !.pc = "publishT3", !.copy = c, !.due = 0]
  <2>6. k \in Threads /\ k.pc = "publishT3"
    BY <1>1, <2>2 DEF Threads, Steps
  <2> HIDE DEF k
  <2>7. Published(t) = k
    BY <2>3 DEF k
  <2> QED
    BY <1>4, <2>5, <2>6, <2>7
<1>5. CASE thread[t].pc = "publishT3"
  <2>1. NextPublish[thread[t].pc] = "idle" /\ PartOf[thread[t].pc] = "t3"
    BY <1>5 DEF NextPublish, PartOf
  <2> DEFINE c == [thread[t].copy EXCEPT !["t3"] = NoState["t3"]]
  <2>2. c \in State
    BY <1>1, <1>2 DEF State
  <2>3. Published(t) = [thread[t] EXCEPT !.pc = "idle", !.copy = c]
    BY <1>1, <2>1 DEF Published, Threads
  <2>4. Write(t) => db' = [db EXCEPT !["t3"] = thread[t].copy["t3"]]
    BY <2>1 DEF Write
  <2>5. Write(t) => db' \in State
    BY <1>1, <2>4 DEF State
  <2> HIDE DEF c
  <2> QED
    BY <1>1, <1>5, <2>2, <2>3, <2>5 DEF Threads, Steps
<1> QED
  BY <1>3, <1>4, <1>5 DEF Publishing

LEMMA PublishStep ==
  ASSUME SnapshotInv, NEW t \in Thread, Publish(t) \/ PublishFails(t)
  PROVE  SnapshotInv'
<1>1. TypeOK /\ ThreadOK(t) /\ Publishing(t) /\ store.g2 \in Nat
  BY DEF SnapshotInv, TypeOK, State, Publish, PublishFails
<1>2. PICK k \in Threads :
        /\ thread' = [thread EXCEPT ![t] = k]
        /\ k.pc \notin Inside
        /\ k.pc \notin {"publishG1", "publishG2", "publishT3"} => k.due = 0
        /\ k.pc \in {"publishG1", "publishG2"} => k.due <= k.copy.g2
  <2>1. CASE thread' = [thread EXCEPT ![t] = Idle]
    BY <2>1, RecordTypes DEF Inside
  <2>2. CASE thread' = [thread EXCEPT ![t] = Published(t)] /\ thread[t].pc = "publishG1"
    <3>1. /\ Published(t) \in Threads /\ Published(t).pc = "publishG2"
          /\ Published(t).due = thread[t].due /\ Published(t).copy.g2 = thread[t].copy.g2
      BY <1>1, <2>2, PublishedFacts
    <3>2. thread[t].due <= thread[t].copy.g2
      BY <1>1, <2>2 DEF ThreadOK
    <3> QED
      BY <2>2, <3>1, <3>2 DEF Inside
  <2>3. CASE thread' = [thread EXCEPT ![t] = Published(t)] /\ thread[t].pc = "publishG2"
    <3>1. Published(t) \in Threads /\ Published(t).pc = "publishT3"
      BY <1>1, <2>3, PublishedFacts
    <3> QED
      BY <2>3, <3>1 DEF Inside
  <2> QED
    BY <1>1, <2>1, <2>2, <2>3 DEF Publish, PublishFails, Publishing, At
<1>3. db' \in State
  BY <1>1, PublishedFacts DEF Publish, PublishFails, TypeOK
<1>4. faults' \in Nat /\ messages' \in Nat
  BY <1>1, FaultType DEF Publish, PublishFails, TypeOK, bounds
<1>5. UNCHANGED <<device, memory, lock, worker, mqtt, last, pace>>
  BY DEF Publish, PublishFails
<1>6. TypeOK'
  BY <1>1, <1>2, <1>3, <1>4, <1>5 DEF TypeOK, memory, pace
<1>7. thread[t].pc \notin Inside
  BY <1>1 DEF Publishing, Inside
<1>8. k.pc \notin {"publishG1", "publishG2", "publishT3"} => k.due <= store.g2
  BY <1>1, <1>2
<1> QED
  BY <1>2, <1>5, <1>6, <1>7, <1>8, OutsideStep

\* The worker puts greenhouse 1 into the store, and may start a snapshot of it.
LEMMA ReplaceStep ==
  ASSUME SnapshotInv, ReplaceG1
  PROVE  SnapshotInv'
<1>1. /\ TypeOK /\ store \in State /\ store.g2 \in Nat /\ envelope \in Nat
      /\ worker.g1 \in Nat
  BY SnapshotAssumption DEF SnapshotInv, TypeOK, State
<1>2. store' \in State /\ store'.g2 = store.g2 /\ store'.t3 = store.t3
  BY <1>1 DEF ReplaceG1, State
<1>3. /\ mqtt' \in [pc : {"idle", "set", "wait"}, value : Nat, at : Nat, current : BOOLEAN]
      /\ mqtt'.pc = mqtt.pc /\ mqtt'.at = mqtt.at /\ mqtt'.value = mqtt.value
  BY <1>1 DEF ReplaceG1, Replaced, TypeOK
<1>4. thread' \in [Thread -> Threads]
  BY <1>1, StartType DEF ReplaceG1, TypeOK
<1>5. UNCHANGED <<device, seq, envelope, lock, db, last, pace, bounds>> /\ worker' = NoAnswer
  BY DEF ReplaceG1
<1>6. TypeOK'
  BY <1>1, <1>2, <1>3, <1>4, <1>5, OtherRecordTypes DEF TypeOK, pace, bounds
<1>7. store'.g2 >= store.g2 /\ 0 <= store.g2 /\ envelope' >= envelope
  BY <1>1, <1>2, <1>5
<1>8. \A t \in Thread : ThreadOK(t)'
  <2>1. CASE StartSnapshot(0)
    BY <1>2, <1>5, <1>6, <1>7, <2>1, StartFrame
  <2>2. CASE UNCHANGED thread
    BY <1>2, <1>5, <1>6, <1>7, <2>2, ThreadsFrame
  <2> QED
    BY <2>1, <2>2 DEF ReplaceG1
<1>9. LastOK' /\ AlertsFitCopy'
  BY <1>5, <1>6, <1>7, LastFrame
<1>10. PaceOK'
  BY <1>3, <1>5, <1>6, <1>7, PaceFrame
<1> QED
  BY <1>6, <1>8, <1>9, <1>10 DEF SnapshotInv

\* A message about greenhouse 1.
LEMMA G1Step ==
  ASSUME SnapshotInv, (\E value \in 1 .. device["g1"] : TakeG1(value)) \/ SetG1
  PROVE  SnapshotInv'
<1>1. TypeOK /\ device["g1"] \in Nat
  BY DEF SnapshotInv, TypeOK, Parts
<1>2. CASE \E value \in 1 .. device["g1"] : TakeG1(value)
  <2>1. PICK value \in 1 .. device["g1"] : TakeG1(value)
    BY <1>2
  <2>2. value \in Nat /\ messages' \in Nat
    <3>1. value \in Nat
      BY ONLY <1>1, value \in 1 .. device["g1"]
    <3>2. messages' = messages + 1 /\ messages \in Nat
      BY <1>1, <2>1 DEF TakeG1, TypeOK
    <3> QED
      BY ONLY <3>1, <3>2
  <2> DEFINE m == [pc |-> "set", value |-> value, at |-> 0, current |-> TRUE]
  <2>3. mqtt' = m
    BY <2>1 DEF TakeG1, NoMessage
  <2>4. /\ m \in [pc : {"idle", "set", "wait"}, value : Nat, at : Nat, current : BOOLEAN]
        /\ m.pc = "set"
    BY <2>2
  <2> HIDE DEF m
  <2>5. TypeOK'
    BY <1>1, <2>1, <2>2, <2>3, <2>4 DEF TypeOK, TakeG1, memory, pace
  <2>6. PaceOK'
    BY <2>1, <2>3, <2>4 DEF SnapshotInv, PaceOK, TakeG1, pace
  <2> QED
    BY <2>1, <2>5, <2>6, QuietStep DEF TakeG1, memory
<1>3. CASE SetG1
  <2>1. /\ store \in State /\ store.g1 \in Nat /\ store.g2 \in Nat /\ mqtt.value \in Nat
        /\ envelope \in Nat
    BY <1>1, SnapshotAssumption DEF TypeOK, State
  <2>2. store' \in State /\ store'.g2 = store.g2 /\ store'.t3 = store.t3
    BY <1>3, <2>1 DEF SetG1, State
  <2>3. TypeOK' /\ mqtt'.pc = "idle"
    BY <1>1, <1>3, <2>2, OtherRecordTypes DEF TypeOK, SetG1, pace, bounds
  <2>4. store'.g2 >= store.g2 /\ envelope' >= envelope
    BY <1>3, <2>1, <2>2 DEF SetG1
  <2>5. \A t \in Thread : ThreadOK(t)'
    BY <1>3, <2>2, <2>3, <2>4, ThreadsFrame DEF SetG1
  <2>6. LastOK' /\ AlertsFitCopy'
    BY <1>3, <2>3, <2>4, LastFrame DEF SetG1
  <2>7. PaceOK'
    BY <1>3, <2>3, <2>4, PaceFrame DEF SetG1
  <2> QED
    BY <2>3, <2>5, <2>6, <2>7 DEF SnapshotInv
<1> QED
  BY <1>2, <1>3

\* A message about greenhouse 2.
LEMMA G2Step ==
  ASSUME SnapshotInv, NEW value \in 1 .. device["g2"], SetG2(value)
  PROVE  SnapshotInv'
<1>1. /\ TypeOK /\ device["g2"] \in Nat /\ store \in State /\ store.g2 \in Nat
      /\ envelope \in Nat /\ clock \in Nat
  BY SnapshotAssumption DEF SnapshotInv, TypeOK, Parts, State
<1>2. value \in Nat /\ value >= store.g2 /\ messages' \in Nat
  BY <1>1 DEF SetG2, TypeOK
<1>3. store' \in State /\ store'.g2 = value /\ store'.t3 = store.t3
  BY <1>1, <1>2 DEF SetG2, State
<1>4. /\ mqtt' \in [pc : {"idle", "set", "wait"}, value : Nat, at : Nat, current : BOOLEAN]
      /\ mqtt'.pc = "wait" => mqtt'.at = clock /\ mqtt'.value = value
  BY <1>1, <1>2, OtherRecordTypes DEF SetG2, Asks, TypeOK, NoMessage
<1>5. UNCHANGED <<device, seq, envelope, lock, thread, worker, db, last, pace, faults>>
  BY DEF SetG2
<1>6. TypeOK'
  BY <1>1, <1>2, <1>3, <1>4, <1>5 DEF TypeOK, pace
<1>7. store'.g2 >= store.g2 /\ envelope' >= envelope
  BY <1>1, <1>2, <1>3, <1>5
<1>8. \A t \in Thread : ThreadOK(t)'
  BY <1>3, <1>5, <1>6, <1>7, ThreadsFrame
<1>9. LastOK' /\ AlertsFitCopy'
  BY <1>5, <1>6, <1>7, LastFrame
<1>10. PaceOK'
  BY <1>1, <1>2, <1>3, <1>4, <1>5 DEF SnapshotInv, PaceOK, pace
<1> QED
  BY <1>6, <1>8, <1>9, <1>10 DEF SnapshotInv

LEMMA OneMore ==
  ASSUME NEW r \in Nat, NEW s \in Nat, NEW l \in Nat, NEW a \in Nat, r * s <= l, a >= l + s
  PROVE  (r + 1) * s <= a
<1>1. (r + 1) * s = r * s + s /\ r * s \in Nat
  OBVIOUS
<1> QED
  BY <1>1

LEMMA ReactStep ==
  ASSUME SnapshotInv, React
  PROVE  SnapshotInv'
<1>1. /\ TypeOK /\ store.g2 \in Nat /\ envelope \in Nat /\ mqtt.at \in Nat /\ mqtt.value \in Nat
      /\ lastReactive \in Nat /\ reactive \in Nat /\ clock \in Nat /\ Second \in Nat
  BY SnapshotAssumption DEF SnapshotInv, TypeOK, State
<1>2. mqtt.at <= clock /\ mqtt.value <= store.g2 /\ reactive * Second <= lastReactive
  BY DEF SnapshotInv, PaceOK, React
<1>3. UNCHANGED <<device, memory, lock, worker, db, last, clock, bounds>> /\ mqtt' = NoMessage
  BY DEF React
<1>4. store'.g2 >= store.g2 /\ store'.t3 = store.t3 /\ envelope' >= envelope /\ UNCHANGED <<seq, last>>
  BY <1>1, <1>3 DEF memory
<1>5. CASE /\ mqtt.at >= lastReactive + Second
           /\ lastReactive' = mqtt.at
           /\ reactive' = reactive + 1
           /\ StartSnapshot(mqtt.value)
  <2>1. TypeOK'
    BY <1>1, <1>3, <1>5, StartType, OtherRecordTypes DEF TypeOK, memory, bounds
  <2>2. \A t \in Thread : ThreadOK(t)'
    BY <1>1, <1>2, <1>3, <1>4, <1>5, <2>1, StartFrame
  <2>3. LastOK' /\ AlertsFitCopy'
    BY <1>3, <1>4, <2>1, LastFrame
  <2>4. (reactive + 1) * Second <= mqtt.at
    BY <1>1, <1>2, <1>5, OneMore
  <2>5. PaceOK'
    BY <1>2, <1>3, <1>5, <2>4, OtherRecordTypes DEF PaceOK
  <2> QED
    BY <2>1, <2>2, <2>3, <2>5 DEF SnapshotInv
<1>6. CASE UNCHANGED <<lastReactive, reactive, thread>>
  <2>1. TypeOK'
    BY <1>1, <1>3, <1>6, OtherRecordTypes DEF TypeOK, memory, bounds
  <2>2. \A t \in Thread : ThreadOK(t)'
    BY <1>3, <1>4, <1>6, <2>1, ThreadsFrame
  <2>3. LastOK' /\ AlertsFitCopy'
    BY <1>3, <1>4, <2>1, LastFrame
  <2>4. PaceOK'
    BY <1>3, <1>4, <1>6, <2>1, OtherRecordTypes, PaceFrame DEF pace
  <2> QED
    BY <2>1, <2>2, <2>3, <2>4 DEF SnapshotInv
<1> QED
  BY <1>5, <1>6 DEF React

\* The handlers of commands, and the worker that seals without the lock.
LEMMA HandlerStep ==
  ASSUME SnapshotInv, HandlerEnters \/ HandlerSeals \/ HandlerLeaves \/ WorkerSeals
  PROVE  SnapshotInv'
<1>1. TypeOK /\ store.g2 \in Nat /\ envelope \in Nat
  BY SnapshotAssumption DEF SnapshotInv, TypeOK, State
<1>2. UNCHANGED <<device, store, seq, thread, worker, mqtt, db, last, pace, bounds>>
  BY DEF HandlerEnters, HandlerSeals, HandlerLeaves, WorkerSeals, memory
<1>3. envelope' \in 0 .. MaxNumber /\ envelope' >= envelope
  BY <1>1, BumpType, SnapshotAssumption DEF HandlerEnters, HandlerSeals, HandlerLeaves, WorkerSeals, memory, TypeOK
<1>4. lock' \in Thread \cup {Handler, NoThread}
  BY <1>1 DEF HandlerEnters, HandlerSeals, HandlerLeaves, WorkerSeals, TypeOK
<1>5. (\A t \in Thread : lock' = t <=> lock = t) /\ (lock' \in Thread => lock' = lock)
  BY SnapshotAssumption DEF HandlerEnters, HandlerSeals, HandlerLeaves, WorkerSeals
<1>6. TypeOK'
  BY <1>1, <1>2, <1>3, <1>4 DEF TypeOK, pace, bounds
<1>7. store'.g2 >= store.g2 /\ store'.t3 = store.t3
  BY <1>1, <1>2
<1>8. \A t \in Thread : ThreadOK(t)'
  BY <1>2, <1>5, <1>6, <1>7, ThreadsFrame
<1>9. LastOK' /\ AlertsFitCopy'
  BY <1>2, <1>3, <1>5, <1>6, <1>7, LastFrame
<1>10. PaceOK'
  BY <1>2, <1>6, <1>7, PaceFrame
<1> QED
  BY <1>6, <1>8, <1>9, <1>10 DEF SnapshotInv

LEMMA CrashStep ==
  ASSUME SnapshotInv, Crash
  PROVE  SnapshotInv'
<1>1. TypeOK /\ faults' \in Nat /\ messages' \in Nat
  BY FaultType DEF SnapshotInv, Crash
<1>2. TypeOK'
  BY <1>1, RecordTypes, OtherRecordTypes, SnapshotAssumption DEF TypeOK, Crash
<1>3. \A t \in Thread : ThreadOK(t)'
  BY RecordTypes, SnapshotAssumption DEF ThreadOK, Inside, Crash
<1>4. LastOK' /\ AlertsFitCopy'
  BY RecordTypes, SnapshotAssumption DEF LastOK, AlertsFitCopy, NoSnapshot, Crash
<1>5. PaceOK'
  BY OtherRecordTypes, SnapshotAssumption DEF PaceOK, Crash
<1> QED
  BY <1>2, <1>3, <1>4, <1>5 DEF SnapshotInv

LEMMA StutterStep == SnapshotInv /\ UNCHANGED vars => SnapshotInv'
BY DEF SnapshotInv, TypeOK, ThreadOK, LastOK, AlertsFitCopy, PaceOK, vars, memory, pace, bounds

LEMMA InvNext == SnapshotInv /\ [Next]_vars => SnapshotInv'
<1> SUFFICES ASSUME SnapshotInv, [Next]_vars PROVE SnapshotInv'
  OBVIOUS
<1>1. CASE (\E p \in Parts : Change(p)) \/ Tick \/ PollStatus \/ Compare
  BY <1>1, DeviceStep
<1>2. CASE SnapshotDue \/ CommandDone
  BY <1>2, DueStep
<1>3. ASSUME NEW t \in Thread, Proceed(t) \/ Enter(t) \/ PublishFails(t) PROVE SnapshotInv'
  BY <1>3, FetchStep, CopyStep, SealStep, PublishStep, EnterStep DEF Proceed
<1>4. CASE ReplaceG1
  BY <1>4, ReplaceStep
<1>5. CASE (\E value \in 1 .. device["g1"] : TakeG1(value)) \/ SetG1
  BY <1>5, G1Step
<1>6. CASE \E value \in 1 .. device["g2"] : SetG2(value)
  BY <1>6, G2Step
<1>7. CASE React
  BY <1>7, ReactStep
<1>8. CASE HandlerEnters \/ HandlerSeals \/ HandlerLeaves \/ WorkerSeals
  BY <1>8, HandlerStep
<1>9. CASE Crash
  BY <1>9, CrashStep
<1>10. CASE UNCHANGED vars
  BY <1>10, StutterStep
<1> QED
  BY <1>1, <1>2, <1>3, <1>4, <1>5, <1>6, <1>7, <1>8, <1>9, <1>10 DEF Next

-----------------------------------------------------------------------------
(* The theorems                                                            *)

\* The inductive invariant: where every thread stands fits the lock, the numbers, what
\* it has copied and the packet sealed last.
THEOREM SnapshotInvariant == Spec => []SnapshotInv
BY InvInit, InvNext, PTL DEF Spec

\* Every variable keeps its type; the drawn numbers stay in their bound.
THEOREM SnapshotTypes == Spec => []TypeOK
<1>1. SnapshotInv => TypeOK
  BY DEF SnapshotInv
<1> QED
  BY <1>1, SnapshotInvariant, PTL

\* The alerts of a snapshot are built from the store while the lock is held: they speak
\* of the node that is in it and of no older greenhouse 2 (_send_snapshot, _build_alerts).
THEOREM AlertsAlwaysFit == Spec => []AlertsFitCopy
<1>1. SnapshotInv => AlertsFitCopy
  BY DEF SnapshotInv
<1> QED
  BY <1>1, SnapshotInvariant, PTL

\* A snapshot that a telemetry change started contains that change, however the threads
\* and the messages interleave (handle_mqtt_update, _send_snapshot).
THEOREM ChangeAlwaysShown == Spec => []ChangeIsShown
<1>1. SnapshotInv => ChangeIsShown
  <2>1. ASSUME SnapshotInv, NEW t \in Thread, thread[t].pc \in {"publishG1", "publishG2"}
        PROVE  thread[t].copy.g2 >= thread[t].due
    <3>1. thread[t] \in Threads
      BY <2>1 DEF SnapshotInv, TypeOK
    <3>2. thread[t].due \in Nat /\ thread[t].copy.g2 \in Nat
      BY <3>1 DEF Threads, State
    <3>3. thread[t].due <= thread[t].copy.g2
      BY <2>1 DEF SnapshotInv, ThreadOK
    <3> QED
      BY <3>2, <3>3
  <2> QED
    BY <2>1 DEF ChangeIsShown
<1> QED
  BY <1>1, SnapshotInvariant, PTL

\* However long messages wait for the lock, changes start at most one snapshot a second
\* on the average (handle_mqtt_update).
THEOREM ReactiveRateHolds == Spec => []ReactiveRate
<1>1. SnapshotInv => ReactiveRate
  <2>1. ASSUME SnapshotInv PROVE ReactiveRate
    <3>1. reactive \in Nat /\ Second \in Nat /\ lastReactive \in Nat /\ clock \in Nat
      BY <2>1, SnapshotAssumption DEF SnapshotInv, TypeOK
    <3>2. reactive * Second <= lastReactive /\ lastReactive <= clock
      BY <2>1 DEF SnapshotInv, PaceOK
    <3> DEFINE n == reactive * Second
    <3>3. n \in Nat
      BY <3>1
    <3> HIDE DEF n
    <3>4. n <= clock
      BY <3>1, <3>2, <3>3 DEF n
    <3> QED
      BY <3>4 DEF ReactiveRate, n
  <2> QED
    BY <2>1
<1> QED
  BY <1>1, SnapshotInvariant, PTL

\* Only Seal changes the last packet, but for a restart that forgets it.
LEMMA OnlySealRecords ==
  ASSUME SnapshotInv, Next, last' \notin {last, NoSnapshot}
  PROVE  \E t \in Thread : Seal(t)
BY DEF Next, Change, Tick, SnapshotDue, CommandDone, Proceed, FetchG1, FetchNode, CopyG1, CopyRest,
       Publish, PublishFails, Enter, PollStatus, Compare, ReplaceG1, TakeG1, SetG1, SetG2, React,
       HandlerEnters, HandlerSeals, HandlerLeaves, WorkerSeals, Crash

\* Packets are sealed in the order of their snapshot numbers, of their envelope numbers
\* and of what they tell of greenhouse 2, whichever threads seal them.
THEOREM AlwaysSealedInOrder == Spec => SealedInOrder
<1> DEFINE Ordered ==
      last' \notin {last, NoSnapshot} =>
        /\ last'.seq > last.seq \/ last'.seq = MaxNumber
        /\ last'.envelope > last.envelope \/ last'.envelope = MaxNumber
        /\ last'.g2 >= last.g2
<1>1. SnapshotInv /\ [Next]_vars => [Ordered]_last
  <2> SUFFICES ASSUME SnapshotInv, Next, last' \notin {last, NoSnapshot} PROVE Ordered
    BY DEF vars
  <2>1. PICK t \in Thread : Seal(t)
    BY OnlySealRecords
  <2>2. /\ seq > last.seq \/ seq = MaxNumber
        /\ envelope' > last.envelope \/ envelope' = MaxNumber
        /\ last' = [seq |-> seq, envelope |-> envelope', g2 |-> thread[t].copy.g2, t3 |-> store.t3,
                    alertsG2 |-> store.g2, alertsT3 |-> store.t3]
        /\ thread[t].copy.g2 >= last.g2
    BY <2>1, SealFacts
  <2> QED
    BY <2>2
<1> HIDE DEF Ordered
<1>2. Spec => [][Ordered]_last
  BY <1>1, SnapshotInvariant, PTL DEF Spec
<1> QED
  BY <1>2 DEF SealedInOrder, Ordered

\* A step that leaves alone what the packets are about.
LEMMA ContractQuiet ==
  ASSUME SnapshotInv, UNCHANGED <<seq, envelope, last>>,
         store'.g2 = store.g2, store'.t3 = store.t3, lock' \in Thread <=> lock \in Thread
  PROVE  UNCHANGED Contract!svars
BY DEF Contract!svars

\* Every step of the bridge is one of the contract, or shows nothing.
LEMMA ContractStep ==
  ASSUME SnapshotInv, [Next]_vars
  PROVE  [Contract!Next]_(Contract!svars)
<1> SUFFICES Contract!Next \/ UNCHANGED Contract!svars
  OBVIOUS
<1>0. TypeOK /\ store \in State /\ store.g2 \in Nat /\ seq \in Nat /\ envelope \in Nat
  BY SnapshotAssumption DEF SnapshotInv, TypeOK, State
<1>1. CASE (\E p \in Parts : Change(p)) \/ Tick \/ PollStatus \/ Compare \/ SnapshotDue \/ CommandDone
  BY <1>1, ContractQuiet
  DEF Change, Tick, PollStatus, Compare, SnapshotDue, CommandDone, memory
<1>2. ASSUME NEW t \in Thread,
             FetchG1(t) \/ FetchNode(t) \/ CopyG1(t) \/ CopyRest(t) \/ Publish(t) \/ PublishFails(t)
      PROVE  UNCHANGED Contract!svars
  BY <1>2, ContractQuiet
  DEF FetchG1, FetchNode, CopyG1, CopyRest, Publish, PublishFails, memory
<1>3. ASSUME NEW t \in Thread, Enter(t)
      PROVE  Contract!Take
  <2>1. store'.g2 = store.g2
    BY <1>0, <1>3, RefreshFacts DEF Enter, SnapshotInv, TypeOK
  <2>2. lock \notin Thread /\ lock' \in Thread
    BY <1>3, SnapshotAssumption DEF Enter
  <2> QED
    BY <1>3, <2>1, <2>2 DEF Enter, Contract!Take, Contract!Bump, Bump
<1>4. ASSUME NEW t \in Thread, Seal(t)
      PROVE  Contract!Seal
  <2>1. /\ lock = t /\ thread[t].seq = seq /\ thread[t].copy.t3 = store.t3
        /\ thread[t].copy.g2 >= last.g2 /\ thread[t].copy.g2 <= store.g2
    BY <1>4, SealFacts DEF SnapshotInv, ThreadOK, Seal, At
  <2>2. thread[t].copy.g2 \in last.g2 .. store.g2
    <3>1. thread[t].copy.g2 \in Nat /\ last.g2 \in Nat
      BY <1>0 DEF TypeOK, Threads, State
    <3> QED
      BY ONLY <1>0, <2>1, <3>1
  <2>3. lock \in Thread /\ lock' \notin Thread
    BY <1>4, <2>1, SnapshotAssumption DEF Seal
  <2>4. \/ MaxNumber = 0 /\ last' = last
        \/ last' = [seq |-> seq, envelope |-> envelope', g2 |-> thread[t].copy.g2, t3 |-> store.t3,
                    alertsG2 |-> store.g2, alertsT3 |-> store.t3]
    BY <1>4, <2>1 DEF Seal
  <2>5. UNCHANGED <<store, seq>> /\ envelope' = Bump(envelope)
    BY <1>4 DEF Seal
  <2> QED
    BY <2>2, <2>3, <2>4, <2>5 DEF Contract!Seal, Contract!Bump, Bump
<1>5. CASE ReplaceG1
  BY <1>0, <1>5, ContractQuiet DEF ReplaceG1, State
<1>6. CASE (\E value \in 1 .. device["g1"] : TakeG1(value)) \/ SetG1
  BY <1>0, <1>6, ContractQuiet DEF TakeG1, SetG1, memory, State
<1>7. ASSUME NEW value \in 1 .. device["g2"], SetG2(value)
      PROVE  Contract!Report
  BY <1>0, <1>7 DEF SetG2, State, Contract!Report
<1>8. CASE React
  BY <1>8, ContractQuiet DEF React, memory
<1>9. CASE HandlerEnters \/ HandlerLeaves
  <2>1. lock \notin Thread /\ lock' \notin Thread
    BY <1>9, SnapshotAssumption DEF HandlerEnters, HandlerLeaves
  <2> QED
    BY <1>9, <2>1, ContractQuiet DEF HandlerEnters, HandlerLeaves, memory
<1>10. CASE HandlerSeals \/ WorkerSeals
  <2>1. Contract!SealOther
    BY <1>10 DEF HandlerSeals, WorkerSeals, Contract!SealOther, Contract!Bump, Bump
  <2> QED
    BY <2>1 DEF Contract!Next
<1>11. CASE Crash
  <2>1. Contract!Restart
    BY <1>11, SnapshotAssumption DEF Crash, Contract!Restart, NoState
  <2> QED
    BY <2>1 DEF Contract!Next
<1>12. CASE UNCHANGED vars
  BY <1>12, ContractQuiet DEF vars, memory
<1> QED
  BY <1>1, <1>2, <1>3, <1>4, <1>5, <1>6, <1>7, <1>8, <1>9, <1>10, <1>11, <1>12
  DEF Next, Proceed, Contract!Next

\* The bridge implements SnapshotContract: with any number of threads, snapshots are taken
\* and sealed one after the other, as if by one thread.
THEOREM SnapshotsTakenInTurn == Spec => TakenInTurn
<1>1. Init => Contract!Init
  BY SnapshotAssumption DEF Init, Contract!Init, NoState
<1>2. SnapshotInv /\ [Next]_vars => [Contract!Next]_(Contract!svars)
  BY ContractStep
<1> QED
  BY <1>1, <1>2, SnapshotInvariant, PTL DEF Spec, TakenInTurn, Contract!Spec
=============================================================================
