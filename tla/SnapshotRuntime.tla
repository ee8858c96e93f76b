---------------------------- MODULE SnapshotRuntime ----------------------------
(***************************************************************************)
(* The bridge's picture of the greenhouses and the snapshots it sends of   *)
(* it.  Four kinds of threads work on one state store: the MQTT thread     *)
(* writes single values into it as messages come, without a lock; the      *)
(* status worker replaces greenhouse 1 by what its controller answers;     *)
(* the main loop and any number of background threads refresh greenhouse 1 *)
(* and the temperature node, copy the store into a numbered snapshot under *)
(* the runtime lock, and publish it to Firebase, part by part, without the *)
(* lock.  The handlers of command packets hold the same lock and draw from *)
(* the same envelope numbers; the queue's worker draws without the lock.   *)
(*                                                                         *)
(* Of each part the model follows one value, which every message and every *)
(* answer carries: how many times the device has changed it.               *)
(***************************************************************************)
EXTENDS Naturals

CONSTANTS
  Slot,         \* bound: background snapshot threads at a time
  NoThread,
  MaxNumber,    \* bound: numbers stop here, and their order is not looked at; with 0
                \* what is sealed is not recorded either
  Second,       \* ticks of the clock in a second
  MaxClock,     \* bound: ticks
  Changes,      \* bound: changes of each device
  Telling,      \* bound: the greenhouses that send MQTT messages
  MaxMessages,  \* bound: MQTT messages
  MaxFaults     \* bound: calls that fail and deaths of the process

Main == "main"
Handler == "handler"
Thread == {Main} \cup Slot

\* What the store keeps; every MQTT topic writes a field of g1 or g2, none one of t3.
Parts == {"g1", "g2", "t3"}

ASSUME SnapshotAssumption ==
  /\ Main \notin Slot
  /\ Handler \notin Thread
  /\ NoThread \notin Thread \cup {Handler}
  /\ Second \in Nat \ {0}
  /\ Changes \in [Parts -> Nat]
  /\ Telling \subseteq {"g1", "g2"}
  /\ {MaxNumber, MaxClock, MaxMessages, MaxFaults} \subseteq Nat

VARIABLES
  device,    \* what each device really has
  store,     \* StateStore.g1, g2 and t3
  seq,       \* StateStore._seq
  envelope,  \* CryptoBox._outgoing_seq
  lock,      \* the holder of _runtime_lock
  thread,    \* where each snapshot thread stands in _send_snapshot
  worker,    \* the status worker and the answer it holds
  mqtt,      \* the MQTT thread and the message it works on
  db,        \* the state documents in Firebase
  last,      \* the snapshot sealed last: what is in it and what its alerts saw
  clock,     \* ticks since the process started, counted from one second on
  lastReactive, \* _last_reactive_snapshot_at
  reactive,  \* snapshots started by telemetry changes since the start
  messages,
  faults

memory == <<store, seq, envelope>>
pace == <<clock, lastReactive, reactive>>
bounds == <<messages, faults>>
vars == <<device, memory, lock, thread, worker, mqtt, db, last, pace, bounds>>

\* The temperature node's part also says whether the node was reached.
Node == [value : Nat, online : BOOLEAN]
State == [g1 : Nat, g2 : Nat, t3 : Node]
NoNode == [value |-> 0, online |-> FALSE]
NoState == [g1 |-> 0, g2 |-> 0, t3 |-> NoNode]

Steps == {"idle", "fetch", "fetchNode", "enter", "copy", "copyRest", "seal",
          "publishG1", "publishG2", "publishT3"}

\* g1 and t3 are what the thread fetched, 0 for no answer from greenhouse 1; copy is its
\* snapshot; due is the telemetry value that started it.
Threads == [pc : Steps, g1 : Nat, t3 : Node, seq : Nat, copy : State, due : Nat]
Fresh == [pc |-> "fetch", g1 |-> 0, t3 |-> NoNode, seq |-> 0, copy |-> NoState, due |-> 0]
Idle == [Fresh EXCEPT !.pc = "idle"]
NoAnswer == [pc |-> "idle", g1 |-> 0, changed |-> FALSE]
NoMessage == [pc |-> "idle", value |-> 0, at |-> 0, current |-> TRUE]
NoSnapshot ==
  [seq |-> 0, envelope |-> 0, g2 |-> 0, t3 |-> NoNode, alertsG2 |-> 0, alertsT3 |-> NoNode]

TypeOK ==
  /\ device \in [Parts -> Nat]
  /\ store \in State
  /\ seq \in 0 .. MaxNumber
  /\ envelope \in 0 .. MaxNumber
  /\ lock \in Thread \cup {Handler, NoThread}
  /\ thread \in [Thread -> Threads]
  /\ worker \in [pc : {"idle", "compare", "replace"}, g1 : Nat, changed : BOOLEAN]
  /\ mqtt \in [pc : {"idle", "set", "wait"}, value : Nat, at : Nat, current : BOOLEAN]
  /\ db \in State
  /\ last \in [seq : Nat, envelope : Nat, g2 : Nat, t3 : Node, alertsG2 : Nat, alertsT3 : Node]
  /\ clock \in Nat
  /\ lastReactive \in Nat
  /\ reactive \in Nat
  /\ messages \in Nat
  /\ faults \in Nat

Init ==
  /\ store = NoState
  /\ seq = 0
  /\ envelope = 0
  /\ lock = NoThread
  /\ thread = [t \in Thread |-> Idle]
  /\ worker = NoAnswer
  /\ mqtt = NoMessage
  /\ last = NoSnapshot
  /\ clock = Second
  /\ lastReactive = 0
  /\ reactive = 0
  /\ device = [p \in Parts |-> 1]
  /\ db = NoState
  /\ messages = 0
  /\ faults = 0

-----------------------------------------------------------------------------
(* The devices and the clock                                               *)

Change(p) ==
  /\ device[p] <= Changes[p]
  /\ device' = [device EXCEPT ![p] = @ + 1]
  /\ UNCHANGED <<memory, lock, thread, worker, mqtt, db, last, pace, bounds>>

Tick ==
  /\ clock < MaxClock
  /\ clock' = clock + 1
  /\ UNCHANGED <<device, memory, lock, thread, worker, mqtt, db, last, lastReactive, reactive, bounds>>

-----------------------------------------------------------------------------
(* Snapshots: _send_snapshot                                               *)

At(t, step) == thread[t].pc = step
Bump(n) == IF n < MaxNumber THEN n + 1 ELSE n

Fault ==
  /\ faults < MaxFaults
  /\ faults' = faults + 1
  /\ UNCHANGED messages

\* _start_background_snapshot, for a telemetry value that is due in it.  The code sets
\* no bound; here a step that starts one waits for a slot.
StartSnapshot(due) ==
  \E s \in Slot :
    /\ At(s, "idle")
    /\ thread' = [thread EXCEPT ![s] = [Fresh EXCEPT !.due = due]]

\* The main loop: the next snapshot is due.
SnapshotDue ==
  /\ At(Main, "idle")
  /\ thread' = [thread EXCEPT ![Main] = Fresh]
  /\ UNCHANGED <<device, memory, lock, worker, mqtt, db, last, pace, bounds>>

\* A command was executed, by the queue's worker or for an HTTP request.
CommandDone ==
  /\ StartSnapshot(0)
  /\ UNCHANGED <<device, memory, lock, worker, mqtt, db, last, pace, bounds>>

\* What is in the store of the node, marked offline.
Previous == [value |-> store.t3.value, online |-> FALSE]

\* Without an answer the store's own state goes into the snapshot.  The request to the
\* node that follows takes the store's previous values along.
FetchG1(t) ==
  /\ At(t, "fetch")
  /\ \/ /\ thread' = [thread EXCEPT ![t].pc = "fetchNode", ![t].g1 = device["g1"], ![t].t3 = Previous]
        /\ UNCHANGED bounds
     \/ /\ Fault
        /\ thread' = [thread EXCEPT ![t].pc = "fetchNode", ![t].t3 = Previous]
  /\ UNCHANGED <<device, memory, lock, worker, mqtt, db, last, pace>>

\* Mutant of FetchNode: the answer is stored as it comes.
FetchNodeStoring(t) ==
  /\ At(t, "fetchNode")
  /\ thread' = [thread EXCEPT ![t].pc = "enter",
                  ![t].t3 = [value |-> device["t3"], online |-> TRUE]]
  /\ store' = [store EXCEPT !.t3 = [value |-> device["t3"], online |-> TRUE]]
  /\ UNCHANGED <<device, seq, envelope, lock, worker, mqtt, db, last, pace, bounds>>

\* Without an answer the previous values stay, marked offline.
FetchNode(t) ==
  /\ At(t, "fetchNode")
  /\ \/ /\ thread' = [thread EXCEPT ![t].pc = "enter",
                        ![t].t3 = [value |-> device["t3"], online |-> TRUE]]
        /\ UNCHANGED bounds
     \/ /\ Fault
        /\ thread' = [thread EXCEPT ![t].pc = "enter"]
  /\ UNCHANGED <<device, memory, lock, worker, mqtt, db, last, pace>>

\* A new object for greenhouse 1: a write that is under way goes to the old one.
Replaced == mqtt' = [mqtt EXCEPT !.current = mqtt.pc # "set"]

\* Mutant of Refresh: an answer does not replace what a message wrote.
RefreshUnknown(t) ==
  /\ store' = [store EXCEPT !.g1 = IF @ = 0 THEN thread[t].g1 ELSE @, !.t3 = thread[t].t3]
  /\ Replaced

Refresh(t) ==
  /\ store' = [store EXCEPT
       !.g1 = IF thread[t].g1 = 0 THEN @ ELSE thread[t].g1,
       !.t3 = thread[t].t3]
  /\ IF thread[t].g1 = 0 THEN UNCHANGED mqtt ELSE Replaced

\* Mutant of Enter: the lock is not waited for.
EnterAnyway(t) ==
  /\ At(t, "enter")
  /\ lock' = t
  /\ Refresh(t)
  /\ seq' = Bump(seq)
  /\ thread' = [thread EXCEPT ![t] = [@ EXCEPT !.pc = "copy", !.g1 = 0, !.t3 = NoNode, !.seq = seq']]
  /\ UNCHANGED <<device, envelope, worker, db, last, pace, bounds>>

\* Under the lock: what was fetched is stored and the number is drawn.
Enter(t) ==
  /\ At(t, "enter")
  /\ lock = NoThread
  /\ lock' = t
  /\ Refresh(t)
  /\ seq' = Bump(seq)
  /\ thread' = [thread EXCEPT ![t] = [@ EXCEPT !.pc = "copy", !.g1 = 0, !.t3 = NoNode, !.seq = seq']]
  /\ UNCHANGED <<device, envelope, worker, db, last, pace, bounds>>

\* next_snapshot copies part after part while the MQTT thread may write.
CopyG1(t) ==
  /\ At(t, "copy")
  /\ thread' = [thread EXCEPT ![t].pc = "copyRest", ![t].copy = [@ EXCEPT !.g1 = store.g1]]
  /\ UNCHANGED <<device, memory, lock, worker, mqtt, db, last, pace, bounds>>

CopyRest(t) ==
  /\ At(t, "copyRest")
  /\ thread' = [thread EXCEPT ![t].pc = "seal", ![t].copy = [@ EXCEPT !.g2 = store.g2, !.t3 = store.t3]]
  /\ UNCHANGED <<device, memory, lock, worker, mqtt, db, last, pace, bounds>>

\* _build_alerts reads the store again; the packet is sealed and the lock is free.
\* It is sent to Telegram, which may fail and is of no consequence.
Seal(t) ==
  /\ At(t, "seal")
  /\ envelope' = Bump(envelope)
  /\ last' = IF MaxNumber = 0 THEN last
             ELSE [seq |-> thread[t].seq, envelope |-> envelope', g2 |-> thread[t].copy.g2,
                   t3 |-> thread[t].copy.t3, alertsG2 |-> store.g2, alertsT3 |-> store.t3]
  /\ lock' = NoThread
  /\ thread' = [thread EXCEPT ![t].pc = "publishG1", ![t].seq = 0]
  /\ UNCHANGED <<device, store, seq, worker, mqtt, db, pace, bounds>>

\* Each publish, and what follows it.
NextPublish == [publishG1 |-> "publishG2", publishG2 |-> "publishT3", publishT3 |-> "idle"]
PartOf == [publishG1 |-> "g1", publishG2 |-> "g2", publishT3 |-> "t3"]
Publishing(t) == thread[t].pc \in {"publishG1", "publishG2", "publishT3"}

Write(t) ==
  LET p == PartOf[thread[t].pc]
  IN  db' = [db EXCEPT ![p] = thread[t].copy[p]]

\* What is published is not looked at again, and the model drops it.
Published(t) ==
  LET p == PartOf[thread[t].pc]
  IN  [thread[t] EXCEPT !.pc = NextPublish[@], !.copy[p] = NoState[p],
                        !.due = IF p = "g2" THEN 0 ELSE @]

Publish(t) ==
  /\ Publishing(t)
  /\ Write(t)
  /\ thread' = [thread EXCEPT ![t] = IF At(t, "publishT3") THEN Idle ELSE Published(t)]
  /\ UNCHANGED <<device, memory, lock, worker, mqtt, last, pace, bounds>>

\* The call fails, with or without its effect, and the other parts are left out.
PublishFails(t) ==
  /\ Publishing(t)
  /\ Fault
  /\ Write(t) \/ UNCHANGED db
  /\ thread' = [thread EXCEPT ![t] = Idle]
  /\ UNCHANGED <<device, memory, lock, worker, mqtt, last, pace>>

-----------------------------------------------------------------------------
(* The status worker: _refresh_greenhouse1_http_state                      *)

\* A call that fails changes nothing.
PollStatus ==
  /\ worker.pc = "idle"
  /\ worker' = [worker EXCEPT !.pc = "compare", !.g1 = device["g1"]]
  /\ UNCHANGED <<device, memory, lock, thread, mqtt, db, last, pace, bounds>>

\* The comparison is made before the lock.  Its time stamp makes the answer differ
\* from the store unless that was refreshed in the same second.
Compare ==
  /\ worker.pc = "compare"
  /\ \E changed \in BOOLEAN :
       /\ worker.g1 # store.g1 => changed
       /\ worker' = [worker EXCEPT !.pc = "replace", !.changed = changed]
  /\ UNCHANGED <<device, memory, lock, thread, mqtt, db, last, pace, bounds>>

ReplaceG1 ==
  /\ worker.pc = "replace"
  /\ lock = NoThread
  /\ store' = [store EXCEPT !.g1 = worker.g1]
  /\ Replaced
  /\ IF worker.changed THEN StartSnapshot(0) ELSE UNCHANGED thread
  /\ worker' = NoAnswer
  /\ UNCHANGED <<device, seq, envelope, lock, db, last, pace, bounds>>

-----------------------------------------------------------------------------
(* The MQTT thread                                                         *)

\* A message about greenhouse 1, perhaps late, takes hold of the object in the store ...
TakeG1(value) ==
  /\ mqtt.pc = "idle"
  /\ "g1" \in Telling
  /\ messages < MaxMessages
  /\ messages' = messages + 1
  /\ mqtt' = [NoMessage EXCEPT !.pc = "set", !.value = value]
  /\ UNCHANGED <<device, memory, lock, thread, worker, db, last, pace, faults>>

\* ... and writes to it.  No topic of greenhouse 1 starts a snapshot.
SetG1 ==
  /\ mqtt.pc = "set"
  /\ store' = [store EXCEPT !.g1 = IF mqtt.current THEN mqtt.value ELSE @]
  /\ mqtt' = NoMessage
  /\ UNCHANGED <<device, seq, envelope, lock, thread, worker, db, last, pace, bounds>>

\* What a message about greenhouse 2 asks for: a changed value of an important topic
\* that is not a retained one asks for a snapshot, and the time is taken.
Asks(value) ==
  \/ UNCHANGED mqtt
  \/ /\ value # store.g2
     /\ mqtt' = [NoMessage EXCEPT !.pc = "wait", !.value = value, !.at = clock]

\* Mutant of SetG2: the value goes to an object that the store has no more.
SetOldG2(value) ==
  /\ mqtt.pc = "idle"
  /\ messages < MaxMessages
  /\ messages' = messages + 1
  /\ Asks(value)
  /\ UNCHANGED <<device, memory, lock, thread, worker, db, last, pace, faults>>

\* Greenhouse 2 is never replaced; its messages come in order, some get lost.
SetG2(value) ==
  /\ mqtt.pc = "idle"
  /\ value >= store.g2
  /\ "g2" \in Telling
  /\ messages < MaxMessages
  /\ messages' = messages + 1
  /\ store' = [store EXCEPT !.g2 = value]
  /\ Asks(value)
  /\ UNCHANGED <<device, seq, envelope, lock, thread, worker, db, last, pace, faults>>

\* Mutant of React: the time of the snapshot is not kept.
ReactForgetful ==
  /\ mqtt.pc = "wait"
  /\ lock = NoThread
  /\ mqtt' = NoMessage
  /\ \/ /\ mqtt.at >= lastReactive + Second
        /\ reactive' = reactive + 1
        /\ StartSnapshot(mqtt.value)
     \/ /\ mqtt.at < lastReactive + Second
        /\ UNCHANGED <<reactive, thread>>
  /\ UNCHANGED <<device, memory, lock, worker, db, last, clock, lastReactive, bounds>>

\* handle_mqtt_update, once it has the lock; the time is the one it came with.
React ==
  /\ mqtt.pc = "wait"
  /\ lock = NoThread
  /\ mqtt' = NoMessage
  /\ \/ /\ mqtt.at >= lastReactive + Second
        /\ lastReactive' = mqtt.at
        /\ reactive' = reactive + 1
        /\ StartSnapshot(mqtt.value)
     \/ /\ mqtt.at < lastReactive + Second
        /\ UNCHANGED <<lastReactive, reactive, thread>>
  /\ UNCHANGED <<device, memory, lock, worker, db, last, clock, bounds>>

-----------------------------------------------------------------------------
(* The handlers of command packets                                         *)

HandlerEnters ==
  /\ lock = NoThread
  /\ lock' = Handler
  /\ UNCHANGED <<device, memory, thread, worker, mqtt, db, last, pace, bounds>>

\* seal_command_status
HandlerSeals ==
  /\ lock = Handler
  /\ envelope' = Bump(envelope)
  /\ UNCHANGED <<device, store, seq, lock, thread, worker, mqtt, db, last, pace, bounds>>

HandlerLeaves ==
  /\ lock = Handler
  /\ lock' = NoThread
  /\ UNCHANGED <<device, memory, thread, worker, mqtt, db, last, pace, bounds>>

\* After a change of the settings the queue's worker sends the configuration, sealed like
\* the rest but without the lock.  Drawing the number is one step nevertheless: the
\* interpreter switches threads at calls and jumps, and there is none between the
\* increment and the return.
WorkerSeals ==
  /\ envelope' = Bump(envelope)
  /\ UNCHANGED <<device, store, seq, lock, thread, worker, mqtt, db, last, pace, bounds>>

\* The process dies and is started again; it counts as a fault.
Crash ==
  /\ Fault
  /\ store' = NoState
  /\ seq' = 0
  /\ envelope' = 0
  /\ lock' = NoThread
  /\ thread' = [t \in Thread |-> Idle]
  /\ worker' = NoAnswer
  /\ mqtt' = NoMessage
  /\ last' = NoSnapshot
  /\ clock' = Second
  /\ lastReactive' = 0
  /\ reactive' = 0
  /\ UNCHANGED <<device, db>>

-----------------------------------------------------------------------------
(* The specification                                                       *)

\* Everything a snapshot thread does but take the lock.
Proceed(t) ==
  FetchG1(t) \/ FetchNode(t) \/ CopyG1(t) \/ CopyRest(t) \/ Seal(t) \/ Publish(t)

Next ==
  \/ \E p \in Parts : Change(p)
  \/ Tick
  \/ SnapshotDue \/ CommandDone
  \/ \E t \in Thread : Proceed(t) \/ Enter(t) \/ PublishFails(t)
  \/ PollStatus \/ Compare \/ ReplaceG1
  \/ \E value \in 1 .. device["g1"] : TakeG1(value)
  \/ \E value \in 1 .. device["g2"] : SetG2(value)
  \/ SetG1 \/ React
  \/ HandlerEnters \/ HandlerSeals \/ HandlerLeaves \/ WorkerSeals
  \/ Crash

Spec == Init /\ [][Next]_vars

\* Snapshots come due again and again, threads keep running, handlers leave, and a
\* thread that waits for the lock is not passed over for ever: every holder makes
\* network calls before it wants the lock again.
Fairness ==
  /\ WF_vars(SnapshotDue)
  /\ WF_vars(HandlerLeaves)
  /\ \A t \in Thread : WF_vars(Proceed(t)) /\ SF_vars(Enter(t))

FairSpec == Spec /\ Fairness

-----------------------------------------------------------------------------
(* Properties                                                              *)

\* Whichever threads take and seal snapshots, a later packet to the app has a higher
\* snapshot number, a higher envelope number and no older state of greenhouse 2.
SealedInOrder ==
  [][last' \notin {last, NoSnapshot} =>
       /\ last'.seq > last.seq \/ last'.seq = MaxNumber
       /\ last'.envelope > last.envelope \/ last'.envelope = MaxNumber
       /\ last'.g2 >= last.g2]_last

\* The alerts of a snapshot speak of the temperature node that is in it and, although
\* the MQTT thread writes in between, never of an older greenhouse 2.
AlertsFitCopy ==
  /\ last.alertsT3 = last.t3
  /\ last.alertsG2 >= last.g2

\* A snapshot that a telemetry change started contains that change.
ChangeIsShown ==
  \A t \in Thread : thread[t].pc \in {"publishG1", "publishG2"} => thread[t].copy.g2 >= thread[t].due

\* Telemetry changes start no more than one snapshot a second on the average since
\* the start, however long a message waits for the lock.
ReactiveRate == reactive * Second <= clock

\* To the app the threads are one: between the number that is drawn for a snapshot and its
\* packet no other number is drawn, nothing is stored of the node and no other snapshot is
\* sealed, and every packet has the next number of its kind.
Contract == INSTANCE SnapshotContract WITH
              g2 <- store.g2, node <- store.t3, number <- seq,
              open <- lock \in Thread, sealed <- last

TakenInTurn == Contract!Spec

\* Once the devices and the network are quiet, Firebase shows what greenhouse 1 and the
\* temperature node really have and what greenhouse 2 last reported, and it stays so:
\* no thread with an older snapshot has the last word.
Converges ==
  <>[](db = [g1 |-> device["g1"], g2 |-> store.g2,
             t3 |-> [value |-> device["t3"], online |-> TRUE]])
=============================================================================
