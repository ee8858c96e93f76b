---------------------------- MODULE CommandIngress ----------------------------
(***************************************************************************)
(* The legacy command ingress of the greenhouse bridge, where it is        *)
(* enabled: the main loop polls Telegram for encrypted packets and handles *)
(* them one by one; requests to the local HTTP endpoint are handled in     *)
(* threads of their own.  Both take the runtime lock, open the packet,     *)
(* ask the command guard, post the command to an ESP32 and report every    *)
(* step to the app over Telegram.  The Firebase command worker asks the    *)
(* same guard without the lock.                                            *)
(*                                                                         *)
(* A report that cannot be sent raises.  What is not caught in the main    *)
(* loop ends the process; systemd starts it again, with the polling        *)
(* offset, the replay check and the guard empty, and Telegram delivers     *)
(* again what was not confirmed.                                           *)
(***************************************************************************)
EXTENDS Naturals, Sequences

CONSTANTS
  Packet,       \* encrypted packets the app has made
  EnvelopeSeq,  \* the numbers of their envelopes
  SeqOf,        \* an envelope's number, or NoSeq
  NoSeq,
  Id,           \* command ids
  IdOf,         \* the id of a packet's command
  Kind,         \* what a packet holds
  Request,      \* requests to the HTTP endpoint
  FirebaseId,   \* ids that the Firebase worker executes
  NoPacket,
  NoThread,
  NoId,
  MaxSends,     \* bound: messages of the app to Telegram
  MaxFaults,    \* bound: calls to Telegram that fail
  MaxCrashes    \* bound: crashes that no exception causes

Kinds == {"command", "refresh", "refused", "undated", "garbled", "malformed"}
Main == "main"
Thread == {Main} \cup Request

ASSUME IngressAssumption ==
  /\ SeqOf \in [Packet -> EnvelopeSeq \cup {NoSeq}]
  /\ IdOf \in [Packet -> Id]
  /\ Kind \in [Packet -> Kinds]
  /\ Main \notin Request
  /\ FirebaseId \subseteq Id
  /\ NoPacket \notin Packet
  /\ NoThread \notin Thread
  /\ NoId \notin Id
  /\ NoSeq \notin EnvelopeSeq
  /\ {MaxSends, MaxFaults, MaxCrashes} \subseteq Nat

VARIABLES
  updates,     \* the messages of the service chat, in the order of update_id
  confirmed,   \* Telegram has forgotten the first ones, up to this
  polling,     \* command_polling_enabled
  offset,      \* _next_offset: updates before it have been received; 0 is None
  batch,       \* updates received and not yet taken, as first and last
  thread,      \* where each thread stands in _handle_command_packet
  lock,        \* the holder of _runtime_lock
  firebase,    \* where the Firebase worker stands between guard and dispatch
  seenSeqs,    \* CryptoBox._seen_incoming_seq
  seenIds,     \* CommandGuard._seen_command_ids
  envelopeDue, \* packets whose envelope has expired
  commandDue,  \* packets whose command has expired
  handled,     \* updates that were handled to the end
  posted,      \* ids each path posted to a device since the start
  reached,     \* ids that ever reached a device
  accepted,    \* packets reported to the app as accepted by a device
  answer,      \* what the HTTP requests got
  faults,
  crashes

telegram == <<updates, confirmed>>
loop == <<polling, offset, batch>>
memory == <<seenSeqs, seenIds>>
clock == <<envelopeDue, commandDue>>
record == <<handled, reached, accepted, answer>>
bounds == <<faults, crashes>>
vars == <<telegram, loop, thread, lock, firebase, memory, clock, posted, record, bounds>>

\* The statuses that are sent, and what comes after each.
After(status) ==
  CASE status = "received" -> "check"
    [] status = "rejected" -> "return"
    [] status = "validated" -> "run"
    [] status = "dispatched" -> "executing"
    [] status = "executing" -> "executed"
    [] status = "executed" -> "succeed"
    [] status = "failed" -> "return"

Statuses == {"received", "rejected", "validated", "dispatched", "executing",
             "executed", "failed"}
Steps == Statuses \cup {"idle", "wait", "open", "check", "admit", "run",
                        "return", "succeed", "exiting"}
Answers == {"none", "ok", "refused", "crashed", "lost"}
Paths == {"legacy", "firebase"}

Idle == [pc |-> "idle", packet |-> NoPacket]
NoBatch == <<1, 0>>
Rest == [pc |-> "idle", id |-> NoId]

TypeOK ==
  /\ updates \in Seq(Packet)
  /\ confirmed \in Nat
  /\ polling \in BOOLEAN
  /\ offset \in Nat
  /\ batch \in Nat \X Nat
  /\ thread \in [Thread -> [pc : Steps, packet : Packet \cup {NoPacket}]]
  /\ lock \in Thread \cup {NoThread}
  /\ firebase \in [pc : {"idle", "admit", "post"}, id : Id \cup {NoId}]
  /\ seenSeqs \subseteq EnvelopeSeq
  /\ seenIds \subseteq Id
  /\ envelopeDue \subseteq Packet
  /\ commandDue \subseteq Packet
  /\ handled \subseteq Nat
  /\ posted \in [Paths -> SUBSET Id]
  /\ reached \subseteq Id
  /\ accepted \subseteq Packet
  /\ answer \in [Request -> Answers]
  /\ faults \in Nat
  /\ crashes \in Nat

Init ==
  /\ updates = <<>>
  /\ confirmed = 0
  /\ polling = TRUE
  /\ offset = 0
  /\ batch = NoBatch
  /\ thread = [t \in Thread |-> Idle]
  /\ lock = NoThread
  /\ firebase = Rest
  /\ seenSeqs = {}
  /\ seenIds = {}
  /\ envelopeDue = {}
  /\ commandDue = {}
  /\ handled = {}
  /\ posted = [p \in Paths |-> {}]
  /\ reached = {}
  /\ accepted = {}
  /\ answer = [r \in Request |-> "none"]
  /\ faults = 0
  /\ crashes = 0

-----------------------------------------------------------------------------
(* The app and the clock                                                   *)

\* The app sends a packet to the service chat, also one it sent before.
SendMessage(p) ==
  /\ Len(updates) < MaxSends
  /\ updates' = Append(updates, p)
  /\ UNCHANGED <<confirmed, loop, thread, lock, firebase, memory, clock, posted, record, bounds>>

\* Sent to Telegram or handed in with a request.  A packet that expires before that is
\* one that expires right after: nothing looks at it in between.
Out(p) ==
  \/ \E i \in 1 .. Len(updates) : updates[i] = p
  \/ \E t \in Thread : thread[t].packet = p

EnvelopeExpires(p) ==
  /\ Out(p)
  /\ p \notin envelopeDue
  /\ envelopeDue' = envelopeDue \cup {p}
  /\ UNCHANGED <<telegram, loop, thread, lock, firebase, memory, commandDue, posted, record, bounds>>

CommandExpires(p) ==
  /\ Out(p)
  /\ p \notin commandDue
  /\ commandDue' = commandDue \cup {p}
  /\ UNCHANGED <<telegram, loop, thread, lock, firebase, memory, envelopeDue, posted, record, bounds>>

-----------------------------------------------------------------------------
(* The threads                                                             *)

At(t, step) == thread[t].pc = step
InHand(t) == thread[t].packet
CmdId(t) == IdOf[InHand(t)]

Goto(t, step) == thread' = [thread EXCEPT ![t].pc = step]

\* A restart: nothing but Telegram's queue survives.
Restarted ==
  /\ polling' = TRUE
  /\ offset' = 0
  /\ batch' = NoBatch
  /\ thread' = [t \in Thread |-> Idle]
  /\ lock' = NoThread
  /\ firebase' = Rest
  /\ seenSeqs' = {}
  /\ seenIds' = {}
  /\ posted' = [p \in Paths |-> {}]
  /\ answer' = [r \in Request |-> IF At(r, "idle") THEN answer[r] ELSE "lost"]
  /\ UNCHANGED <<telegram, clock, handled, reached, accepted>>

\* An exception leaves run(): the process ends.
Exit == thread' = [thread EXCEPT ![Main] = [pc |-> "exiting", packet |-> NoPacket]]

\* poll_packets: the offset confirms what was received before.  Messages that are
\* not packets, which it skips, are left out.
Poll ==
  /\ At(Main, "idle")
  /\ polling
  /\ batch[1] > batch[2]
  /\ confirmed' = IF offset = 0 THEN confirmed ELSE offset - 1
  /\ batch' = <<confirmed' + 1, Len(updates)>>
  /\ offset' = IF confirmed' < Len(updates) THEN Len(updates) + 1 ELSE offset
  /\ <<confirmed', batch', offset'>> # <<confirmed, batch, offset>>
  /\ UNCHANGED <<updates, polling, thread, lock, firebase, memory, clock, posted, record, bounds>>

\* Error 409: another client polls.  Polling is given up until the next start.
PollConflict ==
  /\ At(Main, "idle")
  /\ polling
  /\ batch[1] > batch[2]
  /\ faults < MaxFaults
  /\ polling' = FALSE
  /\ faults' = faults + 1
  /\ UNCHANGED <<telegram, offset, batch, thread, lock, firebase, memory, clock, posted, record, crashes>>

\* Any other failure of the call, which Telegram may have seen.
PollFails ==
  /\ At(Main, "idle")
  /\ polling
  /\ batch[1] > batch[2]
  /\ faults < MaxFaults
  /\ confirmed' \in {confirmed, IF offset = 0 THEN confirmed ELSE offset - 1}
  /\ Exit
  /\ faults' = faults + 1
  /\ UNCHANGED <<updates, loop, lock, firebase, memory, clock, posted, record, crashes>>

\* The main loop takes the next packet of its batch.
TakePacket ==
  /\ At(Main, "idle")
  /\ batch[1] <= batch[2]
  /\ thread' = [thread EXCEPT ![Main] = [pc |-> "wait", packet |-> updates[batch[1]]]]
  /\ UNCHANGED <<telegram, loop, lock, firebase, memory, clock, posted, record, bounds>>

\* A request arrives at the HTTP endpoint.
TakeRequest(r, p) ==
  /\ At(r, "idle")
  /\ answer[r] = "none"
  /\ thread' = [thread EXCEPT ![r] = [pc |-> "wait", packet |-> p]]
  /\ UNCHANGED <<telegram, loop, lock, firebase, memory, clock, posted, record, bounds>>

-----------------------------------------------------------------------------
(* _handle_command_packet, under the lock                                  *)

\* Mutant of Acquire: the lock is not waited for.
AcquireAnyway(t) ==
  /\ At(t, "wait")
  /\ lock' = t
  /\ Goto(t, "open")
  /\ UNCHANGED <<telegram, loop, firebase, memory, clock, posted, record, bounds>>

Acquire(t) ==
  /\ At(t, "wait")
  /\ lock = NoThread
  /\ lock' = t
  /\ Goto(t, "open")
  /\ UNCHANGED <<telegram, loop, firebase, memory, clock, posted, record, bounds>>

Opens(p) ==
  /\ Kind[p] # "garbled"
  /\ p \notin envelopeDue
  /\ SeqOf[p] \notin seenSeqs

\* open_command: an envelope's number counts as seen before its payload is read.
Open(t) ==
  /\ At(t, "open")
  /\ \/ /\ ~Opens(InHand(t))
        /\ Goto(t, "return")
        /\ UNCHANGED seenSeqs
     \/ /\ Opens(InHand(t))
        /\ seenSeqs' = seenSeqs \cup ({SeqOf[InHand(t)]} \ {NoSeq})
        /\ Goto(t, IF Kind[InHand(t)] = "malformed" THEN "return" ELSE "received")
  /\ UNCHANGED <<telegram, loop, lock, firebase, seenIds, clock, posted, record, bounds>>

\* The main loop ends; a request is answered with a bridge error.  The lock is
\* free again.
Abort(t) ==
  /\ lock' = NoThread
  /\ \/ /\ t = Main
        /\ Exit
        /\ UNCHANGED answer
     \/ /\ t # Main
        /\ thread' = [thread EXCEPT ![t] = Idle]
        /\ answer' = [answer EXCEPT ![t] = "crashed"]

\* guard.validate, up to the look at the ids it let through.
Check(t) ==
  /\ At(t, "check")
  /\ Goto(t, IF Kind[InHand(t)] = "refused" \/ CmdId(t) \in seenIds
             THEN "rejected" ELSE "admit")
  /\ UNCHANGED <<telegram, loop, lock, firebase, memory, clock, posted, record, bounds>>

\* Mutant of Admit: the id is not remembered.
AdmitForgetful(t) ==
  /\ At(t, "admit")
  /\ Goto(t, IF InHand(t) \in commandDue THEN "rejected" ELSE "validated")
  /\ UNCHANGED <<telegram, loop, lock, firebase, memory, clock, posted, record, bounds>>

\* guard.validate, the rest: a time stamp without a time zone raises.
Admit(t) ==
  /\ At(t, "admit")
  /\ \/ /\ Kind[InHand(t)] = "undated"
        /\ Abort(t)
        /\ UNCHANGED seenIds
     \/ /\ Kind[InHand(t)] # "undated"
        /\ InHand(t) \in commandDue
        /\ Goto(t, "rejected")
        /\ UNCHANGED <<seenIds, lock, answer>>
     \/ /\ Kind[InHand(t)] # "undated"
        /\ InHand(t) \notin commandDue
        /\ Goto(t, "validated")
        /\ seenIds' = seenIds \cup {CmdId(t)}
        /\ UNCHANGED <<lock, answer>>
  /\ UNCHANGED <<telegram, loop, firebase, seenSeqs, clock, posted, handled, reached, accepted, bounds>>

Post(path, id) ==
  /\ posted' = [posted EXCEPT ![path] = @ \cup {id}]
  /\ reached' = reached \cup {id}

Dispatch(t) ==
  /\ At(t, "run")
  /\ Kind[InHand(t)] = "command"
  /\ Post("legacy", CmdId(t))
  /\ Goto(t, "dispatched")
  /\ UNCHANGED <<telegram, loop, lock, firebase, memory, clock, handled, accepted, answer, bounds>>

\* Mutant of DispatchFails: the command is reported all the same.
DispatchFailsUnnoticed(t) ==
  /\ At(t, "run")
  /\ Kind[InHand(t)] = "command"
  /\ Goto(t, "dispatched")
  /\ UNCHANGED <<telegram, loop, lock, firebase, memory, clock, posted, record, bounds>>

\* controller_http.dispatch raises, before or after the device took the command.
DispatchFails(t) ==
  /\ At(t, "run")
  /\ Kind[InHand(t)] = "command"
  /\ Post("legacy", CmdId(t)) \/ UNCHANGED <<posted, reached>>
  /\ Goto(t, "failed")
  /\ UNCHANGED <<telegram, loop, lock, firebase, memory, clock, handled, accepted, answer, bounds>>

\* _handle_refresh_configs: the devices are asked and the answers are sent.
RefreshConfigs(t) ==
  /\ At(t, "run")
  /\ Kind[InHand(t)] = "refresh"
  /\ \E step \in {"executed", "failed"} : Goto(t, step)
  /\ UNCHANGED <<telegram, loop, lock, firebase, memory, clock, posted, record, bounds>>

\* What the app is told of a packet.
Told(t) ==
  accepted' = IF thread[t].pc \in {"dispatched", "executing", "executed"}
              THEN accepted \cup {InHand(t)} ELSE accepted

\* _record_status
Report(t) ==
  /\ thread[t].pc \in Statuses
  /\ Told(t)
  /\ Goto(t, After(thread[t].pc))
  /\ UNCHANGED <<telegram, loop, lock, firebase, memory, clock, posted, handled, reached, answer, bounds>>

\* Mutant of ReportFails: the main loop goes on with the next packet.
ReportFailsQuietly(t) ==
  /\ thread[t].pc \in Statuses
  /\ faults < MaxFaults
  /\ thread' = [thread EXCEPT ![t] = Idle]
  /\ lock' = NoThread
  /\ batch' = IF t = Main THEN <<batch[1] + 1, batch[2]>> ELSE batch
  /\ faults' = faults + 1
  /\ UNCHANGED <<telegram, polling, offset, firebase, memory, clock, posted, record, crashes>>

\* The message cannot be sent, or only its receipt is lost.  After the dispatch
\* the exception is caught and reported in turn.
ReportFails(t) ==
  /\ thread[t].pc \in Statuses
  /\ faults < MaxFaults
  /\ Told(t) \/ UNCHANGED accepted
  /\ \/ /\ thread[t].pc \in {"dispatched", "executing", "executed"}
        /\ Goto(t, "failed")
        /\ UNCHANGED <<lock, answer>>
     \/ /\ thread[t].pc \in {"received", "rejected", "validated", "failed"}
        /\ Abort(t)
  /\ faults' = faults + 1
  /\ UNCHANGED <<telegram, loop, firebase, memory, clock, posted, handled, reached, crashes>>

\* What a request is answered.  The mutant takes every packet for carried out.
ResultOk(t) == "ok"
Result(t) == IF At(t, "succeed") THEN "ok" ELSE "refused"

\* Mutant of Return: the lock is kept.
ReturnHoldingLock(t) ==
  /\ thread[t].pc \in {"return", "succeed"}
  /\ thread' = [thread EXCEPT ![t] = Idle]
  /\ \/ /\ t = Main
        /\ handled' = handled \cup {batch[1]}
        /\ batch' = <<batch[1] + 1, batch[2]>>
        /\ UNCHANGED <<accepted, answer>>
     \/ /\ t # Main
        /\ answer' = [answer EXCEPT ![t] = Result(t)]
        /\ UNCHANGED <<handled, batch, accepted>>
  /\ UNCHANGED <<telegram, polling, offset, lock, firebase, memory, clock, posted, reached, bounds>>

\* The handler returns: the main loop turns to the next packet, a request is
\* answered.
Return(t) ==
  /\ thread[t].pc \in {"return", "succeed"}
  /\ thread' = [thread EXCEPT ![t] = Idle]
  /\ lock' = NoThread
  /\ \/ /\ t = Main
        /\ handled' = handled \cup {batch[1]}
        /\ batch' = <<batch[1] + 1, batch[2]>>
        /\ UNCHANGED answer
     \/ /\ t # Main
        /\ answer' = [answer EXCEPT ![t] = Result(t)]
        /\ UNCHANGED <<handled, batch>>
  /\ UNCHANGED <<telegram, polling, offset, firebase, memory, clock, posted, reached, accepted, bounds>>

-----------------------------------------------------------------------------
(* The Firebase worker at the same guard, without the lock                 *)

FirebaseCheck(id) ==
  /\ firebase.pc = "idle"
  /\ id \notin seenIds
  /\ firebase' = [pc |-> "admit", id |-> id]
  /\ UNCHANGED <<telegram, loop, thread, lock, memory, clock, posted, record, bounds>>

\* Unless the command has expired.
FirebaseAdmit ==
  /\ firebase.pc = "admit"
  /\ \/ /\ firebase' = Rest
        /\ UNCHANGED seenIds
     \/ /\ firebase' = [firebase EXCEPT !.pc = "post"]
        /\ seenIds' = seenIds \cup {firebase.id}
  /\ UNCHANGED <<telegram, loop, thread, lock, seenSeqs, clock, posted, record, bounds>>

\* The device may not be reached.
FirebaseDispatch ==
  /\ firebase.pc = "post"
  /\ Post("firebase", firebase.id) \/ UNCHANGED <<posted, reached>>
  /\ firebase' = Rest
  /\ UNCHANGED <<telegram, loop, thread, lock, memory, clock, handled, accepted, answer, bounds>>

-----------------------------------------------------------------------------
(* Crashes and restarts                                                    *)

\* systemd starts the process again after an exception ended it.
Restart ==
  /\ At(Main, "exiting")
  /\ Restarted
  /\ UNCHANGED bounds

Crash ==
  /\ crashes < MaxCrashes
  /\ Restarted
  /\ crashes' = crashes + 1
  /\ UNCHANGED faults

-----------------------------------------------------------------------------
(* The specification                                                       *)

Handle(t) ==
  \/ Acquire(t)
  \/ Open(t)
  \/ Check(t)
  \/ Admit(t)
  \/ Dispatch(t)
  \/ DispatchFails(t)
  \/ RefreshConfigs(t)
  \/ Report(t)
  \/ Return(t)

MainLoop == Poll \/ TakePacket \/ Handle(Main)

Next ==
  \/ \E p \in Packet :
       \/ SendMessage(p) \/ EnvelopeExpires(p) \/ CommandExpires(p)
       \/ \E r \in Request : TakeRequest(r, p)
  \/ MainLoop \/ PollConflict \/ PollFails \/ ReportFails(Main)
  \/ \E r \in Request : Handle(r) \/ ReportFails(r)
  \/ \E id \in FirebaseId : FirebaseCheck(id)
  \/ FirebaseAdmit \/ FirebaseDispatch
  \/ Restart \/ Crash

Spec == Init /\ [][Next]_vars

\* The threads keep running, systemd restarts, and envelopes expire.
Fairness ==
  /\ WF_vars(MainLoop)
  /\ \A r \in Request : WF_vars(Handle(r))
  /\ WF_vars(Restart)
  /\ \A p \in Packet : WF_vars(EnvelopeExpires(p))

FairSpec == Spec /\ Fairness

-----------------------------------------------------------------------------
(* Properties                                                              *)

\* Telegram forgets a message only after the bridge handled it to the end: the
\* offset is sent with the call after the batch, and an exception that skips the
\* rest of a batch ends the process and with it the offset.
ConfirmedMeansHandled == 1 .. confirmed \subseteq handled

\* Between two starts a command id is posted at most once by the legacy path, over
\* Telegram and HTTP together, and at most once by the Firebase worker, whatever
\* the app sends again and however the threads interleave.
OncePerPath ==
  /\ \A t \in Thread :
       At(t, "run") /\ Kind[InHand(t)] = "command" => CmdId(t) \notin posted["legacy"]
  /\ firebase.pc = "post" => firebase.id \notin posted["firebase"]

\* A device has taken every command of which the app was told that it is
\* dispatched, executing or executed, over all restarts: a status is sent only after
\* the post that it is about, also when an earlier status could not be sent.
AcceptedMeansPosted ==
  \A p \in accepted : Kind[p] = "command" => IdOf[p] \in reached

\* One thread at a time is between the opening of a packet and its result.
HandlesAlone ==
  \A t \in Thread :
    thread[t].pc \notin {"idle", "wait", "exiting"} => lock = t

\* All this and what the HTTP requests get is one promise, step by step: a command is
\* answered "ok" only if the app was told that a device took it, each request gets one
\* answer, and a restart loses exactly those under way.
Contract == INSTANCE IngressContract WITH
              Command <- {p \in Packet : Kind[p] = "command"}, Path <- Paths,
              sent <- Len(updates), forgotten <- confirmed, delivered <- posted,
              asked <- [r \in Request |-> InHand(r)]

KeepsIngressContract == Contract!Spec

\* Once Telegram can be reached, every message is handled, unless polling was given
\* up: also one that makes the guard raise and ends the process each time, until
\* its envelope expires.
EveryMessageHandled ==
  \A i \in 1 .. MaxSends : Len(updates) >= i ~> (i \in handled \/ ~polling)

\* Every HTTP request is answered, or lost in a restart.
EveryRequestAnswered ==
  \A r \in Request : At(r, "wait") ~> answer[r] # "none"
=============================================================================
