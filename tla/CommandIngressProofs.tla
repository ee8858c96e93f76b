------------------------- MODULE CommandIngressProofs -------------------------
(* Proofs about CommandIngress, for every instance of its constants.          *)
EXTENDS CommandIngress, TLAPS

-----------------------------------------------------------------------------
(* The inductive invariant                                                 *)

Busy(t) == thread[t].pc \notin {"idle", "wait", "exiting"}

\* A thread that handles a packet has one.
HandOK == \A t \in Thread : thread[t].pc \notin {"idle", "exiting"} => InHand(t) \in Packet

\* The batch is a part of the chat, and ends where the offset says.  What is before
\* its first packet was handled.
PollOK ==
  /\ 0 < batch[1]
  /\ batch[2] <= Len(updates)
  /\ confirmed <= Len(updates)
  /\ offset > 0 => offset = batch[2] + 1
  /\ 1 .. batch[1] - 1 \subseteq handled

\* On each path the guard remembers what was posted and, from the moment it let an
\* id through, what will be; the id was not posted before.
LegacyOK ==
  /\ posted["legacy"] \subseteq seenIds
  /\ \A t \in Thread :
       /\ thread[t].pc \in {"admit", "validated", "run"} /\ Kind[InHand(t)] = "command"
            => CmdId(t) \notin posted["legacy"]
       /\ thread[t].pc \in {"validated", "run"} => CmdId(t) \in seenIds

FirebaseOK ==
  /\ posted["firebase"] \subseteq seenIds
  /\ firebase.pc \in {"admit", "post"} =>
       firebase.id \in Id /\ firebase.id \notin posted["firebase"]
  /\ firebase.pc = "post" => firebase.id \in seenIds

\* A status that speaks of an accepted command is sent after the post.
ReportOK ==
  \A t \in Thread :
    thread[t].pc \in {"dispatched", "executing", "executed"} /\ Kind[InHand(t)] = "command"
      => CmdId(t) \in reached

IngressInv ==
  /\ TypeOK
  /\ HandOK
  /\ HandlesAlone
  /\ PollOK
  /\ ConfirmedMeansHandled
  /\ LegacyOK
  /\ FirebaseOK
  /\ ReportOK
  /\ AcceptedMeansPosted

-----------------------------------------------------------------------------
(* The threads                                                             *)

Threads == [pc : Steps, packet : Packet \cup {NoPacket}]

\* A step of one thread to another place in the handler.
LEMMA GotoFacts ==
  ASSUME TypeOK, NEW t \in Thread, NEW s \in Steps, Goto(t, s)
  PROVE  /\ thread' \in [Thread -> Threads]
         /\ thread'[t].pc = s /\ thread'[t].packet = thread[t].packet
         /\ \A u \in Thread : u # t => thread'[u] = thread[u]
         /\ \A u \in Thread : InHand(u)' = InHand(u) /\ CmdId(u)' = CmdId(u)
<1>1. thread \in [Thread -> Threads]
  BY DEF TypeOK, Threads
<1>2. thread' = [thread EXCEPT ![t] = [thread[t] EXCEPT !.pc = s]]
  BY DEF Goto
<1>3. [thread[t] EXCEPT !.pc = s] \in Threads
  BY <1>1 DEF Threads
<1>4. /\ thread' \in [Thread -> Threads]
      /\ thread'[t] = [thread[t] EXCEPT !.pc = s]
      /\ \A u \in Thread : u # t => thread'[u] = thread[u]
  BY <1>1, <1>2, <1>3
<1>5. thread'[t].pc = s /\ thread'[t].packet = thread[t].packet
  BY <1>1, <1>4 DEF Threads
<1>6. \A u \in Thread : InHand(u)' = InHand(u)
  BY <1>4, <1>5 DEF InHand
<1> QED
  BY <1>4, <1>5, <1>6 DEF CmdId

\* A step of one thread to a record of its own.
LEMMA PutFacts ==
  ASSUME TypeOK, NEW t \in Thread, NEW r \in Threads, thread' = [thread EXCEPT ![t] = r]
  PROVE  /\ thread' \in [Thread -> Threads]
         /\ thread'[t] = r
         /\ \A u \in Thread : u # t => thread'[u] = thread[u]
<1>1. thread \in [Thread -> Threads]
  BY DEF TypeOK, Threads
<1> QED
  BY <1>1

\* The records that threads are put to.
LEMMA Records ==
  /\ Idle \in Threads /\ Idle.pc = "idle"
  /\ [pc |-> "exiting", packet |-> NoPacket] \in Threads
  /\ \A p \in Packet : [pc |-> "wait", packet |-> p] \in Threads
  /\ Main \in Thread /\ Request \subseteq Thread
BY DEF Idle, Threads, Steps, Statuses, Thread

\* Who does a step.
LEMMA NextCases ==
  ASSUME [Next]_vars
  PROVE  \/ \E p \in Packet : SendMessage(p) \/ EnvelopeExpires(p) \/ CommandExpires(p)
         \/ \E p \in Packet, r \in Request : TakeRequest(r, p)
         \/ Poll \/ TakePacket \/ PollConflict \/ PollFails
         \/ \E t \in Thread : Handle(t) \/ ReportFails(t)
         \/ \E id \in FirebaseId : FirebaseCheck(id)
         \/ FirebaseAdmit \/ FirebaseDispatch \/ Restart \/ Crash
         \/ UNCHANGED vars
BY Records DEF Next, MainLoop

\* The places a step of the handler leads to.
LEMMA Places ==
  /\ Statuses \subseteq Steps /\ "open" \in Steps /\ "check" \in Steps /\ "admit" \in Steps
  /\ "run" \in Steps /\ "return" \in Steps
  /\ \A s \in Statuses : After(s) \in Steps \ {"idle", "wait", "exiting", "open", "admit"}
  /\ \A s \in Statuses : After(s) \notin {"validated", "dispatched"}
  /\ \A s \in Statuses : After(s) = "run" <=> s = "validated"
  /\ \A s \in Statuses : After(s) = "executing" => s = "dispatched"
  /\ \A s \in Statuses : After(s) = "executed" => s = "executing"
BY DEF Statuses, Steps, After

\* What an exception does: the thread lets go of the lock and of its packet.
LEMMA AbortFacts ==
  ASSUME TypeOK, NEW t \in Thread, Abort(t)
  PROVE  /\ thread' \in [Thread -> Threads]
         /\ thread'[t].pc \in {"idle", "exiting"}
         /\ \A u \in Thread : u # t => thread'[u] = thread[u]
         /\ lock' = NoThread
         /\ answer' \in [Request -> Answers]
<1>1. CASE t = Main /\ Exit /\ UNCHANGED answer
  BY <1>1, Records, PutFacts DEF Exit, Abort, TypeOK
<1>2. CASE /\ t # Main
           /\ thread' = [thread EXCEPT ![t] = Idle]
           /\ answer' = [answer EXCEPT ![t] = "crashed"]
  <2>1. answer' \in [Request -> Answers]
    BY <1>2 DEF TypeOK, Answers
  <2> QED
    BY <1>2, <2>1, Records, PutFacts DEF Abort
<1> QED
  BY <1>1, <1>2 DEF Abort

\* The ways a step of the handler can change the thread that does it: it takes the
\* lock, goes on to a place that follows its own, or leaves.
Follows ==
  {<<"open", "return">>, <<"open", "received">>, <<"check", "rejected">>, <<"check", "admit">>,
   <<"admit", "rejected">>, <<"admit", "validated">>, <<"run", "dispatched">>,
   <<"run", "failed">>, <<"run", "executed">>, <<"dispatched", "failed">>,
   <<"executing", "failed">>, <<"executed", "failed">>}
  \cup {<<s, After(s)>> : s \in Statuses}

Enters(t) == thread[t].pc = "wait" /\ thread'[t].pc = "open" /\ lock = NoThread /\ lock' = t
GoesOn(t) == <<thread[t].pc, thread'[t].pc>> \in Follows /\ lock' = lock
Leaves(t) == Busy(t) /\ thread'[t].pc \in {"idle", "exiting"} /\ lock' = NoThread

LEMMA HandlerMoves ==
  ASSUME TypeOK, NEW t \in Thread, Handle(t) \/ ReportFails(t)
  PROVE  /\ thread' \in [Thread -> Threads]
         /\ \A u \in Thread : u # t => thread'[u] = thread[u]
         /\ \/ Enters(t) /\ thread'[t].packet = thread[t].packet
            \/ GoesOn(t) /\ thread'[t].packet = thread[t].packet
            \/ Leaves(t)
<1>1. CASE Acquire(t)
  BY <1>1, Places, GotoFacts DEF Acquire, At, Enters
<1>2. CASE Open(t)
  <2>1. PICK s \in {"return", "received"} : Goto(t, s)
    BY <1>2 DEF Open
  <2>2. s \in Steps
    BY DEF Steps, Statuses
  <2> QED
    BY <1>2, <2>1, <2>2, GotoFacts DEF Open, At, GoesOn, Follows
<1>3. CASE Check(t)
  <2>1. PICK s \in {"rejected", "admit"} : Goto(t, s)
    BY <1>3 DEF Check
  <2>2. s \in Steps
    BY DEF Steps, Statuses
  <2> QED
    BY <1>3, <2>1, <2>2, GotoFacts DEF Check, At, GoesOn, Follows
<1>4. CASE Admit(t)
  <2>1. At(t, "admit")
    BY <1>4 DEF Admit
  <2>2. CASE Abort(t)
    BY <2>1, <2>2, AbortFacts DEF At, Leaves, Busy
  <2>3. ASSUME NEW s \in {"rejected", "validated"}, Goto(t, s), UNCHANGED lock
        PROVE  GoesOn(t) /\ thread'[t].packet = thread[t].packet
               /\ thread' \in [Thread -> Threads]
               /\ \A u \in Thread : u # t => thread'[u] = thread[u]
    <3>1. s \in Steps
      BY DEF Steps, Statuses
    <3> QED
      BY <2>1, <2>3, <3>1, GotoFacts DEF At, GoesOn, Follows
  <2> QED
    BY <1>4, <2>2, <2>3 DEF Admit
<1>5. CASE Dispatch(t) \/ DispatchFails(t) \/ RefreshConfigs(t)
  <2>1. PICK s \in {"dispatched", "failed", "executed"} : Goto(t, s)
    BY <1>5 DEF Dispatch, DispatchFails, RefreshConfigs
  <2>2. s \in Steps
    BY DEF Steps, Statuses
  <2>3. At(t, "run") /\ UNCHANGED lock
    BY <1>5 DEF Dispatch, DispatchFails, RefreshConfigs
  <2> QED
    BY <2>1, <2>2, <2>3, GotoFacts DEF At, GoesOn, Follows
<1>6. CASE Report(t)
  <2>1. thread[t].pc \in Statuses /\ Goto(t, After(thread[t].pc)) /\ UNCHANGED lock
    BY <1>6 DEF Report
  <2>2. After(thread[t].pc) \in Steps
    BY <2>1, Places
  <2> QED
    BY <2>1, <2>2, GotoFacts DEF GoesOn, Follows
<1>7. CASE ReportFails(t)
  <2>1. thread[t].pc \in Statuses
    BY <1>7 DEF ReportFails
  <2>2. CASE Abort(t)
    <3>1. Busy(t)
      BY <2>1 DEF Busy, Statuses
    <3> QED
      BY <2>2, <3>1, AbortFacts DEF Leaves
  <2>3. CASE /\ thread[t].pc \in {"dispatched", "executing", "executed"}
             /\ Goto(t, "failed")
             /\ UNCHANGED <<lock, answer>>
    <3>1. "failed" \in Steps
      BY DEF Steps, Statuses
    <3> QED
      BY <2>3, <3>1, GotoFacts DEF GoesOn, Follows
  <2> QED
    BY <1>7, <2>2, <2>3 DEF ReportFails
<1>8. CASE Return(t)
  <2>1. Busy(t) /\ lock' = NoThread /\ thread' = [thread EXCEPT ![t] = Idle]
    BY <1>8 DEF Return, Busy
  <2> QED
    BY <2>1, Records, PutFacts DEF Leaves
<1> QED
  BY <1>1, <1>2, <1>3, <1>4, <1>5, <1>6, <1>7, <1>8 DEF Handle

\* Only a busy thread goes on, to where it is busy.
LEMMA FollowsBusy ==
  \A a, b : <<a, b>> \in Follows =>
    /\ a \notin {"idle", "wait", "exiting"}
    /\ b \notin {"idle", "wait", "exiting"}
    /\ b = "admit" => a = "check"
    /\ b = "validated" => a = "admit"
    /\ b = "run" => a = "validated"
    /\ b = "dispatched" => a = "run"
    /\ b = "executing" => a = "dispatched"
    /\ b = "executed" => a \in {"executing", "run"}
BY Places DEF Follows, Statuses

-----------------------------------------------------------------------------
(* The lock                                                                *)

\* A restart puts every thread to rest.
LEMMA RestartedFacts ==
  ASSUME Restarted
  PROVE  /\ thread' = [t \in Thread |-> Idle]
         /\ \A t \in Thread : thread'[t] = Idle
BY DEF Restarted

\* Steps that leave the threads and the lock alone.
Elsewhere == UNCHANGED <<thread, lock>>

\* One thread at a time is inside, with a packet.
LEMMA LockStep ==
  IngressInv /\ [Next]_vars => HandlesAlone' /\ HandOK' /\ thread' \in [Thread -> Threads]
<1> SUFFICES ASSUME TypeOK, HandOK, HandlesAlone, PollOK, [Next]_vars
             PROVE  HandlesAlone' /\ HandOK' /\ thread' \in [Thread -> Threads]
  BY DEF IngressInv
<1>1. NoThread \notin Thread
  BY IngressAssumption
<1>2. thread \in [Thread -> Threads]
  BY DEF TypeOK, Threads
<1>3. CASE Elsewhere
  BY <1>2, <1>3 DEF Elsewhere, HandlesAlone, HandOK, InHand
<1>4. ASSUME NEW t \in Thread, NEW r \in Threads, UNCHANGED lock,
             thread' = [thread EXCEPT ![t] = r],
             r.pc \in {"idle", "wait", "exiting"}, r.pc = "wait" => r.packet \in Packet
      PROVE  HandlesAlone' /\ HandOK' /\ thread' \in [Thread -> Threads]
  <2>1. /\ thread' \in [Thread -> Threads] /\ thread'[t] = r
        /\ \A u \in Thread : u # t => thread'[u] = thread[u]
    BY <1>4, PutFacts
  <2> QED
    BY <1>4, <2>1 DEF HandlesAlone, HandOK, InHand
<1>5. ASSUME NEW t \in Thread, Handle(t) \/ ReportFails(t)
      PROVE  HandlesAlone' /\ HandOK' /\ thread' \in [Thread -> Threads]
  <2>1. /\ thread' \in [Thread -> Threads]
        /\ \A u \in Thread : u # t => thread'[u] = thread[u]
        /\ \/ Enters(t) /\ thread'[t].packet = thread[t].packet
           \/ GoesOn(t) /\ thread'[t].packet = thread[t].packet
           \/ Leaves(t)
    BY <1>5, HandlerMoves
  <2>2. CASE Enters(t) /\ thread'[t].packet = thread[t].packet
    BY <1>1, <2>1, <2>2 DEF Enters, HandlesAlone, HandOK, InHand
  <2>3. CASE GoesOn(t) /\ thread'[t].packet = thread[t].packet
    BY <2>1, <2>3, FollowsBusy DEF GoesOn, HandlesAlone, HandOK, InHand
  <2>4. CASE Leaves(t)
    BY <2>1, <2>4 DEF Leaves, Busy, HandlesAlone, HandOK, InHand
  <2> QED
    BY <2>1, <2>2, <2>3, <2>4
<1>6. CASE Restart \/ Crash
  <2>1. \A t \in Thread : thread'[t] = Idle
    BY <1>6, RestartedFacts DEF Restart, Crash
  <2>2. thread' \in [Thread -> Threads]
    BY <1>6, Records, RestartedFacts DEF Restart, Crash
  <2> QED
    BY <2>1, <2>2, Records DEF HandlesAlone, HandOK
<1>7. ASSUME NEW p \in Packet, NEW r \in Request, TakeRequest(r, p)
      PROVE  HandlesAlone' /\ HandOK' /\ thread' \in [Thread -> Threads]
  BY <1>7, <1>4, Records DEF TakeRequest
<1>8. CASE PollFails
  BY <1>8, <1>4, Records DEF PollFails, Exit
<1>9. CASE TakePacket
  <2>1. updates[batch[1]] \in Packet
    <3>1. batch[1] \in Nat /\ batch[2] \in Nat /\ updates \in Seq(Packet)
      BY DEF TypeOK
    <3>2. batch[1] \in 1 .. Len(updates)
      BY <1>9, <3>1 DEF TakePacket, PollOK
    <3> QED
      BY <3>1, <3>2
  <2> QED
    BY <1>9, <2>1, <1>4, Records DEF TakePacket
<1>10. CASE \/ \E p \in Packet : SendMessage(p) \/ EnvelopeExpires(p) \/ CommandExpires(p)
            \/ Poll \/ PollConflict
            \/ \E id \in FirebaseId : FirebaseCheck(id)
            \/ FirebaseAdmit \/ FirebaseDispatch \/ UNCHANGED vars
  <2>1. Elsewhere
    BY <1>10 DEF SendMessage, EnvelopeExpires, CommandExpires, Poll, PollConflict, FirebaseCheck,
      FirebaseAdmit, FirebaseDispatch, Elsewhere, vars
  <2> QED
    BY <1>3, <2>1
<1>11. CASE \E t \in Thread : Handle(t) \/ ReportFails(t)
  BY <1>5, <1>11
<1>12. CASE \E p \in Packet, r \in Request : TakeRequest(r, p)
  BY <1>7, <1>12
<1> QED
  BY <1>6, <1>8, <1>9, <1>10, <1>11, <1>12, NextCases

-----------------------------------------------------------------------------
(* Polling                                                                 *)

\* What polling is about is left alone.
PollKept == UNCHANGED <<updates, confirmed, offset, batch, handled>>

\* Only the end of a packet changes it in the handler.
LEMMA HandlerPolls ==
  ASSUME NEW t \in Thread, Handle(t) \/ ReportFails(t), ~Return(t)
  PROVE  PollKept
BY DEF Handle, Acquire, Open, Check, Admit, Dispatch, DispatchFails, RefreshConfigs, Report,
  ReportFails, PollKept, telegram, loop, record

\* The same numbers, named by the one that follows them.
LEMMA UpTo ==
  ASSUME NEW n \in Nat, NEW next, next = n + 1, NEW S, 1 .. n \subseteq S
  PROVE  1 .. next - 1 \subseteq S
<1>1. next - 1 = n
  OBVIOUS
<1> QED
  BY <1>1

\* A message is confirmed only when it was handled.
LEMMA PollStep == IngressInv /\ [Next]_vars => PollOK' /\ ConfirmedMeansHandled'
<1> SUFFICES ASSUME TypeOK, PollOK, ConfirmedMeansHandled, [Next]_vars
             PROVE  PollOK' /\ ConfirmedMeansHandled'
  BY DEF IngressInv
<1>1. /\ updates \in Seq(Packet) /\ Len(updates) \in Nat
      /\ confirmed \in Nat /\ offset \in Nat /\ batch \in Nat \X Nat
      /\ batch[1] \in Nat /\ batch[2] \in Nat
  BY DEF TypeOK
<1>0. ASSUME batch[1] > batch[2], offset # 0
      PROVE  /\ offset - 1 \in Nat /\ offset - 1 <= Len(updates)
             /\ 1 .. offset - 1 \subseteq handled
  <2>1. offset - 1 = batch[2] /\ batch[2] <= batch[1] - 1
    BY <1>0, <1>1 DEF PollOK
  <2>2. 1 .. batch[2] \subseteq 1 .. batch[1] - 1
    BY <1>1, <2>1
  <2> QED
    BY <1>1, <2>1, <2>2 DEF PollOK
<1>2. CASE PollKept
  BY <1>2 DEF PollKept, PollOK, ConfirmedMeansHandled
<1>3. ASSUME NEW p \in Packet, SendMessage(p)
      PROVE  PollOK' /\ ConfirmedMeansHandled'
  <2>1. Len(updates') = Len(updates) + 1
    BY <1>1, <1>3 DEF SendMessage
  <2>2. UNCHANGED <<confirmed, offset, batch, handled>>
    BY <1>3 DEF SendMessage, loop, record
  <2> QED
    BY <1>1, <2>1, <2>2 DEF PollOK, ConfirmedMeansHandled
<1>4. CASE Poll
  <2>1. /\ batch[1] > batch[2]
        /\ confirmed' = IF offset = 0 THEN confirmed ELSE offset - 1
        /\ batch' = <<confirmed' + 1, Len(updates)>>
        /\ offset' = IF confirmed' < Len(updates) THEN Len(updates) + 1 ELSE offset
        /\ UNCHANGED <<updates, handled>>
    BY <1>4 DEF Poll, record
  <2>2. /\ confirmed' \in Nat /\ confirmed' <= Len(updates)
        /\ 1 .. confirmed' \subseteq handled
    BY <1>1, <1>0, <2>1 DEF PollOK, ConfirmedMeansHandled
  <2>3. batch'[1] = confirmed' + 1 /\ batch'[2] = Len(updates)
    BY <2>1
  <2>4. offset' > 0 => offset' = Len(updates) + 1
    BY <1>1, <2>1, <2>2 DEF PollOK
  <2>5. 1 .. batch'[1] - 1 \subseteq handled
    BY ONLY <2>2, <2>3, UpTo
  <2> QED
    BY <1>1, <2>1, <2>2, <2>3, <2>4, <2>5 DEF PollOK, ConfirmedMeansHandled
<1>5. CASE PollFails
  <2>1. /\ batch[1] > batch[2]
        /\ confirmed' \in {confirmed, IF offset = 0 THEN confirmed ELSE offset - 1}
        /\ UNCHANGED <<updates, offset, batch, handled>>
    BY <1>5 DEF PollFails, loop, record
  <2>2. /\ confirmed' \in Nat /\ confirmed' <= Len(updates)
        /\ 1 .. confirmed' \subseteq handled
    BY <1>1, <1>0, <2>1 DEF PollOK, ConfirmedMeansHandled
  <2> QED
    BY <1>1, <2>1, <2>2 DEF PollOK, ConfirmedMeansHandled
<1>6. ASSUME NEW t \in Thread, Return(t)
      PROVE  PollOK' /\ ConfirmedMeansHandled'
  <2>1. UNCHANGED <<updates, confirmed, offset>>
    BY <1>6 DEF Return, telegram
  <2>2. CASE UNCHANGED <<handled, batch>>
    BY <2>1, <2>2, <1>2 DEF PollKept
  <2>3. CASE /\ handled' = handled \cup {batch[1]}
             /\ batch' = <<batch[1] + 1, batch[2]>>
    <3>1. batch'[1] = batch[1] + 1 /\ batch'[2] = batch[2]
      BY <2>3
    <3>2. 1 .. batch'[1] - 1 \subseteq handled'
      BY <1>1, <2>3, <3>1 DEF PollOK
    <3> QED
      BY <1>1, <2>1, <2>3, <3>1, <3>2 DEF PollOK, ConfirmedMeansHandled
  <2> QED
    BY <1>6, <2>2, <2>3 DEF Return
<1>7. CASE Restart \/ Crash
  <2>1. batch' = <<1, 0>> /\ offset' = 0 /\ UNCHANGED <<updates, confirmed, handled>>
    BY <1>7 DEF Restart, Crash, Restarted, NoBatch, telegram
  <2> QED
    BY <1>1, <2>1 DEF PollOK, ConfirmedMeansHandled
<1>8. ASSUME NEW t \in Thread, Handle(t) \/ ReportFails(t)
      PROVE  PollOK' /\ ConfirmedMeansHandled'
  BY <1>2, <1>6, <1>8, HandlerPolls
<1>9. CASE \/ \E p \in Packet : EnvelopeExpires(p) \/ CommandExpires(p)
           \/ \E p \in Packet, r \in Request : TakeRequest(r, p)
           \/ TakePacket \/ PollConflict
           \/ \E id \in FirebaseId : FirebaseCheck(id)
           \/ FirebaseAdmit \/ FirebaseDispatch \/ UNCHANGED vars
  <2>1. PollKept
    BY <1>9 DEF EnvelopeExpires, CommandExpires, TakeRequest, TakePacket, PollConflict,
      FirebaseCheck, FirebaseAdmit, FirebaseDispatch, PollKept, telegram, loop, record, vars
  <2> QED
    BY <1>2, <2>1
<1>10. CASE \E t \in Thread : Handle(t) \/ ReportFails(t)
  BY <1>8, <1>10
<1>11. CASE \E p \in Packet : SendMessage(p)
  BY <1>3, <1>11
<1> QED
  BY <1>4, <1>5, <1>7, <1>9, <1>10, <1>11, NextCases

-----------------------------------------------------------------------------
(* The guard and the posts                                                 *)

\* What a post changes: the path's posts and what reached a device.
LEMMA PostFacts ==
  ASSUME TypeOK, NEW path \in Paths, NEW id \in Id,
         Post(path, id) \/ UNCHANGED <<posted, reached>>
  PROVE  /\ posted' \in [Paths -> SUBSET Id] /\ reached' \subseteq Id
         /\ posted'[path] \subseteq posted[path] \cup {id}
         /\ \A q \in Paths : q # path => posted'[q] = posted[q]
         /\ reached \subseteq reached'
<1>1. posted \in [Paths -> SUBSET Id] /\ reached \subseteq Id
  BY DEF TypeOK
<1> QED
  BY <1>1 DEF Post

\* A packet in hand has an id.
LEMMA HandIds ==
  ASSUME HandOK
  PROVE  \A t \in Thread : Busy(t) => CmdId(t) \in Id
BY IngressAssumption DEF HandOK, Busy, CmdId

\* Only these steps change what the guard remembers or what the legacy path posted.
LEMMA HandlerGuards ==
  ASSUME NEW t \in Thread, Handle(t) \/ ReportFails(t),
         ~Admit(t), ~Dispatch(t), ~DispatchFails(t)
  PROVE  UNCHANGED <<seenIds, posted, reached>>
BY DEF Handle, Acquire, Open, Check, RefreshConfigs, Report, ReportFails, Return, memory, record

\* The Firebase worker and the restarts leave the legacy path's promises alone.
LEMMA LegacyStep == IngressInv /\ [Next]_vars => LegacyOK'
<1> SUFFICES ASSUME TypeOK, HandOK, HandlesAlone, LegacyOK, [Next]_vars PROVE LegacyOK'
  BY DEF IngressInv
<1>1. "legacy" \in Paths /\ "firebase" \in Paths
  BY DEF Paths
<1>2. \A t \in Thread : \A u \in Thread :
        Busy(t) /\ Busy(u) => t = u
  BY DEF HandlesAlone, Busy
<1>3. ASSUME posted'["legacy"] = posted["legacy"], seenIds \subseteq seenIds',
             \A u \in Thread :
               \/ thread'[u] = thread[u]
               \/ thread'[u].pc \notin {"admit", "validated", "run"}
      PROVE  LegacyOK'
  BY <1>3 DEF LegacyOK, InHand, CmdId
<1>4. ASSUME NEW t \in Thread, Check(t) PROVE LegacyOK'
  <2>1. PICK s \in {"rejected", "admit"} : Goto(t, s)
    BY <1>4 DEF Check
  <2>2. s \in Steps
    BY DEF Steps, Statuses
  <2>3. UNCHANGED <<posted, seenIds>>
    BY <1>4 DEF Check, memory
  <2>4. /\ thread'[t].pc = s
        /\ \A u \in Thread : u # t => thread'[u] = thread[u]
        /\ \A u \in Thread : InHand(u)' = InHand(u) /\ CmdId(u)' = CmdId(u)
    BY <2>1, <2>2, GotoFacts
  <2>5. s = "admit" => CmdId(t) \notin seenIds
    <3>1. Goto(t, IF Kind[InHand(t)] = "refused" \/ CmdId(t) \in seenIds
                  THEN "rejected" ELSE "admit")
      BY <1>4 DEF Check
    <3>2. CASE CmdId(t) \in seenIds
      <4>1. Goto(t, "rejected") /\ "rejected" \in Steps
        BY <3>1, <3>2 DEF Steps, Statuses
      <4>2. thread'[t].pc = "rejected"
        BY <4>1, GotoFacts
      <4> QED
        BY <2>4, <4>2
    <3> QED
      BY <3>2
  <2> QED
    BY <2>3, <2>4, <2>5 DEF LegacyOK
<1>5. ASSUME NEW t \in Thread, Admit(t) PROVE LegacyOK'
  <2>1. At(t, "admit") /\ UNCHANGED posted
    BY <1>5 DEF Admit
  <2>2. CASE Abort(t) /\ UNCHANGED seenIds
    <3>1. \A u \in Thread : thread'[u] = thread[u] \/ thread'[u].pc \in {"idle", "exiting"}
      BY <2>2, AbortFacts
    <3> QED
      BY <1>3, <2>1, <2>2, <3>1
  <2>3. CASE Goto(t, "rejected") /\ UNCHANGED seenIds
    <3>1. "rejected" \in Steps
      BY DEF Steps, Statuses
    <3>2. \A u \in Thread : thread'[u] = thread[u] \/ thread'[u].pc = "rejected"
      BY <2>3, <3>1, GotoFacts
    <3> QED
      BY <1>3, <2>1, <2>3, <3>2
  <2>4. CASE Goto(t, "validated") /\ seenIds' = seenIds \cup {CmdId(t)}
    <3>1. "validated" \in Steps
      BY DEF Steps, Statuses
    <3>2. /\ thread'[t].pc = "validated"
          /\ \A u \in Thread : u # t => thread'[u] = thread[u]
          /\ \A u \in Thread : InHand(u)' = InHand(u) /\ CmdId(u)' = CmdId(u)
      BY <2>4, <3>1, GotoFacts
    <3> QED
      BY <2>1, <2>4, <3>2 DEF LegacyOK, At
  <2> QED
    BY <1>5, <2>2, <2>3, <2>4 DEF Admit
<1>6. ASSUME NEW t \in Thread, Dispatch(t) \/ DispatchFails(t) PROVE LegacyOK'
  <2>1. /\ At(t, "run") /\ UNCHANGED seenIds
        /\ Post("legacy", CmdId(t)) \/ UNCHANGED <<posted, reached>>
    BY <1>6 DEF Dispatch, DispatchFails, memory
  <2>2. PICK s \in {"dispatched", "failed"} : Goto(t, s)
    BY <1>6 DEF Dispatch, DispatchFails
  <2>3. s \in Steps
    BY DEF Steps, Statuses
  <2>4. /\ thread'[t].pc = s
        /\ \A u \in Thread : u # t => thread'[u] = thread[u]
    BY <2>2, <2>3, GotoFacts
  <2>5. Busy(t)
    BY <2>1 DEF At, Busy
  <2>6. \A u \in Thread : thread'[u].pc \notin {"admit", "validated", "run"}
    BY <1>2, <2>4, <2>5 DEF Busy
  <2>7. CmdId(t) \in Id /\ CmdId(t) \in seenIds
    BY <2>1, <2>5, HandIds DEF LegacyOK, At
  <2>8. posted'["legacy"] \subseteq posted["legacy"] \cup {CmdId(t)}
    BY <1>1, <2>1, <2>7, PostFacts
  <2> QED
    BY <2>1, <2>6, <2>7, <2>8 DEF LegacyOK
<1>7. ASSUME NEW t \in Thread, Handle(t) \/ ReportFails(t),
             ~Check(t), ~Admit(t), ~Dispatch(t), ~DispatchFails(t)
      PROVE  LegacyOK'
  <2>1. UNCHANGED <<seenIds, posted>>
    BY <1>7, HandlerGuards
  <2>2. thread[t].pc \notin {"check", "admit"}
    BY <1>7 DEF Handle, Acquire, Open, RefreshConfigs, Report, ReportFails, Return, At, Statuses
  <2>3. /\ \A u \in Thread : u # t => thread'[u] = thread[u]
        /\ \/ Enters(t) /\ thread'[t].packet = thread[t].packet
           \/ GoesOn(t) /\ thread'[t].packet = thread[t].packet
           \/ Leaves(t)
    BY <1>7, HandlerMoves
  <2>4. CASE Enters(t) \/ Leaves(t)
    BY <1>3, <2>1, <2>3, <2>4 DEF Enters, Leaves
  <2>5. CASE GoesOn(t) /\ thread'[t].packet = thread[t].packet
    <3>1. thread'[t].pc \notin {"admit", "validated"} /\ (thread'[t].pc = "run" => thread[t].pc = "validated")
      BY <2>2, <2>5, FollowsBusy DEF GoesOn
    <3> QED
      BY <2>1, <2>3, <2>5, <3>1 DEF LegacyOK, InHand, CmdId
  <2> QED
    BY <2>3, <2>4, <2>5
<1>8. CASE Restart \/ Crash
  <2>1. posted'["legacy"] = {}
    BY <1>1, <1>8 DEF Restart, Crash, Restarted
  <2>2. \A t \in Thread : thread'[t].pc = "idle"
    BY <1>8, RestartedFacts, Records DEF Restart, Crash
  <2> QED
    BY <2>1, <2>2 DEF LegacyOK
<1>9. CASE FirebaseDispatch
  <2>1. UNCHANGED <<thread, seenIds>> /\ firebase.pc = "post"
    BY <1>9 DEF FirebaseDispatch, memory
  <2>2. posted'["legacy"] = posted["legacy"]
    BY <1>1, <1>9 DEF FirebaseDispatch, Post, TypeOK
  <2> QED
    BY <1>3, <2>1, <2>2
<1>10. CASE FirebaseAdmit
  <2>1. UNCHANGED <<thread, posted>> /\ seenIds \subseteq seenIds'
    BY <1>10 DEF FirebaseAdmit
  <2> QED
    BY <1>3, <2>1
<1>11. ASSUME NEW t \in Thread, NEW r \in Threads, UNCHANGED <<seenIds, posted>>,
              thread' = [thread EXCEPT ![t] = r], r.pc \in {"wait", "exiting"}
       PROVE  LegacyOK'
  <2>1. \A u \in Thread : thread'[u] = thread[u] \/ thread'[u].pc \in {"wait", "exiting"}
    BY <1>11, PutFacts
  <2> QED
    BY <1>3, <1>11, <2>1
<1>12. CASE TakePacket
  <2>1. \A u \in Thread : thread'[u] = thread[u] \/ thread'[u].pc = "wait"
    BY <1>12, Records DEF TakePacket, TypeOK
  <2>2. UNCHANGED <<seenIds, posted>>
    BY <1>12 DEF TakePacket, memory
  <2> QED
    BY <1>3, <2>1, <2>2
<1>13. CASE PollFails
  BY <1>11, <1>13, Records DEF PollFails, Exit, memory
<1>14. CASE \E p \in Packet, r \in Request : TakeRequest(r, p)
  BY <1>11, <1>14, Records DEF TakeRequest, memory
<1>15. CASE \/ \E p \in Packet : SendMessage(p) \/ EnvelopeExpires(p) \/ CommandExpires(p)
            \/ Poll \/ PollConflict
            \/ \E id \in FirebaseId : FirebaseCheck(id)
            \/ UNCHANGED vars
  <2>1. UNCHANGED <<thread, seenIds, posted>>
    BY <1>15 DEF SendMessage, EnvelopeExpires, CommandExpires, Poll, PollConflict, FirebaseCheck,
      memory, vars
  <2> QED
    BY <1>3, <2>1
<1>16. CASE \E t \in Thread : Handle(t) \/ ReportFails(t)
  BY <1>4, <1>5, <1>6, <1>7, <1>16
<1> QED
  BY <1>8, <1>9, <1>10, <1>12, <1>13, <1>14, <1>15, <1>16, NextCases

\* The Firebase worker posts an id once, also when the legacy path lets it through
\* in between.
LEMMA FirebaseStep == IngressInv /\ [Next]_vars => FirebaseOK'
<1> SUFFICES ASSUME TypeOK, HandOK, FirebaseOK, [Next]_vars PROVE FirebaseOK'
  BY DEF IngressInv
<1>1. "legacy" \in Paths /\ "firebase" \in Paths
  BY DEF Paths
<1>2. ASSUME posted'["firebase"] = posted["firebase"], seenIds \subseteq seenIds', UNCHANGED firebase
      PROVE  FirebaseOK'
  BY <1>2 DEF FirebaseOK
<1>3. ASSUME NEW id \in FirebaseId, FirebaseCheck(id) PROVE FirebaseOK'
  BY <1>3, IngressAssumption DEF FirebaseCheck, FirebaseOK, memory
<1>4. CASE FirebaseAdmit
  BY <1>4 DEF FirebaseAdmit, FirebaseOK, Rest, TypeOK
<1>5. CASE FirebaseDispatch
  <2>1. /\ firebase.pc = "post" /\ firebase' = Rest /\ UNCHANGED seenIds
        /\ Post("firebase", firebase.id) \/ UNCHANGED <<posted, reached>>
    BY <1>5 DEF FirebaseDispatch, memory
  <2>2. posted'["firebase"] \subseteq posted["firebase"] \cup {firebase.id}
    BY <1>1, <2>1, PostFacts DEF FirebaseOK
  <2> QED
    BY <2>1, <2>2 DEF FirebaseOK, Rest
<1>6. CASE Restart \/ Crash
  BY <1>1, <1>6 DEF Restart, Crash, Restarted, FirebaseOK, Rest
<1>7. ASSUME NEW t \in Thread, Handle(t) \/ ReportFails(t) PROVE FirebaseOK'
  <2>1. UNCHANGED firebase
    BY <1>7 DEF Handle, Acquire, Open, Check, Admit, Dispatch, DispatchFails, RefreshConfigs,
      Report, ReportFails, Return
  <2>2. CASE Admit(t)
    BY <1>2, <2>1, <2>2 DEF Admit
  <2>3. CASE Dispatch(t) \/ DispatchFails(t)
    <3>1. /\ UNCHANGED seenIds
          /\ Post("legacy", CmdId(t)) \/ UNCHANGED <<posted, reached>>
      BY <2>3 DEF Dispatch, DispatchFails, memory
    <3>2. posted'["firebase"] = posted["firebase"]
      BY <1>1, <3>1 DEF Post, TypeOK
    <3> QED
      BY <1>2, <2>1, <3>1, <3>2
  <2> QED
    BY <1>2, <1>7, <2>1, <2>2, <2>3, HandlerGuards
<1>8. CASE \/ \E p \in Packet : SendMessage(p) \/ EnvelopeExpires(p) \/ CommandExpires(p)
           \/ \E p \in Packet, r \in Request : TakeRequest(r, p)
           \/ Poll \/ TakePacket \/ PollConflict \/ PollFails
           \/ UNCHANGED vars
  <2>1. UNCHANGED <<firebase, seenIds, posted>>
    BY <1>8 DEF SendMessage, EnvelopeExpires, CommandExpires, Poll, PollConflict, PollFails,
      TakePacket, TakeRequest, memory, vars
  <2> QED
    BY <1>2, <2>1
<1>9. CASE \E t \in Thread : Handle(t) \/ ReportFails(t)
  BY <1>7, <1>9
<1>10. CASE \E id \in FirebaseId : FirebaseCheck(id)
  BY <1>3, <1>10
<1> QED
  BY <1>4, <1>5, <1>6, <1>8, <1>9, <1>10, NextCases

-----------------------------------------------------------------------------
(* The reports                                                             *)

\* What reached a device stays so.
LEMMA ReachedGrows == IngressInv /\ [Next]_vars => reached \subseteq reached'
<1> SUFFICES ASSUME [Next]_vars PROVE reached \subseteq reached'
  OBVIOUS
<1>1. ASSUME NEW t \in Thread, Handle(t) \/ ReportFails(t) PROVE reached \subseteq reached'
  <2>1. CASE Admit(t) \/ Dispatch(t) \/ DispatchFails(t)
    BY <2>1 DEF Admit, Dispatch, DispatchFails, Post
  <2> QED
    BY <1>1, <2>1, HandlerGuards
<1>2. CASE FirebaseDispatch \/ Restart \/ Crash
  BY <1>2 DEF FirebaseDispatch, Post, Restart, Crash, Restarted
<1>3. CASE \/ \E p \in Packet : SendMessage(p) \/ EnvelopeExpires(p) \/ CommandExpires(p)
           \/ \E p \in Packet, r \in Request : TakeRequest(r, p)
           \/ Poll \/ TakePacket \/ PollConflict \/ PollFails
           \/ \E id \in FirebaseId : FirebaseCheck(id)
           \/ FirebaseAdmit \/ UNCHANGED vars
  BY <1>3 DEF SendMessage, EnvelopeExpires, CommandExpires, Poll, PollConflict, PollFails,
    TakePacket, TakeRequest, FirebaseCheck, FirebaseAdmit, record, vars
<1>4. CASE \E t \in Thread : Handle(t) \/ ReportFails(t)
  BY <1>1, <1>4
<1> QED
  BY <1>2, <1>3, <1>4, NextCases

\* A status about a command is due only after the post.
LEMMA ReportStep == IngressInv /\ [Next]_vars => ReportOK'
<1> SUFFICES ASSUME IngressInv, TypeOK, HandOK, HandlesAlone, ReportOK, [Next]_vars
             PROVE  ReportOK'
  BY DEF IngressInv
<1>1. reached \subseteq reached'
  BY ReachedGrows
<1>2. ASSUME \A u \in Thread :
               \/ thread'[u] = thread[u]
               \/ thread'[u].pc \notin {"dispatched", "executing", "executed"}
      PROVE  ReportOK'
  BY <1>1, <1>2 DEF ReportOK, InHand, CmdId
<1>3. ASSUME NEW t \in Thread, Dispatch(t) PROVE ReportOK'
  <2>1. CmdId(t) \in reached' /\ Goto(t, "dispatched") /\ "dispatched" \in Steps
    BY <1>3 DEF Dispatch, Post, Steps, Statuses
  <2>2. /\ \A u \in Thread : u # t => thread'[u] = thread[u]
        /\ \A u \in Thread : InHand(u)' = InHand(u) /\ CmdId(u)' = CmdId(u)
    BY <2>1, GotoFacts
  <2> QED
    BY <1>1, <2>1, <2>2 DEF ReportOK
<1>4. ASSUME NEW t \in Thread, RefreshConfigs(t) PROVE ReportOK'
  <2>1. Kind[InHand(t)] # "command"
    BY <1>4 DEF RefreshConfigs
  <2>2. PICK s \in {"executed", "failed"} : Goto(t, s)
    BY <1>4 DEF RefreshConfigs
  <2>3. s \in Steps
    BY DEF Steps, Statuses
  <2>4. /\ \A u \in Thread : u # t => thread'[u] = thread[u]
        /\ \A u \in Thread : InHand(u)' = InHand(u) /\ CmdId(u)' = CmdId(u)
    BY <2>2, <2>3, GotoFacts
  <2> QED
    BY <1>1, <2>1, <2>4 DEF ReportOK
<1>5. ASSUME NEW t \in Thread, DispatchFails(t) PROVE ReportOK'
  <2>1. Goto(t, "failed") /\ "failed" \in Steps
    BY <1>5 DEF DispatchFails, Steps, Statuses
  <2>2. /\ thread'[t].pc = "failed"
        /\ \A u \in Thread : u # t => thread'[u] = thread[u]
    BY <2>1, GotoFacts
  <2> QED
    BY <1>2, <2>2
<1>6. ASSUME NEW t \in Thread, Handle(t) \/ ReportFails(t),
             ~Dispatch(t), ~DispatchFails(t), ~RefreshConfigs(t)
      PROVE  ReportOK'
  <2>1. thread[t].pc # "run"
    BY <1>6 DEF Handle, Acquire, Open, Check, Admit, Report, ReportFails, Return, At, Statuses
  <2>2. /\ \A u \in Thread : u # t => thread'[u] = thread[u]
        /\ \/ Enters(t) /\ thread'[t].packet = thread[t].packet
           \/ GoesOn(t) /\ thread'[t].packet = thread[t].packet
           \/ Leaves(t)
    BY <1>6, HandlerMoves
  <2>3. CASE Enters(t) \/ Leaves(t)
    BY <1>2, <2>2, <2>3 DEF Enters, Leaves
  <2>4. CASE GoesOn(t) /\ thread'[t].packet = thread[t].packet
    <3>1. thread'[t].pc \in {"dispatched", "executing", "executed"}
            => thread[t].pc \in {"dispatched", "executing", "executed"}
      BY <2>1, <2>4, FollowsBusy DEF GoesOn
    <3> QED
      BY <1>1, <2>2, <2>4, <3>1 DEF ReportOK, InHand, CmdId
  <2> QED
    BY <2>2, <2>3, <2>4
<1>7. CASE Restart \/ Crash
  <2>1. \A t \in Thread : thread'[t].pc = "idle"
    BY <1>7, RestartedFacts, Records DEF Restart, Crash
  <2> QED
    BY <1>2, <2>1
<1>8. ASSUME NEW t \in Thread, NEW r \in Threads, thread' = [thread EXCEPT ![t] = r],
             r.pc \in {"wait", "exiting"}
      PROVE  ReportOK'
  <2>1. \A u \in Thread : thread'[u] = thread[u] \/ thread'[u].pc \in {"wait", "exiting"}
    BY <1>8, PutFacts
  <2> QED
    BY <1>2, <2>1
<1>9. CASE TakePacket
  <2>1. \A u \in Thread : thread'[u] = thread[u] \/ thread'[u].pc = "wait"
    BY <1>9, Records DEF TakePacket, TypeOK
  <2> QED
    BY <1>2, <2>1
<1>10. CASE PollFails
  BY <1>8, <1>10, Records DEF PollFails, Exit
<1>11. CASE \E p \in Packet, r \in Request : TakeRequest(r, p)
  BY <1>8, <1>11, Records DEF TakeRequest
<1>12. CASE \/ \E p \in Packet : SendMessage(p) \/ EnvelopeExpires(p) \/ CommandExpires(p)
            \/ Poll \/ PollConflict
            \/ \E id \in FirebaseId : FirebaseCheck(id)
            \/ FirebaseAdmit \/ FirebaseDispatch \/ UNCHANGED vars
  <2>1. UNCHANGED thread
    BY <1>12 DEF SendMessage, EnvelopeExpires, CommandExpires, Poll, PollConflict, FirebaseCheck,
      FirebaseAdmit, FirebaseDispatch, vars
  <2> QED
    BY <1>2, <2>1
<1>13. CASE \E t \in Thread : Handle(t) \/ ReportFails(t)
  BY <1>3, <1>4, <1>5, <1>6, <1>13
<1> QED
  BY <1>7, <1>9, <1>10, <1>11, <1>12, <1>13, NextCases

\* Only a report changes what the app was told.
LEMMA AcceptedChanges ==
  ASSUME [Next]_vars
  PROVE  \/ UNCHANGED accepted
         \/ \E t \in Thread :
              /\ thread[t].pc \in {"dispatched", "executing", "executed"}
              /\ accepted' = accepted \cup {InHand(t)}
<1>1. ASSUME NEW t \in Thread, Handle(t) \/ ReportFails(t), ~Report(t), ~ReportFails(t)
      PROVE  UNCHANGED accepted
  BY <1>1 DEF Handle, Acquire, Open, Check, Admit, Dispatch, DispatchFails, RefreshConfigs, Return,
    record
<1>2. ASSUME NEW t \in Thread, Report(t) \/ ReportFails(t), ~UNCHANGED accepted
      PROVE  /\ thread[t].pc \in {"dispatched", "executing", "executed"}
             /\ accepted' = accepted \cup {InHand(t)}
  BY <1>2 DEF Report, ReportFails, Told
<1>3. CASE \/ \E p \in Packet : SendMessage(p) \/ EnvelopeExpires(p) \/ CommandExpires(p)
           \/ \E p \in Packet, r \in Request : TakeRequest(r, p)
           \/ Poll \/ TakePacket \/ PollConflict \/ PollFails
           \/ \E id \in FirebaseId : FirebaseCheck(id)
           \/ FirebaseAdmit \/ FirebaseDispatch \/ Restart \/ Crash \/ UNCHANGED vars
  BY <1>3 DEF SendMessage, EnvelopeExpires, CommandExpires, Poll, PollConflict, PollFails,
    TakePacket, TakeRequest, FirebaseCheck, FirebaseAdmit, FirebaseDispatch, Restart, Crash,
    Restarted, record, vars
<1> QED
  BY <1>1, <1>2, <1>3, NextCases

\* The app is told of nothing that no device took.
LEMMA AcceptedStep == IngressInv /\ [Next]_vars => AcceptedMeansPosted'
<1> SUFFICES ASSUME IngressInv, AcceptedMeansPosted, ReportOK, [Next]_vars
             PROVE  AcceptedMeansPosted'
  BY DEF IngressInv
<1>1. reached \subseteq reached'
  BY ReachedGrows
<1>2. CASE UNCHANGED accepted
  BY <1>1, <1>2 DEF AcceptedMeansPosted
<1>3. ASSUME NEW t \in Thread, thread[t].pc \in {"dispatched", "executing", "executed"},
             accepted' = accepted \cup {InHand(t)}
      PROVE  AcceptedMeansPosted'
  BY <1>1, <1>3 DEF AcceptedMeansPosted, ReportOK, CmdId
<1> QED
  BY <1>2, <1>3, AcceptedChanges

-----------------------------------------------------------------------------
(* Types                                                                   *)

\* The steps of the handler keep the types.
LEMMA HandlerTypes ==
  ASSUME IngressInv, NEW t \in Thread, Handle(t) \/ ReportFails(t),
         thread' \in [Thread -> Threads]
  PROVE  TypeOK'
<1>1. TypeOK /\ HandOK
  BY DEF IngressInv
<1>2. "legacy" \in Paths
  BY DEF Paths
<1>3. Busy(t) => InHand(t) \in Packet /\ CmdId(t) \in Id
  BY <1>1, HandIds DEF HandOK, Busy
<1>4. lock' \in Thread \cup {NoThread}
  BY <1>1, HandlerMoves DEF TypeOK, Enters, GoesOn, Leaves
<1>5. CASE Open(t)
  <2>1. seenSeqs' \subseteq EnvelopeSeq
    <3>1. InHand(t) \in Packet
      BY <1>3, <1>5 DEF Open, At, Busy
    <3>2. SeqOf[InHand(t)] \in EnvelopeSeq \cup {NoSeq}
      BY <3>1, IngressAssumption
    <3> QED
      BY <1>1, <1>5, <3>2 DEF Open, TypeOK
  <2> QED
    BY <1>1, <1>4, <1>5, <2>1 DEF Open, TypeOK, Threads, telegram, loop, clock, record, bounds
<1>6. CASE Admit(t)
  <2>1. CmdId(t) \in Id /\ answer' \in [Request -> Answers]
    <3>1. CmdId(t) \in Id
      BY <1>3, <1>6 DEF Admit, At, Busy
    <3>2. Abort(t) \/ UNCHANGED answer
      BY <1>6 DEF Admit
    <3> QED
      BY <1>1, <3>1, <3>2, AbortFacts DEF TypeOK
  <2>2. seenIds' \subseteq Id
    BY <1>1, <1>6, <2>1 DEF Admit, TypeOK
  <2> QED
    BY <1>1, <1>4, <1>6, <2>1, <2>2 DEF Admit, TypeOK, Threads, telegram, loop, clock, bounds
<1>7. CASE Dispatch(t) \/ DispatchFails(t)
  <2>1. CmdId(t) \in Id
    BY <1>3, <1>7 DEF Dispatch, DispatchFails, At, Busy
  <2>2. posted' \in [Paths -> SUBSET Id] /\ reached' \subseteq Id
    BY <1>1, <1>2, <1>7, <2>1, PostFacts DEF Dispatch, DispatchFails
  <2> QED
    BY <1>1, <1>4, <1>7, <2>2 DEF Dispatch, DispatchFails, TypeOK, Threads, telegram, loop, memory,
      clock, bounds
<1>8. CASE Report(t) \/ ReportFails(t)
  <2>1. InHand(t) \in Packet
    BY <1>3, <1>8 DEF Report, ReportFails, Statuses, Busy
  <2>2. accepted' \subseteq Packet
    BY <1>1, <1>8, <2>1 DEF Report, ReportFails, Told, TypeOK
  <2>3. answer' \in [Request -> Answers]
    BY <1>1, <1>8, AbortFacts DEF Report, ReportFails, TypeOK
  <2>4. faults' \in Nat
    BY <1>1, <1>8 DEF Report, ReportFails, TypeOK, bounds
  <2> QED
    BY <1>1, <1>4, <1>8, <2>2, <2>3, <2>4 DEF Report, ReportFails, TypeOK, Threads, telegram, loop,
      memory, clock, bounds
<1>9. CASE Return(t)
  <2>1. answer' \in [Request -> Answers]
    BY <1>1, <1>9 DEF Return, Result, TypeOK, Answers
  <2>2. batch[1] \in Nat /\ batch[2] \in Nat
    BY <1>1 DEF TypeOK
  <2>3. handled' \subseteq Nat /\ batch' \in Nat \X Nat
    <3>1. handled \subseteq Nat /\ batch \in Nat \X Nat
      BY <1>1 DEF TypeOK
    <3>2. CASE UNCHANGED <<handled, batch>>
      BY <3>1, <3>2
    <3>3. CASE handled' = handled \cup {batch[1]} /\ batch' = <<batch[1] + 1, batch[2]>>
      <4>1. batch[1] + 1 \in Nat
        BY <2>2
      <4> QED
        BY <2>2, <3>1, <3>3, <4>1
    <3> QED
      BY <1>9, <3>2, <3>3 DEF Return
  <2> QED
    BY <1>1, <1>4, <1>9, <2>1, <2>3 DEF Return, TypeOK, Threads, telegram, memory, clock, bounds
<1>10. CASE Acquire(t) \/ Check(t) \/ RefreshConfigs(t)
  BY <1>1, <1>4, <1>10 DEF Acquire, Check, RefreshConfigs, TypeOK, Threads, telegram, loop, memory,
    clock, record, bounds
<1> QED
  BY <1>5, <1>6, <1>7, <1>8, <1>9, <1>10 DEF Handle

\* So do the others.
LEMMA TypeStep == IngressInv /\ [Next]_vars => TypeOK'
<1> SUFFICES ASSUME IngressInv, TypeOK, PollOK, FirebaseOK, [Next]_vars PROVE TypeOK'
  BY DEF IngressInv
<1>1. thread' \in [Thread -> Threads]
  BY LockStep
<1>2. /\ updates \in Seq(Packet) /\ Len(updates) \in Nat /\ confirmed \in Nat /\ offset \in Nat
      /\ batch \in Nat \X Nat /\ faults \in Nat /\ crashes \in Nat
  BY DEF TypeOK
<1>3. offset # 0 => offset - 1 \in Nat
  BY <1>2
<1>4. CASE \E t \in Thread : Handle(t) \/ ReportFails(t)
  BY <1>1, <1>4, HandlerTypes
<1>5. CASE \E p \in Packet : SendMessage(p) \/ EnvelopeExpires(p) \/ CommandExpires(p)
  <2>1. updates' \in Seq(Packet)
    BY <1>2, <1>5 DEF SendMessage, EnvelopeExpires, CommandExpires, telegram
  <2>2. envelopeDue' \subseteq Packet /\ commandDue' \subseteq Packet
    BY <1>5 DEF SendMessage, EnvelopeExpires, CommandExpires, TypeOK, clock
  <2>3. UNCHANGED <<confirmed, loop, lock, firebase, memory, posted, record, bounds>>
    BY <1>5 DEF SendMessage, EnvelopeExpires, CommandExpires, telegram
  <2> QED
    BY <1>1, <2>1, <2>2, <2>3 DEF TypeOK, Threads, loop, memory, record, bounds
<1>6. CASE Poll \/ PollFails \/ PollConflict
  <2>1. confirmed' \in Nat
    BY <1>2, <1>3, <1>6 DEF Poll, PollFails, PollConflict, telegram
  <2>2. batch' \in Nat \X Nat /\ offset' \in Nat /\ faults' \in Nat
    BY <1>2, <1>6, <2>1 DEF Poll, PollFails, PollConflict, loop, bounds
  <2> QED
    BY <1>1, <1>6, <2>1, <2>2 DEF Poll, PollFails, PollConflict, TypeOK, Threads, telegram, loop,
      memory, clock, record, bounds
<1>7. CASE \/ \E p \in Packet, r \in Request : TakeRequest(r, p)
           \/ TakePacket \/ UNCHANGED vars
  BY <1>1, <1>7 DEF TakeRequest, TakePacket, TypeOK, Threads, telegram, loop, memory, clock, record,
    bounds, vars
<1>8. CASE \/ \E id \in FirebaseId : FirebaseCheck(id)
           \/ FirebaseAdmit
  <2>1. FirebaseId \subseteq Id
    BY IngressAssumption
  <2>2. firebase' \in [pc : {"idle", "admit", "post"}, id : Id \cup {NoId}]
    BY <1>8, <2>1 DEF FirebaseCheck, FirebaseAdmit, Rest, TypeOK
  <2>3. seenIds' \subseteq Id
    BY <1>8 DEF FirebaseCheck, FirebaseAdmit, FirebaseOK, TypeOK, memory
  <2> QED
    BY <1>1, <1>8, <2>2, <2>3 DEF FirebaseCheck, FirebaseAdmit, TypeOK, Threads, telegram, loop,
      memory, clock, record, bounds
<1>9. CASE FirebaseDispatch
  <2>1. "firebase" \in Paths /\ firebase.id \in Id
    BY <1>9 DEF FirebaseDispatch, FirebaseOK, Paths
  <2>2. posted' \in [Paths -> SUBSET Id] /\ reached' \subseteq Id
    BY <1>9, <2>1, PostFacts DEF FirebaseDispatch
  <2>3. firebase' \in [pc : {"idle", "admit", "post"}, id : Id \cup {NoId}]
    BY <1>9 DEF FirebaseDispatch, Rest
  <2> QED
    BY <1>1, <1>9, <2>2, <2>3 DEF FirebaseDispatch, TypeOK, Threads, telegram, loop, memory, clock,
      bounds
<1>10. CASE Restart \/ Crash
  <2>1. answer' \in [Request -> Answers]
    BY <1>10 DEF Restart, Crash, Restarted, TypeOK, Answers
  <2>2. batch' \in Nat \X Nat /\ posted' \in [Paths -> SUBSET Id]
    BY <1>10 DEF Restart, Crash, Restarted, NoBatch
  <2>3. firebase' \in [pc : {"idle", "admit", "post"}, id : Id \cup {NoId}]
    BY <1>10 DEF Restart, Crash, Restarted, Rest
  <2>4. faults' \in Nat /\ crashes' \in Nat
    BY <1>2, <1>10 DEF Restart, Crash, bounds
  <2>5. /\ UNCHANGED <<telegram, clock, handled, reached, accepted>>
        /\ polling' = TRUE /\ offset' = 0 /\ lock' = NoThread /\ seenSeqs' = {} /\ seenIds' = {}
    BY <1>10 DEF Restart, Crash, Restarted
  <2> QED
    BY <1>1, <2>1, <2>2, <2>3, <2>4, <2>5 DEF TypeOK, Threads, telegram, clock
<1> QED
  BY <1>4, <1>5, <1>6, <1>7, <1>8, <1>9, <1>10, NextCases

-----------------------------------------------------------------------------
(* The theorems                                                            *)

LEMMA IngressInit == Init => IngressInv
<1> SUFFICES ASSUME Init PROVE IngressInv
  OBVIOUS
<1>1. \A t \in Thread : thread[t] = Idle
  BY DEF Init
<1>2. TypeOK
  <2>1. thread \in [Thread -> Threads]
    BY Records DEF Init
  <2>2. answer \in [Request -> Answers] /\ posted \in [Paths -> SUBSET Id]
    BY DEF Init, Answers
  <2> QED
    BY <2>1, <2>2 DEF Init, TypeOK, Threads, NoBatch, Rest
<1>3. HandOK /\ HandlesAlone /\ ReportOK
  BY <1>1, Records DEF HandOK, HandlesAlone, ReportOK
<1>4. PollOK /\ ConfirmedMeansHandled
  BY DEF Init, PollOK, ConfirmedMeansHandled, NoBatch
<1>5. LegacyOK /\ FirebaseOK
  BY <1>1, Records DEF Init, LegacyOK, FirebaseOK, Paths, Rest
<1> QED
  BY <1>2, <1>3, <1>4, <1>5 DEF Init, IngressInv, AcceptedMeansPosted

\* The inductive invariant holds in every reachable state of the ingress.
THEOREM IngressInvariant == Spec => []IngressInv
<1>1. IngressInv /\ [Next]_vars => IngressInv'
  BY TypeStep, LockStep, PollStep, LegacyStep, FirebaseStep, ReportStep, AcceptedStep DEF IngressInv
<1> QED
  BY <1>1, IngressInit, PTL DEF Spec

\* Every variable of the ingress keeps its type.
THEOREM IngressTypes == Spec => []TypeOK
<1>1. IngressInv => TypeOK
  BY DEF IngressInv
<1> QED
  BY <1>1, IngressInvariant, PTL

\* However many requests arrive beside the main loop, one thread at a time is
\* between the opening of a packet and its result: _runtime_lock.
THEOREM Alone == Spec => []HandlesAlone
<1>1. IngressInv => HandlesAlone
  BY DEF IngressInv
<1> QED
  BY <1>1, IngressInvariant, PTL

\* For any chat, any failures and any crashes, Telegram forgets only messages that
\* were handled to the end.
THEOREM NothingConfirmedUnhandled == Spec => []ConfirmedMeansHandled
<1>1. IngressInv => ConfirmedMeansHandled
  BY DEF IngressInv
<1> QED
  BY <1>1, IngressInvariant, PTL

\* Between two starts no id is posted twice by the legacy path, over Telegram and
\* HTTP together, nor twice by the Firebase worker, though the worker asks the guard
\* without the lock.
THEOREM PostedOncePerPath == Spec => []OncePerPath
<1>1. IngressInv => OncePerPath
  BY DEF IngressInv, LegacyOK, FirebaseOK, OncePerPath, At
<1> QED
  BY <1>1, IngressInvariant, PTL

\* Whatever reports fail and whenever the process dies, a command that the app was
\* told is dispatched, executing or executed has reached a device.
THEOREM ToldOnlyAfterPost == Spec => []AcceptedMeansPosted
<1>1. IngressInv => AcceptedMeansPosted
  BY DEF IngressInv
<1> QED
  BY <1>1, IngressInvariant, PTL

-----------------------------------------------------------------------------
(* The contract                                                            *)

\* What the contract needs beside IngressInv: polling never goes back, the main loop works
\* at a packet of its batch, a handler that succeeds told the app of its packet, and a request
\* has a packet from when it asks to when it is answered.
ForgetOK == offset > 0 => confirmed < offset

BatchOK == thread[Main].pc \notin {"idle", "exiting"} => batch[1] <= batch[2]

SuccessOK == \A t \in Thread : thread[t].pc = "succeed" => InHand(t) \in accepted

AnswerOK ==
  \A r \in Request :
    /\ thread[r].pc # "exiting"
    /\ thread[r].pc = "idle" => InHand(r) = NoPacket
    /\ thread[r].pc # "idle" => answer[r] = "none"

ContractInv ==
  /\ IngressInv
  /\ ForgetOK
  /\ BatchOK
  /\ SuccessOK
  /\ AnswerOK

\* A call for updates confirms what was received, which is not less than before.
LEMMA ForgetStep == ContractInv /\ [Next]_vars => ForgetOK'
<1> SUFFICES ASSUME TypeOK, ForgetOK, [Next]_vars PROVE ForgetOK'
  BY DEF ContractInv, IngressInv
<1>1. confirmed \in Nat /\ offset \in Nat /\ Len(updates) \in Nat
  BY DEF TypeOK
<1>2. CASE UNCHANGED <<confirmed, offset>>
  BY <1>2 DEF ForgetOK
<1>3. CASE Poll
  <2>1. /\ confirmed' = IF offset = 0 THEN confirmed ELSE offset - 1
        /\ offset' = IF confirmed' < Len(updates) THEN Len(updates) + 1 ELSE offset
    BY <1>3 DEF Poll
  <2> QED
    BY <1>1, <2>1 DEF ForgetOK
<1>4. CASE PollFails
  <2>1. UNCHANGED offset /\ confirmed' \in {confirmed, IF offset = 0 THEN confirmed ELSE offset - 1}
    BY <1>4 DEF PollFails, loop
  <2> QED
    BY <1>1, <2>1 DEF ForgetOK
<1>5. CASE Restart \/ Crash
  BY <1>5 DEF Restart, Crash, Restarted, ForgetOK
<1>6. ASSUME NEW t \in Thread, Handle(t) \/ ReportFails(t) PROVE UNCHANGED <<confirmed, offset>>
  BY <1>6, HandlerPolls DEF PollKept, Return, telegram
<1>7. CASE \/ \E p \in Packet : SendMessage(p) \/ EnvelopeExpires(p) \/ CommandExpires(p)
           \/ \E p \in Packet, r \in Request : TakeRequest(r, p)
           \/ TakePacket \/ PollConflict
           \/ \E id \in FirebaseId : FirebaseCheck(id)
           \/ FirebaseAdmit \/ FirebaseDispatch \/ UNCHANGED vars
  BY <1>2, <1>7 DEF SendMessage, EnvelopeExpires, CommandExpires, TakeRequest, TakePacket,
    PollConflict, FirebaseCheck, FirebaseAdmit, FirebaseDispatch, telegram, loop, vars
<1> QED
  BY <1>2, <1>3, <1>4, <1>5, <1>6, <1>7, NextCases

\* The main loop does not poll while it handles a packet.
LEMMA BatchStep == ContractInv /\ [Next]_vars => BatchOK'
<1> SUFFICES ASSUME TypeOK, BatchOK, [Next]_vars PROVE BatchOK'
  BY DEF ContractInv, IngressInv
<1>1. Main \in Thread /\ Main \notin Request
  BY Records, IngressAssumption
<1>2. CASE UNCHANGED batch /\ thread'[Main] = thread[Main]
  BY <1>2 DEF BatchOK
<1>3. CASE Poll
  BY <1>3 DEF Poll, At, BatchOK
<1>4. CASE PollFails
  <2>1. thread'[Main].pc = "exiting"
    BY <1>1, <1>4 DEF PollFails, Exit, TypeOK
  <2> QED
    BY <2>1 DEF BatchOK
<1>5. CASE TakePacket
  BY <1>5 DEF TakePacket, loop, BatchOK
<1>6. CASE Restart \/ Crash
  <2>1. thread'[Main].pc = "idle"
    BY <1>1, <1>6, RestartedFacts DEF Restart, Crash, Idle
  <2> QED
    BY <2>1 DEF BatchOK
<1>7. ASSUME NEW t \in Thread, Handle(t) \/ ReportFails(t) PROVE BatchOK'
  <2>1. /\ \A u \in Thread : u # t => thread'[u] = thread[u]
        /\ Enters(t) \/ GoesOn(t) \/ Leaves(t)
    BY <1>7, HandlerMoves
  <2>2. CASE t = Main /\ ~Return(t)
    <3>1. UNCHANGED batch
      BY <1>7, <2>2, HandlerPolls DEF PollKept
    <3>2. thread[Main].pc \notin {"idle", "exiting"}
      BY <2>1, <2>2, FollowsBusy DEF Enters, GoesOn, Leaves, Busy
    <3> QED
      BY <3>1, <3>2 DEF BatchOK
  <2>3. CASE t = Main /\ Return(t)
    <3>1. thread'[Main].pc = "idle"
      BY <1>1, <2>3 DEF Return, TypeOK, Idle
    <3> QED
      BY <3>1 DEF BatchOK
  <2>4. CASE t # Main
    <3>1. UNCHANGED batch
      BY <1>7, <2>4, HandlerPolls DEF PollKept, Return
    <3> QED
      BY <1>1, <1>2, <2>1, <2>4, <3>1
  <2> QED
    BY <2>2, <2>3, <2>4
<1>8. CASE \E p \in Packet, r \in Request : TakeRequest(r, p)
  <2>1. UNCHANGED batch /\ thread'[Main] = thread[Main]
    BY <1>1, <1>8 DEF TakeRequest, loop, TypeOK
  <2> QED
    BY <1>2, <2>1
<1>9. CASE \/ \E p \in Packet : SendMessage(p) \/ EnvelopeExpires(p) \/ CommandExpires(p)
           \/ PollConflict
           \/ \E id \in FirebaseId : FirebaseCheck(id)
           \/ FirebaseAdmit \/ FirebaseDispatch \/ UNCHANGED vars
  BY <1>2, <1>9 DEF SendMessage, EnvelopeExpires, CommandExpires, PollConflict, FirebaseCheck,
    FirebaseAdmit, FirebaseDispatch, loop, vars
<1> QED
  BY <1>3, <1>4, <1>5, <1>6, <1>7, <1>8, <1>9, NextCases

\* A handler succeeds after a report that said so.
LEMMA FollowsSuccess ==
  \A a : <<a, "succeed">> \in Follows => a = "executed"
BY DEF Follows, Statuses, After

LEMMA SuccessStep == ContractInv /\ [Next]_vars => SuccessOK'
<1> SUFFICES ASSUME TypeOK, SuccessOK, [Next]_vars PROVE SuccessOK'
  BY DEF ContractInv, IngressInv
<1>1. accepted \subseteq accepted'
  BY AcceptedChanges
<1>2. ASSUME \A u \in Thread : thread'[u] = thread[u] \/ thread'[u].pc # "succeed"
      PROVE  SuccessOK'
  BY <1>1, <1>2 DEF SuccessOK, InHand
<1>3. ASSUME NEW t \in Thread, Handle(t) \/ ReportFails(t) PROVE SuccessOK'
  <2>1. /\ \A u \in Thread : u # t => thread'[u] = thread[u]
        /\ Enters(t) \/ GoesOn(t) \/ Leaves(t)
    BY <1>3, HandlerMoves
  <2>2. CASE Report(t)
    <3>0. InHand(t)' = InHand(t)
      BY <2>2, GotoFacts, Places DEF Report
    <3>1. thread[t].pc = "executed" => InHand(t) \in accepted'
      BY <2>2 DEF Report, Told
    <3>2. thread'[t].pc = "succeed" => thread[t].pc \in {"executed", "succeed"}
      BY <2>1, FollowsSuccess DEF Enters, GoesOn, Leaves
    <3>3. thread[t].pc # "succeed"
      BY <2>2 DEF Report, Statuses
    <3> QED
      BY <1>1, <2>1, <3>0, <3>1, <3>2, <3>3 DEF SuccessOK, InHand
  <2>3. CASE ReportFails(t)
    <3>1. thread'[t].pc \in {"failed", "idle", "exiting"}
      <4>1. CASE Goto(t, "failed")
        BY <4>1, GotoFacts DEF Steps, Statuses
      <4>2. CASE Abort(t)
        BY <4>2, AbortFacts
      <4> QED
        BY <2>3, <4>1, <4>2 DEF ReportFails
    <3> QED
      BY <1>2, <2>1, <3>1
  <2>4. CASE ~Report(t) /\ ~ReportFails(t)
    <3>1. thread[t].pc # "executed"
      BY <1>3, <2>4 DEF Handle, Acquire, Open, Check, Admit, Dispatch, DispatchFails,
        RefreshConfigs, Return, At
    <3>2. thread'[t].pc # "succeed"
      BY <2>1, <3>1, FollowsSuccess DEF Enters, GoesOn, Leaves
    <3> QED
      BY <1>2, <2>1, <3>2
  <2> QED
    BY <2>2, <2>3, <2>4
<1>4. CASE Restart \/ Crash
  <2>1. \A t \in Thread : thread'[t].pc = "idle"
    BY <1>4, RestartedFacts, Records DEF Restart, Crash, Idle
  <2> QED
    BY <1>2, <2>1
<1>5. ASSUME NEW t \in Thread, NEW r \in Threads, thread' = [thread EXCEPT ![t] = r],
             r.pc \in {"wait", "exiting"}
      PROVE  SuccessOK'
  <2>1. \A u \in Thread : thread'[u] = thread[u] \/ thread'[u].pc \in {"wait", "exiting"}
    BY <1>5, PutFacts
  <2> QED
    BY <1>2, <2>1
<1>6. CASE TakePacket
  <2>1. \A u \in Thread : thread'[u] = thread[u] \/ thread'[u].pc = "wait"
    BY <1>6, Records DEF TakePacket, TypeOK
  <2> QED
    BY <1>2, <2>1
<1>7. CASE PollFails
  BY <1>5, <1>7, Records DEF PollFails, Exit
<1>8. CASE \E p \in Packet, r \in Request : TakeRequest(r, p)
  BY <1>5, <1>8, Records DEF TakeRequest
<1>9. CASE \/ \E p \in Packet : SendMessage(p) \/ EnvelopeExpires(p) \/ CommandExpires(p)
           \/ Poll \/ PollConflict
           \/ \E id \in FirebaseId : FirebaseCheck(id)
           \/ FirebaseAdmit \/ FirebaseDispatch \/ UNCHANGED vars
  <2>1. UNCHANGED thread
    BY <1>9 DEF SendMessage, EnvelopeExpires, CommandExpires, Poll, PollConflict, FirebaseCheck,
      FirebaseAdmit, FirebaseDispatch, vars
  <2> QED
    BY <1>2, <2>1
<1> QED
  BY <1>3, <1>4, <1>6, <1>7, <1>8, <1>9, NextCases

\* A step that neither ends the packet nor is an exception stays in the handler.
LEMMA HandlerStays ==
  ASSUME NEW t \in Thread, Handle(t) \/ ReportFails(t), ~Return(t), ~Abort(t)
  PROVE  UNCHANGED answer /\ \E s \in Steps \ {"idle", "wait", "exiting"} : Goto(t, s)
<1>1. CASE Acquire(t)
  BY <1>1 DEF Acquire, record, Steps, Statuses
<1>2. CASE Open(t)
  BY <1>2 DEF Open, record, Steps, Statuses
<1>3. CASE Check(t)
  BY <1>3 DEF Check, record, Steps, Statuses
<1>4. CASE Admit(t)
  BY <1>4 DEF Admit, Steps, Statuses
<1>5. CASE Dispatch(t) \/ DispatchFails(t)
  BY <1>5 DEF Dispatch, DispatchFails, Steps, Statuses
<1>6. CASE RefreshConfigs(t)
  BY <1>6 DEF RefreshConfigs, record, Steps, Statuses
<1>7. CASE Report(t)
  BY <1>7, Places DEF Report
<1>8. CASE ReportFails(t)
  BY <1>8 DEF ReportFails, Steps, Statuses
<1> QED
  BY <1>1, <1>2, <1>3, <1>4, <1>5, <1>6, <1>7, <1>8 DEF Handle

\* A request leaves the handler with an answer: "ok" only after a success.
Replies(t, a) ==
  /\ thread' = [thread EXCEPT ![t] = Idle]
  /\ answer' = [answer EXCEPT ![t] = a]
  /\ a = "ok" => thread[t].pc = "succeed"
  /\ UNCHANGED <<updates, confirmed, handled, posted, reached, accepted>>

\* What a step of the handler is to the requests.
LEMMA HandlerReplies ==
  ASSUME TypeOK, NEW t \in Thread, Handle(t) \/ ReportFails(t)
  PROVE  \/ t = Main /\ UNCHANGED answer
         \/ t \in Request /\ \E a \in {"ok", "refused", "crashed"} : Replies(t, a)
         \/ /\ UNCHANGED answer /\ InHand(t)' = InHand(t)
            /\ thread'[t].pc \notin {"idle", "exiting"}
<1>1. t # Main => t \in Request
  BY DEF Thread
<1>2. CASE Abort(t) /\ ~Return(t)
  <2>1. Admit(t) \/ ReportFails(t)
    <3>1. ASSUME NEW s \in Steps \ {"idle", "exiting"}, Goto(t, s) PROVE FALSE
      BY <1>2, <3>1, AbortFacts, GotoFacts
    <3>2. CASE Acquire(t) \/ Open(t) \/ Check(t)
      BY <3>1, <3>2 DEF Acquire, Open, Check, Steps, Statuses
    <3>3. CASE Dispatch(t) \/ DispatchFails(t) \/ RefreshConfigs(t)
      BY <3>1, <3>3 DEF Dispatch, DispatchFails, RefreshConfigs, Steps, Statuses
    <3>4. CASE Report(t)
      BY <3>1, <3>4, Places DEF Report
    <3> QED
      BY <1>2, <3>2, <3>3, <3>4 DEF Handle
  <2>2. t # Main => UNCHANGED <<updates, confirmed, handled, posted, reached, accepted>>
    <3>1. CASE Admit(t)
      BY <3>1 DEF Admit, telegram
    <3>2. CASE ReportFails(t)
      <4>1. thread[t].pc \notin {"dispatched", "executing", "executed"}
        <5>1. ~Goto(t, "failed")
          BY <1>2, AbortFacts, GotoFacts DEF Steps, Statuses
        <5> QED
          BY <3>2, <5>1 DEF ReportFails
      <4> QED
        BY <3>2, <4>1 DEF ReportFails, Told, telegram
    <3> QED
      BY <2>1, <3>1, <3>2
  <2> QED
    BY <1>1, <1>2, <2>2 DEF Abort, Replies
<1>3. CASE Return(t)
  BY <1>1, <1>3 DEF Return, Result, Replies, At, telegram
<1>4. CASE ~Return(t) /\ ~Abort(t)
  <2>1. PICK s \in Steps \ {"idle", "wait", "exiting"} : Goto(t, s)
    BY <1>4, HandlerStays
  <2>2. thread'[t].pc = s /\ InHand(t)' = InHand(t)
    BY <2>1, GotoFacts
  <2> QED
    BY <1>4, <2>2, HandlerStays
<1> QED
  BY <1>2, <1>3, <1>4

\* A request gets its answer when it leaves, and never another.
LEMMA AnswerStep == ContractInv /\ [Next]_vars => AnswerOK'
<1> SUFFICES ASSUME TypeOK, AnswerOK, [Next]_vars PROVE AnswerOK'
  BY DEF ContractInv, IngressInv
<1>0. answer \in [Request -> Answers] /\ thread \in [Thread -> Threads]
  BY DEF TypeOK, Threads
<1>1. Request \subseteq Thread /\ Main \in Thread /\ Main \notin Request
  BY Records, IngressAssumption
<1>2. CASE UNCHANGED answer /\ \A r \in Request : thread'[r] = thread[r]
  BY <1>2 DEF AnswerOK, InHand
<1>3. ASSUME NEW t \in Thread, Handle(t) \/ ReportFails(t) PROVE AnswerOK'
  <2>1. /\ \A u \in Thread : u # t => thread'[u] = thread[u]
        /\ Enters(t) \/ GoesOn(t) \/ Leaves(t)
    BY <1>3, HandlerMoves
  <2>2. thread[t].pc # "idle"
    BY <2>1, FollowsBusy DEF Enters, GoesOn, Leaves, Busy
  <2>3. CASE t = Main /\ UNCHANGED answer
    BY <1>1, <1>2, <2>1, <2>3
  <2>4. ASSUME NEW a, t \in Request, Replies(t, a) PROVE AnswerOK'
    <3>1. thread'[t] = Idle
      BY <1>0, <2>4 DEF Replies
    <3>2. \A r \in Request : r # t => answer'[r] = answer[r]
      BY <1>0, <2>4 DEF Replies
    <3> QED
      BY <1>1, <2>1, <3>1, <3>2 DEF AnswerOK, InHand, Idle
  <2>5. CASE /\ UNCHANGED answer /\ InHand(t)' = InHand(t)
             /\ thread'[t].pc \notin {"idle", "exiting"}
    BY <1>1, <2>1, <2>2, <2>5 DEF AnswerOK, InHand
  <2> QED
    BY <1>3, <2>3, <2>4, <2>5, HandlerReplies
<1>4. ASSUME NEW p \in Packet, NEW r \in Request, TakeRequest(r, p) PROVE AnswerOK'
  <2>1. answer[r] = "none" /\ UNCHANGED answer
    BY <1>4 DEF TakeRequest, record
  <2>2. /\ thread'[r].pc = "wait"
        /\ \A u \in Request : u # r => thread'[u] = thread[u]
    BY <1>0, <1>1, <1>4 DEF TakeRequest
  <2> QED
    BY <2>1, <2>2 DEF AnswerOK, InHand
<1>5. CASE TakePacket \/ PollFails
  <2>1. UNCHANGED answer /\ \A r \in Request : thread'[r] = thread[r]
    BY <1>0, <1>1, <1>5 DEF TakePacket, PollFails, Exit, record
  <2> QED
    BY <1>2, <2>1
<1>6. CASE Restart \/ Crash
  <2>1. \A t \in Thread : thread'[t] = Idle
    BY <1>6, RestartedFacts DEF Restart, Crash
  <2> QED
    BY <1>1, <2>1 DEF AnswerOK, InHand, Idle
<1>7. CASE \/ \E p \in Packet : SendMessage(p) \/ EnvelopeExpires(p) \/ CommandExpires(p)
           \/ Poll \/ PollConflict
           \/ \E id \in FirebaseId : FirebaseCheck(id)
           \/ FirebaseAdmit \/ FirebaseDispatch \/ UNCHANGED vars
  BY <1>2, <1>7 DEF SendMessage, EnvelopeExpires, CommandExpires, Poll, PollConflict, FirebaseCheck,
    FirebaseAdmit, FirebaseDispatch, record, vars
<1> QED
  BY <1>3, <1>4, <1>5, <1>6, <1>7, NextCases

\* What the contract speaks of is left alone.
Shown == <<updates, confirmed, handled, posted, reached, accepted, answer>>

\* And the packets of the requests.
AskedKept == \A r \in Request : InHand(r)' = InHand(r)

LEMMA ContractQuiet ==
  ASSUME UNCHANGED Shown, AskedKept
  PROVE  UNCHANGED Contract!ivars
BY DEF Shown, AskedKept, Contract!ivars, Contract!chat, Contract!posts, Contract!requests

\* The requests as the contract sees them are left alone.
LEMMA RequestsKept ==
  ASSUME UNCHANGED answer, AskedKept
  PROVE  UNCHANGED Contract!requests
BY DEF AskedKept, Contract!requests

\* A post is a delivery of an id that its path did not deliver.
LEMMA PostDelivers ==
  ASSUME TypeOK, NEW path \in Paths, NEW id \in Id, id \notin posted[path],
         Post(path, id) \/ UNCHANGED <<posted, reached>>,
         UNCHANGED <<updates, confirmed, handled, accepted, answer>>, AskedKept
  PROVE  Contract!Deliver(path, id) \/ UNCHANGED Contract!ivars
<1>1. CASE Post(path, id)
  BY <1>1, RequestsKept DEF Post, Contract!Deliver, Contract!chat
<1>2. CASE UNCHANGED <<posted, reached>>
  BY <1>2, ContractQuiet DEF Shown
<1> QED
  BY <1>1, <1>2

\* Every step of the handler is one of the contract, or shows nothing.
LEMMA ContractHandler ==
  ASSUME ContractInv, NEW t \in Thread, Handle(t) \/ ReportFails(t)
  PROVE  Contract!Next \/ UNCHANGED Contract!ivars
<1>0. TypeOK /\ HandOK /\ PollOK /\ LegacyOK /\ ReportOK /\ BatchOK /\ SuccessOK /\ AnswerOK
  BY DEF ContractInv, IngressInv
<1>a. /\ Request \subseteq Thread /\ Main \notin Request
      /\ \A u \in Thread : u # t => thread'[u] = thread[u]
  BY <1>0, HandlerMoves, Records, IngressAssumption
<1>1. "legacy" \in Paths
  BY DEF Paths
<1>2. ASSUME NEW a \in {"ok", "refused", "crashed"}, t \in Request, Replies(t, a)
      PROVE  Contract!Next
  <2>1. thread[t].pc # "idle"
    <3>1. Enters(t) \/ GoesOn(t) \/ Leaves(t)
      BY <1>0, HandlerMoves
    <3> QED
      BY <3>1, FollowsBusy DEF Enters, GoesOn, Leaves, Busy
  <2>2. answer[t] = "none" /\ InHand(t) \in Packet
    BY <1>0, <1>2, <2>1 DEF AnswerOK, HandOK
  <2>3. InHand(t) # NoPacket /\ (a = "ok" => InHand(t) \in accepted)
    BY <1>0, <1>2, <2>2, IngressAssumption DEF SuccessOK, Replies
  <2>4. [r \in Request |-> InHand(r)]' = [[r \in Request |-> InHand(r)] EXCEPT ![t] = NoPacket]
    <3>1. InHand(t)' = NoPacket
      BY <1>0, <1>2 DEF Replies, TypeOK, InHand, Idle
    <3>2. \A u \in Request : u # t => InHand(u)' = InHand(u)
      BY <1>a DEF InHand
    <3> QED
      BY <1>2, <3>1, <3>2
  <2>5. Contract!Answer(t, a)
    BY <1>2, <2>2, <2>3, <2>4 DEF Replies, Contract!Answer, Contract!chat, Contract!posts
  <2> QED
    BY <1>2, <2>5 DEF Contract!Next
<1>3. ASSUME UNCHANGED answer, AskedKept
      PROVE  Contract!Next \/ UNCHANGED Contract!ivars
  <2>0. UNCHANGED Contract!requests
    BY <1>3, RequestsKept
  <2>1. CASE Acquire(t) \/ Open(t) \/ Check(t) \/ Admit(t) \/ RefreshConfigs(t)
    BY <1>3, <2>1, ContractQuiet
    DEF Acquire, Open, Check, Admit, RefreshConfigs, telegram, record, Shown
  <2>2. CASE Dispatch(t) \/ DispatchFails(t)
    <3>1. /\ At(t, "run") /\ Kind[InHand(t)] = "command"
          /\ Post("legacy", CmdId(t)) \/ UNCHANGED <<posted, reached>>
          /\ UNCHANGED <<updates, confirmed, handled, accepted, answer>>
      BY <2>2 DEF Dispatch, DispatchFails, telegram
    <3>2. CmdId(t) \in Id /\ CmdId(t) \notin posted["legacy"]
      BY <1>0, <3>1, HandIds DEF LegacyOK, At, Busy
    <3>3. Contract!Deliver("legacy", CmdId(t)) \/ UNCHANGED Contract!ivars
      BY <1>0, <1>1, <1>3, <3>1, <3>2, PostDelivers
    <3> QED
      BY <1>1, <3>2, <3>3 DEF Contract!Next
  <2>3. CASE Report(t) \/ ReportFails(t)
    <3>1. /\ Told(t) \/ UNCHANGED accepted
          /\ UNCHANGED <<updates, confirmed, handled, posted, reached>>
      BY <2>3 DEF Report, ReportFails, telegram
    <3>2. CASE UNCHANGED accepted
      BY <1>3, <3>1, <3>2, ContractQuiet DEF Shown
    <3>3. CASE ~UNCHANGED accepted
      <4>1. /\ thread[t].pc \in {"dispatched", "executing", "executed"}
            /\ accepted' = accepted \cup {InHand(t)}
        BY <3>1, <3>3 DEF Told
      <4>2. InHand(t) \in Packet
        BY <1>0, <4>1 DEF HandOK
      <4>3. Kind[InHand(t)] = "command" => IdOf[InHand(t)] \in reached
        BY <1>0, <4>1 DEF ReportOK, CmdId
      <4>4. Contract!Tell(InHand(t))
        BY <2>0, <3>1, <4>1, <4>2, <4>3 DEF Contract!Tell, Contract!chat, Contract!posts
      <4> QED
        BY <4>2, <4>4 DEF Contract!Next
    <3> QED
      BY <3>2, <3>3
  <2>4. CASE Return(t) /\ t = Main
    <3>1. /\ handled' = handled \cup {batch[1]}
          /\ UNCHANGED <<updates, confirmed, posted, reached, accepted>>
      BY <2>4 DEF Return, telegram
    <3>2. batch[1] \in 1 .. Len(updates)
      <4>1. thread[Main].pc \notin {"idle", "exiting"}
        BY <2>4 DEF Return
      <4>2. batch[1] \in Nat /\ batch[2] \in Nat /\ Len(updates) \in Nat
        BY <1>0 DEF TypeOK
      <4> QED
        BY <1>0, <4>1, <4>2 DEF BatchOK, PollOK
    <3>3. Contract!Handle(batch[1])
      BY <2>0, <3>1, <3>2 DEF Contract!Handle, Contract!posts
    <3> QED
      BY <3>2, <3>3 DEF Contract!Next
  <2>5. CASE Return(t) /\ t # Main
    BY <1>3, <2>5, ContractQuiet DEF Return, telegram, Shown
  <2> QED
    BY <2>1, <2>2, <2>3, <2>4, <2>5 DEF Handle
<1>4. CASE UNCHANGED answer /\ (t \notin Request \/ InHand(t)' = InHand(t))
  <2>1. AskedKept
    BY <1>a, <1>4 DEF AskedKept, InHand
  <2> QED
    BY <1>3, <1>4, <2>1
<1> QED
  BY <1>0, <1>a, <1>2, <1>4, HandlerReplies

\* So is every other step.
LEMMA ContractStep ==
  ASSUME ContractInv, [Next]_vars
  PROVE  [Contract!Next]_(Contract!ivars)
<1> SUFFICES Contract!Next \/ UNCHANGED Contract!ivars
  OBVIOUS
<1>0. TypeOK /\ HandOK /\ PollOK /\ FirebaseOK /\ ForgetOK /\ AnswerOK
  BY DEF ContractInv, IngressInv
<1>a. Request \subseteq Thread /\ Main \in Thread /\ Main \notin Request
  BY Records, IngressAssumption
<1>b. thread \in [Thread -> Threads]
  BY <1>0 DEF TypeOK, Threads
<1>c. UNCHANGED thread => AskedKept
  BY DEF AskedKept, InHand
<1>1. CASE \E t \in Thread : Handle(t) \/ ReportFails(t)
  BY <1>1, ContractHandler
<1>2. ASSUME NEW p \in Packet, SendMessage(p)
      PROVE  Contract!Send
  <2>1. Len(updates') = Len(updates) + 1
    BY <1>0, <1>2 DEF SendMessage, TypeOK
  <2>2. UNCHANGED Contract!requests
    BY <1>2, <1>c, RequestsKept DEF SendMessage, record
  <2> QED
    BY <1>2, <2>1, <2>2 DEF SendMessage, record, Contract!Send, Contract!posts
<1>3. CASE Poll \/ PollFails
  <2>1. PollOK' /\ ConfirmedMeansHandled'
    BY PollStep DEF ContractInv
  <2>2. UNCHANGED <<updates, handled, posted, reached, accepted, answer>>
    BY <1>3 DEF Poll, PollFails, record
  <2>3. confirmed' \in confirmed .. Len(updates)
    <3>1. confirmed \in Nat /\ offset \in Nat /\ Len(updates) \in Nat
      BY <1>0 DEF TypeOK
    <3>2. confirmed' \in {confirmed, IF offset = 0 THEN confirmed ELSE offset - 1}
      BY <1>3 DEF Poll, PollFails
    <3>3. confirmed' <= Len(updates)
      BY <2>1, <2>2 DEF PollOK
    <3> QED
      BY <1>0, <3>1, <3>2, <3>3 DEF ForgetOK
  <2>4. 1 .. confirmed' \subseteq handled
    BY <2>1, <2>2 DEF ConfirmedMeansHandled
  <2>5. AskedKept
    BY <1>3, <1>a, <1>b, <1>c DEF Poll, PollFails, Exit, AskedKept, InHand
  <2>6. UNCHANGED Contract!requests
    BY <2>2, <2>5, RequestsKept
  <2>7. Contract!Forget
    BY <2>2, <2>3, <2>4, <2>6 DEF Contract!Forget, Contract!posts
  <2> QED
    BY <2>7 DEF Contract!Next
<1>4. CASE FirebaseDispatch
  <2>1. /\ firebase.pc = "post"
        /\ Post("firebase", firebase.id) \/ UNCHANGED <<posted, reached>>
        /\ UNCHANGED <<updates, confirmed, handled, accepted, answer>>
        /\ AskedKept
    BY <1>4, <1>c DEF FirebaseDispatch, telegram
  <2>2. "firebase" \in Paths /\ firebase.id \in Id /\ firebase.id \notin posted["firebase"]
    BY <1>0, <2>1 DEF FirebaseOK, Paths
  <2>3. Contract!Deliver("firebase", firebase.id) \/ UNCHANGED Contract!ivars
    BY <1>0, <2>1, <2>2, PostDelivers
  <2> QED
    BY <2>2, <2>3 DEF Contract!Next
<1>5. CASE Restart \/ Crash
  <2>1. /\ posted' = [p \in Paths |-> {}]
        /\ answer' = [r \in Request |-> IF At(r, "idle") THEN answer[r] ELSE "lost"]
        /\ UNCHANGED <<updates, confirmed, handled, reached, accepted>>
    BY <1>5 DEF Restart, Crash, Restarted, telegram
  <2>2. [r \in Request |-> InHand(r)]' = [r \in Request |-> NoPacket]
    BY <1>5, <1>a, RestartedFacts DEF Restart, Crash, InHand, Idle
  <2>3. answer' = [r \in Request |->
                     IF [q \in Request |-> InHand(q)][r] = NoPacket THEN answer[r] ELSE "lost"]
    <3>1. \A r \in Request : InHand(r) = NoPacket <=> At(r, "idle")
      BY <1>0, <1>a, IngressAssumption DEF AnswerOK, HandOK, At
    <3> QED
      BY <2>1, <3>1
  <2>4. Contract!Restart
    BY <2>1, <2>2, <2>3 DEF Contract!Restart, Contract!chat
  <2> QED
    BY <2>4 DEF Contract!Next
<1>6. CASE \/ \E p \in Packet : EnvelopeExpires(p) \/ CommandExpires(p)
           \/ PollConflict
           \/ \E id \in FirebaseId : FirebaseCheck(id)
           \/ FirebaseAdmit \/ UNCHANGED vars
  BY <1>6, <1>c, ContractQuiet
  DEF EnvelopeExpires, CommandExpires, PollConflict, FirebaseCheck, FirebaseAdmit, telegram, record,
    vars, Shown
<1>8. CASE TakePacket
  <2>1. AskedKept
    BY <1>8, <1>a, <1>b DEF TakePacket, AskedKept, InHand
  <2> QED
    BY <1>8, <2>1, ContractQuiet DEF TakePacket, telegram, record, Shown
<1>9. ASSUME NEW p \in Packet, NEW r \in Request, TakeRequest(r, p)
      PROVE  Contract!Ask(r, p)
  <2>1. InHand(r) = NoPacket /\ answer[r] = "none"
    BY <1>0, <1>9 DEF TakeRequest, AnswerOK, At
  <2>2. [q \in Request |-> InHand(q)]' = [[q \in Request |-> InHand(q)] EXCEPT ![r] = p]
    <3>1. InHand(r)' = p /\ \A q \in Request : q # r => InHand(q)' = InHand(q)
      BY <1>9, <1>a, <1>b DEF TakeRequest, InHand
    <3> QED
      BY <3>1
  <2> QED
    BY <1>9, <2>1, <2>2 DEF TakeRequest, telegram, record, Contract!Ask, Contract!chat, Contract!posts
<1>10. CASE \E p \in Packet, r \in Request : TakeRequest(r, p)
  BY <1>9, <1>10 DEF Contract!Next
<1>7. CASE \E p \in Packet : SendMessage(p)
  BY <1>2, <1>7 DEF Contract!Next
<1> QED
  BY <1>1, <1>3, <1>4, <1>5, <1>6, <1>7, <1>8, <1>10, NextCases

\* The ingress implements IngressContract: whatever fails and however the threads take turns,
\* the app sees each message handled before it is forgotten, each command delivered once by a
\* path in a life of the process, and one true answer to a request.
THEOREM IngressContractKept == Spec => KeepsIngressContract
<1>1. Init => ContractInv /\ Contract!Init
  <2> SUFFICES ASSUME Init PROVE ContractInv /\ Contract!Init
    OBVIOUS
  <2>1. \A t \in Thread : thread[t] = Idle
    BY DEF Init
  <2>2. ContractInv
    BY <2>1, IngressInit, Records
    DEF Init, ContractInv, ForgetOK, BatchOK, SuccessOK, AnswerOK, InHand, Idle
  <2>3. Contract!Init
    BY <2>1, Records DEF Init, Contract!Init, InHand, Idle
  <2> QED
    BY <2>2, <2>3
<1>2. ContractInv /\ [Next]_vars => ContractInv'
  <2>1. IngressInv /\ [Next]_vars => IngressInv'
    BY TypeStep, LockStep, PollStep, LegacyStep, FirebaseStep, ReportStep, AcceptedStep
    DEF IngressInv
  <2> QED
    BY <2>1, ForgetStep, BatchStep, SuccessStep, AnswerStep DEF ContractInv
<1>3. ContractInv /\ [Next]_vars => [Contract!Next]_(Contract!ivars)
  BY ContractStep
<1> QED
  BY <1>1, <1>2, <1>3, PTL DEF Spec, KeepsIngressContract, Contract!Spec
=============================================================================
