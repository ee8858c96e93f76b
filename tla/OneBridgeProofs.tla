----------------------------- MODULE OneBridgeProofs -----------------------------
(***************************************************************************)
(* Proofs about FirebaseQueue with one bridge: what is in history keeps a  *)
(* command from being posted, results are final, and what expired was not  *)
(* executed.  Each of the three fails for two bridges, or for documents    *)
(* that name another node than theirs where OwnPlaces is assumed.          *)
(***************************************************************************)
EXTENDS FirebaseQueueProofs

OneBridge == \A b, c \in Bridge : b = c
OwnPlaces == \A n \in Node : Addr[n] = n

\* No result is known of a command that is to be claimed or executed.
FreshInHand ==
  \A b \in Bridge :
    worker[b].pc \in {"claim", "validate", "sent", "dispatch", "ack"} => history[InHand(b)] = "absent"

\* complete_command completes the document in hand.  It finds no result before its own
\* but for the "done" that it turns into an error after a failed call.
CompletesOwn ==
  \A b \in Bridge : worker[b].pc \in {"read", "set", "del"} =>
    LET w == worker[b] IN
      /\ w.dest = w.node
      /\ w.origin = "try" => w.goal = "done"
      /\ w.pc \in {"read", "set"} =>
           \/ history[w.dest] = "absent"
           \/ history[w.dest] = "done" /\ w.goal = "error" /\ w.origin = "end"
      /\ w.pc = "del" => history[w.dest] = w.goal

\* A document that was judged expired, or is to be completed as expired, was not posted
\* for its first submission; what follows a claim has no plan left.
ExpiringUntouched ==
  \A b \in Bridge :
    /\ worker[b].pc \in {"validate", "sent", "dispatch"} => worker[b].plan = NoPlan
    /\ \A n \in Node : worker[b].plan[n] = "expired" /\ subs[n] = 1 => posts[n] = 0
    /\ worker[b].pc \in {"read", "set", "del"} /\ worker[b].goal = "expired" /\ subs[worker[b].dest] = 1
         => posts[worker[b].dest] = 0

-----------------------------------------------------------------------------
(* What one step of the bridge does                                        *)

\* A document comes into hand for a claim when history has nothing of it.
ClaimFrom(v) == v.pc = "claim" => history[v.node] = "absent" /\ UNCHANGED history

\* The plan comes from the queue, and is not looked at in between.
PlanFrom(w, v) ==
  /\ v.pc \in {"sent", "dispatch"} => v.plan = w.plan
  /\ \A n \in Node : v.plan[n] = "expired" =>
       w.plan[n] = "expired" \/ (pending[n].status = "pending" /\ UNCHANGED posts)

\* Who calls complete_command, with what.
CallFrom(w, v) ==
  \/ /\ w.pc = "scan" /\ v.dest = v.node /\ v.node \in Node /\ history[v.node] = "absent"
     /\ v.goal = w.plan[v.node] /\ v.origin = "scan"
  \/ /\ w.pc \in {"validate", "dispatch"} /\ v.node = w.node /\ v.dest = Addr[w.node]
     /\ v.origin = "end" /\ (w.pc = "dispatch" => v.goal = "error")
  \/ w.pc = "ack" /\ v.node = w.node /\ v.dest = Addr[w.node] /\ v.goal = "done"
  \/ /\ w.pc = "ack" \/ (w.pc \in {"read", "set", "del"} /\ w.origin = "try")
     /\ v.node = w.node /\ v.dest = Addr[w.node] /\ v.goal = "error" /\ v.origin = "end"

\* The steps of complete_command keep its arguments.
CompleteFrom(w, v) ==
  /\ v.pc = "read" => CallFrom(w, v)
  /\ v.pc \in {"set", "del"} =>
       v.node = w.node /\ v.dest = w.dest /\ v.goal = w.goal /\ v.origin = w.origin

Follows(w, v) == ClaimFrom(v) /\ PlanFrom(w, v) /\ CompleteFrom(w, v)

\* A worker that waits, scans or drops a document.
Rests(v) == v.pc \in {"poll", "scan", "drop"}

LEMMA RestFollows ==
  ASSUME NEW w, NEW v, Rests(v), \A n \in Node : v.plan[n] = "expired" => w.plan[n] = "expired"
  PROVE  Follows(w, v)
BY DEF Rests, Follows, ClaimFrom, PlanFrom, CompleteFrom

LEMMA IdleFollows ==
  ASSUME NEW w, NEW v, Idle(v)
  PROVE  Follows(w, v)
BY RestFollows DEF Rests, Idle, NoPlan

LEMMA NextDocumentFollows ==
  ASSUME TypeOK, NEW b \in Bridge, NEW n \in Node, NextDocument(b, n)
  PROVE  Follows(worker[b], worker'[b])
<1>1. worker \in [Bridge -> Worker] /\ worker[b].plan \in [Node -> Verdicts]
  BY DEF TypeOK, Worker
<1>2. worker'[b].pc = "scan" /\ worker'[b].plan = [worker[b].plan EXCEPT ![n] = "none"]
  BY <1>1, NextDocumentMoves
<1> QED
  BY <1>1, <1>2, RestFollows DEF Rests

LEMMA ReturnFollows ==
  ASSUME TypeOK, HandOK, NEW b \in Bridge, worker[b].pc \in {"read", "del"}, Return(b)
  PROVE  Follows(worker[b], worker'[b])
<1>1. InHand(b) \in Node /\ worker \in [Bridge -> Worker]
  BY DEF TypeOK, HandOK
<1> QED
  BY <1>1, NextDocumentFollows, NextQueueMoves, IdleFollows DEF Return

LEMMA FollowsStep ==
  ASSUME TypeOK, HandOK, NEW b \in Bridge, BridgeStep(b), TypeOK'
  PROVE  Follows(worker[b], worker'[b])
<1> DEFINE w == worker[b]
           v == worker'[b]
<1> USE DEF At
<1>a. worker \in [Bridge -> Worker] /\ w \in Worker /\ v \in Worker
      /\ w.plan \in [Node -> Verdicts]
  BY DEF TypeOK, Worker
<1>b. w.pc \notin {"poll", "scan"} => InHand(b) \in Node /\ Target(b) \in Node
  BY ConstantsAssumption DEF HandOK, Target
<1>1. CASE Poll(b)
  <2> DEFINE plan == [n \in Node |-> IF QueueOf[n] = w.queue THEN Verdict(n) ELSE "none"]
  <2>1. \A n \in Node : plan[n] = "expired" => pending[n].status = "pending"
    BY DEF Verdict, TypeOK, Doc, Exists, Active, InFlight
  <2>2. worker' = [worker EXCEPT ![b] = [w EXCEPT !.pc = "scan", !.plan = plan]] /\ UNCHANGED posts
    BY <1>1, <1>a DEF Poll, device
  <2>3. v.pc = "scan" /\ v.plan = plan
    BY <1>a, <2>2 DEF Worker
  <2> QED
    BY <2>1, <2>2, <2>3 DEF Follows, ClaimFrom, PlanFrom, CompleteFrom
<1>2. CASE ScanEnd(b)
  BY <1>2, <1>a, NextQueueMoves, IdleFollows DEF ScanEnd
<1>3. CASE ScanDuplicate(b)
  <2>1. PICK n \in Node : worker' = [worker EXCEPT ![b].pc = "drop", ![b].node = n]
    BY <1>3 DEF ScanDuplicate
  <2>2. worker' = [worker EXCEPT ![b] = [w EXCEPT !.pc = "drop", !.node = n]]
    BY <2>1, <1>a
  <2>3. v.pc = "drop" /\ v.plan = w.plan
    BY <1>a, <2>2 DEF Worker
  <2> QED
    BY <2>3, RestFollows DEF Rests
<1>4. CASE ScanDocument(b)
  <2>1. PICK n \in Node :
          /\ history[n] = "absent"
          /\ \/ /\ w.plan[n] = "claim"
                /\ worker' = [worker EXCEPT ![b].pc = "claim", ![b].node = n]
             \/ /\ w.plan[n] \in {"expired", "error"}
                /\ worker' = [worker EXCEPT ![b].pc = "read", ![b].node = n,
                                ![b].dest = n, ![b].goal = worker[b].plan[n],
                                ![b].origin = "scan"]
             \/ NextDocument(b, n)
    BY <1>4 DEF ScanDocument
  <2>2. w.pc = "scan" /\ UNCHANGED history
    BY <1>4 DEF ScanDocument, db
  <2>3. CASE worker' = [worker EXCEPT ![b].pc = "claim", ![b].node = n]
    <3>1. worker' = [worker EXCEPT ![b] = [w EXCEPT !.pc = "claim", !.node = n]]
      BY <2>3, <1>a
    <3>2. v.pc = "claim" /\ v.node = n /\ v.plan = w.plan
      BY <1>a, <3>1 DEF Worker
    <3> QED
      BY <2>1, <2>2, <3>2 DEF Follows, ClaimFrom, PlanFrom, CompleteFrom
  <2>4. CASE worker' = [worker EXCEPT ![b].pc = "read", ![b].node = n,
                          ![b].dest = n, ![b].goal = worker[b].plan[n],
                          ![b].origin = "scan"]
    <3>1. worker' = [worker EXCEPT ![b] = [w EXCEPT !.pc = "read", !.node = n, !.dest = n,
                       !.goal = w.plan[n], !.origin = "scan"]]
      BY <2>4, <1>a
    <3>2. /\ v.pc = "read" /\ v.node = n /\ v.dest = n /\ v.goal = w.plan[n]
          /\ v.origin = "scan" /\ v.plan = w.plan
      BY <1>a, <3>1 DEF Worker
    <3>3. CallFrom(w, v)
      BY <2>1, <2>2, <3>2 DEF CallFrom
    <3> QED
      BY <3>2, <3>3 DEF Follows, ClaimFrom, PlanFrom, CompleteFrom
  <2>5. CASE NextDocument(b, n)
    BY <2>5, NextDocumentFollows
  <2> QED
    BY <2>1, <2>3, <2>4, <2>5
<1>5. CASE DeleteDuplicate(b)
  BY <1>5, <1>b, NextDocumentFollows DEF DeleteDuplicate
<1>6. CASE Claim(b)
  <2>1. \/ worker' = [worker EXCEPT ![b].pc = "validate", ![b].plan = NoPlan]
        \/ NextDocument(b, InHand(b))
    BY <1>6 DEF Claim
  <2>2. CASE worker' = [worker EXCEPT ![b].pc = "validate", ![b].plan = NoPlan]
    <3>1. worker' = [worker EXCEPT ![b] = [w EXCEPT !.pc = "validate", !.plan = NoPlan]]
      BY <2>2, <1>a
    <3>2. v.pc = "validate" /\ v.plan = NoPlan
      BY <1>a, <3>1 DEF Worker
    <3> QED
      BY <3>2 DEF NoPlan, Follows, ClaimFrom, PlanFrom, CompleteFrom
  <2> QED
    BY <1>6, <1>b, <2>1, <2>2, NextDocumentFollows DEF Claim
<1>c. ASSUME NEW status \in Terminal, NEW origin \in Origins, InHand(b) \in Node,
             Complete(b, Target(b), status, origin),
             \A x \in {v} : x.node = w.node /\ x.dest = Addr[w.node] /\ x.goal = status /\ x.origin = origin
               => CallFrom(w, x)
      PROVE  Follows(w, v)
  <2>1. Target(b) \in Node /\ Target(b) = Addr[w.node]
    BY <1>c, ConstantsAssumption DEF Target, InHand
  <2>2. /\ v.pc = "read" /\ v.node = w.node /\ v.dest = Addr[w.node] /\ v.goal = status
        /\ v.origin = origin /\ v.plan = w.plan
    BY <1>c, <1>a, <2>1, CompleteMoves
  <2>3. CallFrom(w, v)
    BY <1>c, <2>2
  <2> QED
    BY <2>2, <2>3 DEF Follows, ClaimFrom, PlanFrom, CompleteFrom
<1>7. CASE Validate(b)
  <2>1. ASSUME NEW status \in {"error", "expired"}, Complete(b, Target(b), status, "end")
        PROVE  Follows(w, v)
    BY <1>7, <1>b, <1>c, <2>1 DEF Validate, Terminal, Origins, CallFrom
  <2>2. CASE Raise(b)
    BY <2>2, <1>a, RaiseMoves, IdleFollows
  <2>3. CASE Goto(b, "sent")
    <3>1. v.pc = "sent" /\ v.plan = w.plan
      BY <1>a, <2>3, GotoMoves DEF Steps
    <3> QED
      BY <3>1 DEF Follows, ClaimFrom, PlanFrom, CompleteFrom
  <2> QED
    BY <1>7, <2>1, <2>2, <2>3 DEF Validate
<1>8. CASE RecordSent(b)
  <2>1. v.pc \in {"ack", "dispatch"} /\ v.plan = w.plan
    BY <1>8, <1>a, GotoMoves DEF RecordSent, Steps
  <2> QED
    BY <2>1 DEF Follows, ClaimFrom, PlanFrom, CompleteFrom
<1>9. CASE Dispatch(b)
  <2>1. v.pc = "ack" /\ v.plan = w.plan
    BY <1>9, <1>a, GotoMoves DEF Dispatch, Steps
  <2> QED
    BY <2>1 DEF Follows, ClaimFrom, PlanFrom, CompleteFrom
<1>10. CASE DispatchFails(b)
  BY <1>10, <1>b, <1>c DEF DispatchFails, Terminal, Origins, CallFrom
<1>11. CASE RecordAck(b)
  BY <1>11, <1>b, <1>c DEF RecordAck, Terminal, Origins, CallFrom
<1>12. CASE ReadFinal(b)
  <2>1. CASE Return(b)
    BY <1>12, <2>1, ReturnFollows DEF ReadFinal
  <2>2. CASE Goto(b, "set")
    BY <2>2, <1>a, GotoMoves DEF Steps, Follows, ClaimFrom, PlanFrom, CompleteFrom
  <2> QED
    BY <1>12, <2>1, <2>2 DEF ReadFinal
<1>13. CASE SetHistory(b)
  BY <1>13, <1>a, GotoMoves DEF SetHistory, Steps, Follows, ClaimFrom, PlanFrom, CompleteFrom
<1>14. CASE DeletePending(b)
  BY <1>14, ReturnFollows DEF DeletePending
<1>15. CASE CallFails(b)
  <2>1. CASE InTry(b) /\ Complete(b, Target(b), "error", "end")
    BY <1>b, <1>c, <2>1 DEF InTry, Terminal, Origins, CallFrom
  <2>2. CASE Raise(b)
    BY <2>2, <1>a, RaiseMoves, IdleFollows
  <2> QED
    BY <1>15, <2>1, <2>2 DEF CallFails
<1>16. CASE Crash(b)
  BY <1>16, <1>a, RaiseMoves, IdleFollows DEF Crash
<1> QED
  BY <1>1, <1>2, <1>3, <1>4, <1>5, <1>6, <1>7, <1>8, <1>9, <1>10, <1>11, <1>12,
     <1>13, <1>14, <1>15, <1>16 DEF BridgeStep, Proceed

-----------------------------------------------------------------------------
(* The invariants                                                          *)

LEMMA FreshInHandStep ==
  ASSUME OneBridge, QueueInv, FreshInHand, NEW b \in Bridge, BridgeStep(b), TypeOK'
  PROVE  FreshInHand'
<1> USE DEF InHand, At
<1>1. /\ Arrival(b, worker[b], worker'[b]) /\ Follows(worker[b], worker'[b]) /\ HistoryStep(b)
  BY ArrivalStep, FollowsStep, DataSteps DEF QueueInv
<1>2. ASSUME worker'[b].pc \in {"validate", "sent", "dispatch", "ack"}
      PROVE  /\ worker'[b].node = worker[b].node
             /\ worker[b].pc \in {"claim", "validate", "sent", "dispatch"}
  BY <1>1, <1>2 DEF Arrival
<1>3. ASSUME worker'[b].pc \in {"claim", "validate", "sent", "dispatch", "ack"}
      PROVE  history'[worker'[b].node] = "absent"
  <2>1. CASE worker'[b].pc = "claim"
    BY <1>1, <2>1 DEF Follows, ClaimFrom
  <2>2. CASE worker'[b].pc # "claim"
    BY <1>1, <1>2, <1>3, <2>2 DEF HistoryStep, FreshInHand
  <2> QED
    BY <2>1, <2>2
<1> QED
  BY <1>3 DEF FreshInHand, OneBridge

LEMMA CompletesOwnStep ==
  ASSUME OneBridge, OwnPlaces, QueueInv, FreshInHand, CompletesOwn,
         NEW b \in Bridge, BridgeStep(b), TypeOK', HandOK'
  PROVE  CompletesOwn'
<1> DEFINE w == worker[b]
           v == worker'[b]
<1> USE DEF At
<1>1. /\ Arrival(b, w, v) /\ Follows(w, v) /\ HistoryStep(b) /\ TypeOK /\ HandOK
  BY ArrivalStep, FollowsStep, DataSteps DEF QueueInv
<1>2. w.pc \notin {"poll", "scan"} => w.node \in Node /\ Addr[w.node] = w.node
  BY <1>1 DEF HandOK, OwnPlaces, InHand
<1>3. w.pc \in {"validate", "dispatch", "ack"} => history[w.node] = "absent" /\ UNCHANGED history
  BY <1>1 DEF FreshInHand, HistoryStep, InHand
<1>4. w.pc \in {"scan", "read", "del"} => UNCHANGED history
  BY <1>1 DEF HistoryStep
<1>5. w.pc \in {"read", "set", "del"} =>
        /\ w.dest = w.node
        /\ w.origin = "try" => w.goal = "done"
        /\ w.pc \in {"read", "set"} =>
             \/ history[w.dest] = "absent"
             \/ history[w.dest] = "done" /\ w.goal = "error" /\ w.origin = "end"
        /\ w.pc = "del" => history[w.dest] = w.goal
  BY DEF CompletesOwn
<1>6. w.pc = "set" =>
        UNCHANGED history \/ history' = [history EXCEPT ![w.dest] = w.goal]
  BY <1>1 DEF HistoryStep
<1>7. history \in [Node -> Terminal \cup {"absent"}] /\ (v.pc \in {"read", "set", "del"} => v.dest \in Node)
  BY <1>1 DEF TypeOK, HandOK
<1>8. CASE v.pc = "read"
  <2> DEFINE Completing == /\ v.dest = v.node
                           /\ v.origin = "try" => v.goal = "done"
                           /\ \/ history'[v.dest] = "absent"
                              \/ history'[v.dest] = "done" /\ v.goal = "error" /\ v.origin = "end"
  <2>1. ASSUME w.pc = "scan", v.dest = v.node, history[v.node] = "absent", v.origin = "scan"
        PROVE  Completing
    BY <1>4, <2>1
  <2>2. ASSUME w.pc \in {"validate", "dispatch"}, v.node = w.node, v.dest = Addr[w.node], v.origin = "end"
        PROVE  Completing
    BY <1>2, <1>3, <2>2
  <2>3. ASSUME w.pc = "ack", v.node = w.node, v.dest = Addr[w.node], v.goal = "done"
        PROVE  Completing
    BY <1>2, <1>3, <2>3
  <2>4. ASSUME w.pc = "ack" \/ (w.pc \in {"read", "set", "del"} /\ w.origin = "try"),
               v.node = w.node, v.dest = Addr[w.node], v.goal = "error", v.origin = "end"
        PROVE  Completing
    <3>1. v.dest = v.node
      BY <1>2, <2>4
    <3>2. history'[w.node] \in {"absent", "done"}
      <4>1. CASE w.pc = "ack"
        BY <1>3, <4>1
      <4>2. CASE w.pc \in {"read", "del"} /\ w.origin = "try"
        BY <1>4, <1>5, <4>2
      <4>3. CASE w.pc = "set" /\ w.origin = "try"
        BY <1>2, <1>5, <1>6, <1>7, <4>3
      <4> QED
        BY <2>4, <4>1, <4>2, <4>3
    <3> QED
      BY <1>2, <2>4, <3>1, <3>2
  <2>5. CallFrom(w, v)
    BY <1>1, <1>8 DEF Follows, CompleteFrom
  <2> HIDE DEF Completing
  <2>6. Completing
    BY <2>1, <2>2, <2>3, <2>4, <2>5 DEF CallFrom
  <2> QED
    BY <1>8, <2>6 DEF CompletesOwn, OneBridge, Completing
<1>9. CASE v.pc = "set"
  <2>1. w.pc = "read" /\ v.node = w.node /\ v.dest = w.dest /\ v.goal = w.goal /\ v.origin = w.origin
    BY <1>1, <1>9 DEF Arrival, Follows, CompleteFrom
  <2> QED
    BY <1>4, <1>5, <1>9, <2>1 DEF CompletesOwn, OneBridge
<1>10. CASE v.pc = "del"
  <2>1. /\ w.pc = "set" /\ v.node = w.node /\ v.dest = w.dest /\ v.goal = w.goal /\ v.origin = w.origin
        /\ history' = [history EXCEPT ![w.dest] = w.goal]
    BY <1>1, <1>10 DEF Arrival, Follows, CompleteFrom
  <2>2. history'[v.dest] = v.goal
    BY <1>7, <1>10, <2>1
  <2> QED
    BY <1>5, <1>10, <2>1, <2>2 DEF CompletesOwn, OneBridge
<1>11. CASE v.pc \notin {"read", "set", "del"}
  BY <1>11 DEF CompletesOwn, OneBridge
<1> QED
  BY <1>8, <1>9, <1>10, <1>11

\* With nothing but one submission, a document that waits or is held was not posted.
LEMMA FirstPost ==
  ASSUME QueueInv, Tickets, NEW n \in Node, subs[n] = 1,
         pending[n].status = "pending" \/ Holders(n) # {}
  PROVE  posts[n] = 0
<1>1. posts[n] \in Nat /\ Cardinality(Holders(n)) \in Nat /\ Waiting(n) \in {0, 1}
  BY HoldersFinite DEF QueueInv, TypeOK, Waiting
<1>2. posts[n] + Cardinality(Holders(n)) + Waiting(n) <= 1
  BY DEF Tickets
<1>3. Waiting(n) = 1 \/ Cardinality(Holders(n)) # 0
  BY HoldersFinite, FS_EmptySet DEF Waiting
<1> QED
  BY <1>1, <1>2, <1>3

LEMMA ExpiringStep ==
  ASSUME OneBridge, OwnPlaces, QueueInv, Tickets, FreshInHand, CompletesOwn,
         ExpiringUntouched, ExpiredMeansUntouched,
         NEW b \in Bridge, BridgeStep(b), TypeOK', HandOK'
  PROVE  ExpiringUntouched' /\ ExpiredMeansUntouched'
<1> DEFINE w == worker[b]
           v == worker'[b]
<1> USE DEF At, InHand
<1>1. /\ Arrival(b, w, v) /\ Follows(w, v) /\ HistoryStep(b) /\ PostsStep(b) /\ subs' = subs
      /\ TypeOK /\ HandOK
  BY ArrivalStep, FollowsStep, DataSteps DEF QueueInv
<1>2. w.pc \notin {"poll", "scan"} => w.node \in Node /\ Addr[w.node] = w.node
  BY <1>1 DEF HandOK, OwnPlaces
<1>3. \A n \in Node : posts'[n] # posts[n] => w.pc = "dispatch" /\ w.node = n
  BY <1>1, <1>2 DEF PostsStep, TypeOK
<1>4. /\ w.pc \in {"validate", "sent", "dispatch"} => w.plan = NoPlan
      /\ \A n \in Node : w.plan[n] = "expired" /\ subs[n] = 1 => posts[n] = 0
      /\ w.pc \in {"read", "set", "del"} /\ w.goal = "expired" /\ subs[w.dest] = 1 => posts[w.dest] = 0
  BY DEF ExpiringUntouched
<1>5. v.pc \in {"validate", "sent", "dispatch"} => v.plan = NoPlan
  BY <1>1, <1>4 DEF Arrival, Follows, PlanFrom
<1>6. ASSUME NEW n \in Node, v.plan[n] = "expired", subs'[n] = 1
      PROVE  posts'[n] = 0
  <2>1. CASE w.plan[n] = "expired"
    <3>1. posts'[n] = posts[n]
      BY <1>3, <1>4, <2>1 DEF NoPlan
    <3> QED
      BY <1>1, <1>4, <1>6, <2>1, <3>1
  <2>2. CASE pending[n].status = "pending" /\ UNCHANGED posts
    BY <1>1, <1>6, <2>2, FirstPost
  <2> QED
    BY <1>1, <1>6, <2>1, <2>2 DEF Follows, PlanFrom
<1>7. ASSUME v.pc \in {"read", "set", "del"}, v.goal = "expired", subs'[v.dest] = 1
      PROVE  posts'[v.dest] = 0
  <2>a. v.dest \in Node
    BY <1>7 DEF HandOK
  <2>1. CASE v.pc \in {"set", "del"}
    <3>1. w.pc \in {"read", "set"} /\ v.dest = w.dest /\ v.goal = w.goal
      BY <1>1, <2>1 DEF Arrival, Follows, CompleteFrom
    <3> QED
      BY <1>1, <1>3, <1>4, <1>7, <2>a, <3>1
  <2>2. CASE v.pc = "read"
    <3>1. CallFrom(w, v)
      BY <1>1, <2>2 DEF Follows, CompleteFrom
    <3>2. CASE w.pc = "scan" /\ v.dest = v.node /\ v.goal = w.plan[v.node]
      BY <1>1, <1>3, <1>4, <1>7, <2>a, <3>2
    <3>3. CASE w.pc = "validate" /\ v.dest = Addr[w.node]
      <4>1. b \in Holders(w.node) /\ v.dest = w.node
        BY <1>2, <3>3 DEF Holders
      <4>2. posts'[v.dest] = posts[v.dest]
        BY <1>3, <2>a, <3>3
      <4> QED
        BY <1>1, <1>7, <2>a, <4>1, <4>2, FirstPost
    <3> QED
      BY <1>7, <3>1, <3>2, <3>3 DEF CallFrom
  <2> QED
    BY <1>7, <2>1, <2>2
<1>8. ASSUME NEW n \in Node, history'[n] = "expired", subs'[n] = 1
      PROVE  posts'[n] = 0
  <2>1. CASE history[n] = "expired"
    <3>1. posts'[n] = posts[n]
      BY <1>3, <2>1 DEF FreshInHand
    <3> QED
      BY <1>1, <1>8, <2>1, <3>1 DEF ExpiredMeansUntouched
  <2>2. CASE history'[n] # history[n]
    <3>1. w.pc = "set" /\ w.dest = n /\ history'[n] = w.goal
      BY <1>1, <2>2, Growth
    <3> QED
      BY <1>1, <1>3, <1>4, <1>8, <3>1
  <2> QED
    BY <1>8, <2>1, <2>2
<1>9. ExpiredMeansUntouched'
  BY <1>8 DEF ExpiredMeansUntouched
<1>10. ExpiringUntouched'
  BY <1>5, <1>6, <1>7 DEF ExpiringUntouched, OneBridge
<1> QED
  BY <1>9, <1>10

\* The app and the clock.
LEMMA OutsideStep ==
  ASSUME QueueInv, TicketInv, FreshInHand, NEW n \in Node, Outside(n)
  PROVE  /\ FreshInHand'
         /\ CompletesOwn => CompletesOwn'
         /\ ExpiringUntouched /\ ExpiredMeansUntouched => ExpiringUntouched' /\ ExpiredMeansUntouched'
<1>1. UNCHANGED <<history, worker, posts>>
  BY OutsideEffect DEF QueueInv, device
<1>2. \A m \in Node : subs'[m] = 1 => subs[m] = 1 \/ posts[m] = 0
  <2> SUFFICES ASSUME NEW m \in Node, subs'[m] = 1, subs[m] # 1
               PROVE  posts[m] = 0
    OBVIOUS
  <2>1. subs[m] \in Nat /\ posts[m] \in Nat /\ Cardinality(Holders(m)) \in Nat /\ Waiting(m) \in {0, 1}
    BY HoldersFinite DEF QueueInv, TypeOK, Waiting
  <2>2. posts[m] + Cardinality(Holders(m)) + Waiting(m) <= subs[m]
    BY DEF TicketInv, Tickets
  <2>3. subs'[m] = subs[m] \/ subs'[m] = subs[m] + 1
    BY OutsideEffect DEF QueueInv
  <2> QED
    BY <2>1, <2>2, <2>3
<1>3. FreshInHand' /\ (CompletesOwn => CompletesOwn')
  BY <1>1 DEF FreshInHand, CompletesOwn, InHand
<1>4. ASSUME ExpiringUntouched, ExpiredMeansUntouched
      PROVE  ExpiringUntouched' /\ ExpiredMeansUntouched'
  <2>1. \A c \in Bridge : worker[c].pc \in {"read", "set", "del"} => worker[c].dest \in Node
    BY DEF QueueInv, HandOK
  <2> QED
    BY <1>1, <1>2, <1>4, <2>1 DEF ExpiringUntouched, ExpiredMeansUntouched
<1> QED
  BY <1>3, <1>4

\* A single bridge shares its name with no other.
LEMMA OneName == OneBridge => DistinctNames
BY DEF OneBridge, DistinctNames

LEMMA StartOK == Init => FreshInHand /\ CompletesOwn /\ ExpiringUntouched /\ ExpiredMeansUntouched
<1> SUFFICES ASSUME Init
             PROVE  FreshInHand /\ CompletesOwn /\ ExpiringUntouched /\ ExpiredMeansUntouched
  OBVIOUS
<1>1. AtQueue("g1").pc = "poll" /\ AtQueue("g1").plan = NoPlan
  BY DEF AtQueue
<1> QED
  BY <1>1 DEF Init, FreshInHand, CompletesOwn, ExpiringUntouched, ExpiredMeansUntouched, NoPlan

LEMMA FreshInvariant ==
  ASSUME OneBridge
  PROVE  Spec => [](QueueInv /\ TicketInv /\ FreshInHand)
<1>1. QueueInv /\ TicketInv /\ FreshInHand /\ [Next]_vars => FreshInHand'
  <2> SUFFICES ASSUME QueueInv, TicketInv, FreshInHand, [Next]_vars
               PROVE  FreshInHand'
    OBVIOUS
  <2>1. TypeOK' /\ HandOK'
    BY TypeStep DEF QueueInv
  <2>2. CASE UNCHANGED vars
    BY <2>2 DEF vars, db, FreshInHand, InHand
  <2> QED
    BY <2>1, <2>2, NextSplit, FreshInHandStep, OutsideStep
<1>2. QueueInv /\ TicketInv /\ [Next]_vars => TicketInv'
  BY OneName, TicketStep
<1> QED
  BY <1>1, <1>2, QueueInit, QueueStep, TicketInit, StartOK, PTL DEF Spec

OneBridgeInv ==
  /\ QueueInv
  /\ TicketInv
  /\ FreshInHand
  /\ CompletesOwn
  /\ ExpiringUntouched
  /\ ExpiredMeansUntouched

LEMMA OneBridgeInvariant ==
  ASSUME OneBridge, OwnPlaces
  PROVE  Spec => []OneBridgeInv
<1> DEFINE Rest == CompletesOwn /\ ExpiringUntouched /\ ExpiredMeansUntouched
<1>1. QueueInv /\ TicketInv /\ FreshInHand /\ Rest /\ [Next]_vars => Rest'
  <2> SUFFICES ASSUME QueueInv, TicketInv, FreshInHand, CompletesOwn, ExpiringUntouched,
                      ExpiredMeansUntouched, [Next]_vars
               PROVE  Rest'
    OBVIOUS
  <2>1. TypeOK' /\ HandOK'
    BY TypeStep DEF QueueInv
  <2>2. CASE UNCHANGED vars
    BY <2>2 DEF vars, db, device, env, CompletesOwn, ExpiringUntouched, ExpiredMeansUntouched
  <2>3. ASSUME NEW b \in Bridge, BridgeStep(b)
        PROVE  Rest'
    BY <2>1, <2>3, CompletesOwnStep, ExpiringStep DEF TicketInv
  <2> QED
    BY <2>2, <2>3, NextSplit, OutsideStep
<1>2. Init => Rest
  BY StartOK
<1> HIDE DEF Rest
<1>3. QueueInv /\ TicketInv /\ FreshInHand /\ Rest => OneBridgeInv
  BY DEF Rest, OneBridgeInv
<1> QED
  BY <1>1, <1>2, <1>3, FreshInvariant, PTL DEF Spec

-----------------------------------------------------------------------------
(* The theorems                                                            *)

\* One bridge never posts a command whose result is in history, however often it is
\* written again, whatever fails and whatever node a document names.
THEOREM ResultEndsPosts ==
  ASSUME OneBridge
  PROVE  Spec => NoPostAfterResult
<1>1. QueueInv /\ FreshInHand /\ [Next]_vars
        => [\A n \in Node : posts'[n] # posts[n] => history[n] = "absent"]_vars
  <2> SUFFICES ASSUME QueueInv, FreshInHand, [Next]_vars, NEW n \in Node, posts'[n] # posts[n]
               PROVE  history[n] = "absent"
    OBVIOUS
  <2>1. CASE UNCHANGED vars
    BY <2>1 DEF vars, device
  <2>2. CASE \E m \in Node : Outside(m)
    BY <2>2, OutsideEffect DEF QueueInv, device
  <2>3. ASSUME NEW b \in Bridge, BridgeStep(b)
        PROVE  history[n] = "absent"
    <3>1. At(b, "dispatch") /\ InHand(b) = n
      BY <2>3, DataSteps DEF PostsStep, QueueInv, TypeOK
    <3> QED
      BY <3>1 DEF FreshInHand, At
  <2> QED
    BY <2>1, <2>2, <2>3, NextSplit
<1> QED
  BY <1>1, FreshInvariant, PTL DEF Spec, NoPostAfterResult

\* One bridge replaces a result by no other but "done" by "error".
THEOREM ResultsFinal ==
  ASSUME OneBridge, OwnPlaces
  PROVE  Spec => ResultsOnlyDowngrade
<1>1. OneBridgeInv /\ [Next]_vars
        => [\A n \in Node : history[n] # "absent" /\ history'[n] # history[n]
              => history[n] = "done" /\ history'[n] = "error"]_vars
  <2> SUFFICES ASSUME OneBridgeInv, [Next]_vars, NEW n \in Node,
                      history[n] # "absent", history'[n] # history[n]
               PROVE  history[n] = "done" /\ history'[n] = "error"
    OBVIOUS
  <2>1. CASE UNCHANGED vars
    BY <2>1 DEF vars, db
  <2>2. CASE \E m \in Node : Outside(m)
    BY <2>2, OutsideEffect DEF OneBridgeInv, QueueInv
  <2>3. ASSUME NEW b \in Bridge, BridgeStep(b)
        PROVE  history[n] = "done" /\ history'[n] = "error"
    <3>1. At(b, "set") /\ worker[b].dest = n /\ history'[n] = worker[b].goal
      BY <2>3, DataSteps, Growth DEF OneBridgeInv, QueueInv
    <3> QED
      BY <3>1 DEF OneBridgeInv, CompletesOwn, At
  <2> QED
    BY <2>1, <2>2, <2>3, NextSplit
<1> QED
  BY <1>1, OneBridgeInvariant, PTL DEF Spec, ResultsOnlyDowngrade

\* What one bridge recorded as expired after a single submission was never executed.
THEOREM ExpiredIsUntouched ==
  ASSUME OneBridge, OwnPlaces
  PROVE  Spec => []ExpiredMeansUntouched
<1>1. OneBridgeInv => ExpiredMeansUntouched
  BY DEF OneBridgeInv
<1> QED
  BY <1>1, OneBridgeInvariant, PTL
=============================================================================
