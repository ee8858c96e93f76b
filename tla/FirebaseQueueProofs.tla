------------------------- MODULE FirebaseQueueProofs -------------------------
(* Theorems about FirebaseQueue for every value of its constants.           *)
EXTENDS FirebaseQueue, FiniteSetTheorems, TLAPS

-----------------------------------------------------------------------------
(* How the helpers move a worker                                           *)

LEMMA VerdictType ==
  ASSUME TypeOK, NEW n \in Node
  PROVE  Verdict(n) \in Verdicts
BY DEF TypeOK, Verdict, Verdicts, Exists, Doc, Active, InFlight

\* Only the bridge that steps changes its worker.
Alone(b) ==
  /\ worker' \in [Bridge -> Worker]
  /\ \A c \in Bridge : c # b => worker'[c] = worker[c]

LEMMA GotoMoves ==
  ASSUME worker \in [Bridge -> Worker], NEW b \in Bridge, NEW step \in Steps,
         Goto(b, step)
  PROVE  /\ Alone(b)
         /\ worker'[b].pc = step
         /\ worker'[b].node = worker[b].node
         /\ worker'[b].plan = worker[b].plan
         /\ worker'[b].dest = worker[b].dest
         /\ worker'[b].goal = worker[b].goal
         /\ worker'[b].origin = worker[b].origin
BY DEF Goto, Alone, Worker

LEMMA NextDocumentMoves ==
  ASSUME worker \in [Bridge -> Worker], NEW b \in Bridge, NEW n \in Node,
         NextDocument(b, n)
  PROVE  /\ Alone(b)
         /\ worker'[b].pc = "scan"
         /\ worker'[b].plan = [worker[b].plan EXCEPT ![n] = "none"]
<1> DEFINE w == [worker[b] EXCEPT !.pc = "scan", !.plan = [@ EXCEPT ![n] = "none"]]
<1>1. w \in Worker
  <2>1. worker[b] \in Worker
    OBVIOUS
  <2>2. [worker[b].plan EXCEPT ![n] = "none"] \in [Node -> Verdicts]
    BY <2>1 DEF Worker, Verdicts
  <2> QED
    BY <2>1, <2>2 DEF Worker, Steps
<1>2. worker' = [worker EXCEPT ![b] = w]
  BY DEF NextDocument, Worker
<1> QED
  BY <1>1, <1>2 DEF Alone, Worker

LEMMA AtQueueType ==
  ASSUME NEW q \in Queues
  PROVE  AtQueue(q) \in Worker
BY DEF AtQueue, Worker, NoPlan, Steps, Verdicts, Terminal, Origins

\* A worker at the start of a queue.
Idle(w) == w.pc = "poll" /\ w.plan = NoPlan

LEMMA NextQueueMoves ==
  ASSUME worker \in [Bridge -> Worker], NEW b \in Bridge, NextQueue(b)
  PROVE  /\ Alone(b)
         /\ Idle(worker'[b])
<1>1. Other(worker[b].queue) \in Queues
  BY DEF Other, Queues
<1> QED
  BY <1>1, AtQueueType DEF NextQueue, Alone, Idle, AtQueue

LEMMA RaiseMoves ==
  ASSUME worker \in [Bridge -> Worker], NEW b \in Bridge, Raise(b)
  PROVE  /\ Alone(b)
         /\ Idle(worker'[b])
BY AtQueueType DEF Raise, Alone, Queues, Idle, AtQueue

LEMMA CompleteMoves ==
  ASSUME worker \in [Bridge -> Worker], NEW b \in Bridge, NEW n \in Node,
         NEW status \in Terminal, NEW origin \in Origins,
         Complete(b, n, status, origin)
  PROVE  /\ Alone(b)
         /\ worker'[b].pc = "read"
         /\ worker'[b].node = worker[b].node
         /\ worker'[b].plan = worker[b].plan
         /\ worker'[b].dest = n
         /\ worker'[b].goal = status
         /\ worker'[b].origin = origin
<1> DEFINE w == [worker[b] EXCEPT !.pc = "read", !.dest = n,
                                  !.goal = status, !.origin = origin]
<1>1. w \in Worker
  BY DEF Worker, Steps
<1>2. worker' = [worker EXCEPT ![b] = w]
  BY DEF Complete, Worker
<1> QED
  BY <1>1, <1>2 DEF Alone, Worker

-----------------------------------------------------------------------------
(* The writes keep the documents' type                                     *)

LEMMA WriteTypes ==
  ASSUME TypeOK, NEW n \in Node
  PROVE  /\ Erased(n) \in [Node -> Doc]
         /\ \A status \in Active : Updated(n, status) \in [Node -> Doc]
         /\ \A b \in Bridge : Claimed(n, Name[b]) \in [Node -> Doc]
<1>1. Erased(n) \in [Node -> Doc]
  BY DEF TypeOK, Erased, NoDoc, Doc, Active, InFlight
<1>2. ASSUME NEW status \in Active
      PROVE  Updated(n, status) \in [Node -> Doc]
  <2> DEFINE d == [pending[n] EXCEPT !.status = status,
                                     !.stale = @ /\ pending[n].by # Nobody]
  <2>1. pending[n] \in Doc
    BY DEF TypeOK
  <2>2. (pending[n].stale /\ pending[n].by # Nobody) \in BOOLEAN
    OBVIOUS
  <2>3. d \in Doc
    BY <2>1, <2>2 DEF Doc
  <2>4. Exists(n) => Updated(n, status) = [pending EXCEPT ![n] = d]
    BY DEF Updated, TypeOK
  <2> QED
    BY <2>3, <2>4 DEF Updated, TypeOK
<1>3. ASSUME NEW b \in Bridge
      PROVE  Claimed(n, Name[b]) \in [Node -> Doc]
  <2>1. [status |-> "processing", by |-> Name[b], stale |-> FALSE] \in Doc
    BY DEF Doc, Active, InFlight, Names
  <2> QED
    BY <2>1 DEF Claimed, TypeOK
<1> QED
  BY <1>1, <1>2, <1>3

LEMMA WriteLandsType ==
  ASSUME TypeOK, HandOK, NEW b \in Bridge, WriteLands(b)
  PROVE  /\ pending' \in [Node -> Doc]
         /\ history' \in [Node -> Terminal \cup {"absent"}]
<1> USE ConstantsAssumption, WriteTypes DEF HandOK, At, InHand, Target
<1>1. CASE At(b, "drop") /\ pending' = Erased(InHand(b)) /\ UNCHANGED history
  BY <1>1 DEF TypeOK
<1>2. CASE At(b, "claim") /\ pending' = Claimed(InHand(b), Name[b]) /\ UNCHANGED history
  BY <1>2 DEF TypeOK
<1>3. CASE At(b, "sent") /\ pending' = Updated(Target(b), "sent_to_esp") /\ UNCHANGED history
  <2>1. Target(b) \in Node
    BY <1>3
  <2> QED
    BY <1>3, <2>1 DEF TypeOK, Active, InFlight
<1>4. CASE At(b, "ack") /\ pending' = Updated(Target(b), "esp_ack") /\ UNCHANGED history
  <2>1. Target(b) \in Node
    BY <1>4
  <2> QED
    BY <1>4, <2>1 DEF TypeOK, Active, InFlight
<1>5. CASE /\ At(b, "set")
           /\ history' = [history EXCEPT ![worker[b].dest] = worker[b].goal]
           /\ UNCHANGED pending
  BY <1>5 DEF TypeOK, Worker
<1>6. CASE At(b, "del") /\ pending' = Erased(worker[b].dest) /\ UNCHANGED history
  BY <1>6 DEF TypeOK
<1> QED
  BY <1>1, <1>2, <1>3, <1>4, <1>5, <1>6 DEF WriteLands

-----------------------------------------------------------------------------
(* Types and documents in hand                                             *)

\* What the worker of b may look like after its step.
HandOf(w) ==
  /\ w.pc \notin {"poll", "scan"} => w.node \in Node
  /\ w.pc \in {"read", "set", "del"} => w.dest \in Node

LEMMA HandKept ==
  ASSUME HandOK, NEW b \in Bridge, Alone(b), HandOf(worker'[b])
  PROVE  HandOK'
BY DEF HandOK, HandOf, Alone, InHand

LEMMA ReturnMoves ==
  ASSUME TypeOK, HandOK, NEW b \in Bridge, worker[b].pc \in {"read", "del"}, Return(b)
  PROVE  /\ Alone(b)
         /\ worker'[b].pc \in {"poll", "scan"}
<1>1. InHand(b) \in Node /\ worker \in [Bridge -> Worker] /\ worker[b] \in Worker
  BY DEF HandOK, TypeOK
<1>2. CASE NextDocument(b, InHand(b))
  BY <1>1, <1>2, NextDocumentMoves DEF Worker
<1>3. CASE NextQueue(b)
  BY <1>1, <1>3, NextQueueMoves DEF Idle
<1> QED
  BY <1>2, <1>3 DEF Return

LEMMA ProceedType ==
  ASSUME TypeOK, HandOK, NEW b \in Bridge, Proceed(b)
  PROVE  TypeOK' /\ HandOK'
<1> USE DEF At
<1>a. worker \in [Bridge -> Worker] /\ worker[b] \in Worker
  BY DEF TypeOK
<1>b. worker[b].pc \notin {"poll", "scan"} => InHand(b) \in Node /\ Target(b) \in Node
                                              /\ CmdId(b) \in Id
  BY ConstantsAssumption DEF HandOK, Target, CmdId
<1>c. worker[b].pc \in {"read", "set", "del"} => worker[b].dest \in Node
  BY DEF HandOK
<1>1. CASE Poll(b)
  <2> DEFINE plan == [n \in Node |-> IF QueueOf[n] = worker[b].queue
                                     THEN Verdict(n) ELSE "none"]
  <2>1. plan \in [Node -> Verdicts]
    BY VerdictType DEF Verdicts
  <2>2. [worker[b] EXCEPT !.pc = "scan", !.plan = plan] \in Worker
    BY <1>a, <2>1 DEF Worker, Steps
  <2>3. worker' = [worker EXCEPT ![b] = [worker[b] EXCEPT !.pc = "scan", !.plan = plan]]
    BY <1>1, <1>a DEF Poll
  <2>4. Alone(b) /\ worker'[b].pc = "scan"
    BY <1>a, <2>2, <2>3 DEF Alone, Worker
  <2> QED
    BY <1>1, <2>4, HandKept DEF Poll, TypeOK, HandOf, Alone, db, clock, device, env
<1>2. CASE ScanEnd(b)
  <2>1. Alone(b) /\ worker'[b].pc = "poll"
    BY <1>2, <1>a, NextQueueMoves DEF ScanEnd, Idle
  <2> QED
    BY <1>2, <2>1, HandKept DEF ScanEnd, TypeOK, HandOf, Alone, db, clock, device, env
<1>3. CASE ScanDuplicate(b)
  <2>1. PICK n \in Node : worker' = [worker EXCEPT ![b].pc = "drop", ![b].node = n]
    BY <1>3 DEF ScanDuplicate
  <2>2. [worker[b] EXCEPT !.pc = "drop", !.node = n] \in Worker
    BY <1>a DEF Worker, Steps
  <2>3. worker' = [worker EXCEPT ![b] = [worker[b] EXCEPT !.pc = "drop", !.node = n]]
    BY <2>1, <1>a
  <2>4. Alone(b) /\ worker'[b].pc = "drop" /\ worker'[b].node = n
    BY <1>a, <2>2, <2>3 DEF Alone, Worker
  <2> QED
    BY <1>3, <2>4, HandKept DEF ScanDuplicate, TypeOK, HandOf, Alone, db, clock, device, env
<1>4. CASE ScanDocument(b)
  <2>1. PICK n \in Node :
          \/ worker' = [worker EXCEPT ![b].pc = "claim", ![b].node = n]
          \/ /\ worker[b].plan[n] \in {"expired", "error"}
             /\ worker' = [worker EXCEPT ![b].pc = "read", ![b].node = n,
                             ![b].dest = n, ![b].goal = worker[b].plan[n],
                             ![b].origin = "scan"]
          \/ NextDocument(b, n)
    BY <1>4 DEF ScanDocument
  <2>2. Alone(b) /\ HandOf(worker'[b])
    <3>1. CASE worker' = [worker EXCEPT ![b].pc = "claim", ![b].node = n]
      <4>1. [worker[b] EXCEPT !.pc = "claim", !.node = n] \in Worker
        BY <1>a DEF Worker, Steps
      <4>2. worker' = [worker EXCEPT ![b] = [worker[b] EXCEPT !.pc = "claim", !.node = n]]
        BY <3>1, <1>a
      <4> QED
        BY <1>a, <4>1, <4>2 DEF Alone, HandOf, Worker
    <3>2. CASE /\ worker[b].plan[n] \in {"expired", "error"}
               /\ worker' = [worker EXCEPT ![b].pc = "read", ![b].node = n,
                               ![b].dest = n, ![b].goal = worker[b].plan[n],
                               ![b].origin = "scan"]
      <4> DEFINE w == [worker[b] EXCEPT !.pc = "read", !.node = n, !.dest = n,
                         !.goal = worker[b].plan[n], !.origin = "scan"]
      <4>1. w \in Worker
        BY <1>a, <3>2 DEF Worker, Steps, Terminal, Origins
      <4>2. worker' = [worker EXCEPT ![b] = w]
        BY <3>2, <1>a
      <4> QED
        BY <1>a, <4>1, <4>2 DEF Alone, HandOf, Worker
    <3>3. CASE NextDocument(b, n)
      BY <3>3, <1>a, NextDocumentMoves DEF HandOf
    <3> QED
      BY <2>1, <3>1, <3>2, <3>3
  <2> QED
    BY <1>4, <2>2, HandKept DEF ScanDocument, TypeOK, Alone, db, clock, device, env
<1>5. CASE DeleteDuplicate(b)
  <2>1. Alone(b) /\ worker'[b].pc = "scan"
    BY <1>5, <1>a, <1>b, NextDocumentMoves DEF DeleteDuplicate, Worker
  <2>2. pending' \in [Node -> Doc]
    BY <1>5, <1>b, WriteTypes DEF DeleteDuplicate
  <2> QED
    BY <1>5, <2>1, <2>2, HandKept
    DEF DeleteDuplicate, TypeOK, HandOf, Alone, clock, device, env
<1>6. CASE Claim(b)
  <2>1. Alone(b) /\ HandOf(worker'[b])
    <3>1. CASE worker' = [worker EXCEPT ![b].pc = "validate", ![b].plan = NoPlan]
      <4>1. [worker[b] EXCEPT !.pc = "validate", !.plan = NoPlan] \in Worker
        BY <1>a DEF Worker, Steps, NoPlan, Verdicts
      <4>2. worker' = [worker EXCEPT ![b] = [worker[b] EXCEPT !.pc = "validate", !.plan = NoPlan]]
        BY <3>1, <1>a
      <4> QED
        BY <1>6, <1>a, <1>b, <4>1, <4>2 DEF Claim, Alone, HandOf, Worker, InHand
    <3>2. CASE NextDocument(b, InHand(b))
      BY <1>6, <3>2, <1>a, <1>b, NextDocumentMoves DEF Claim, HandOf, Worker
    <3> QED
      BY <1>6, <3>1, <3>2 DEF Claim
  <2>2. pending' \in [Node -> Doc]
    BY <1>6, <1>b, WriteTypes DEF Claim
  <2> QED
    BY <1>6, <2>1, <2>2, HandKept DEF Claim, TypeOK, Alone, clock, device, env
<1>7. CASE Validate(b)
  <2>1. Alone(b) /\ HandOf(worker'[b])
    <3>1. CASE \E status \in {"error", "expired"} : Complete(b, Target(b), status, "end")
      BY <1>7, <3>1, <1>a, <1>b, CompleteMoves
      DEF Validate, HandOf, Terminal, Origins, InHand
    <3>2. CASE Raise(b)
      BY <3>2, <1>a, RaiseMoves DEF HandOf, Idle
    <3>3. CASE Goto(b, "sent")
      BY <1>7, <3>3, <1>a, <1>b, GotoMoves DEF Validate, HandOf, Steps, InHand
    <3> QED
      BY <1>7, <3>1, <3>2, <3>3 DEF Validate
  <2>2. seen' \in [Bridge -> SUBSET Id]
    BY <1>7, <1>b DEF Validate, TypeOK
  <2> QED
    BY <1>7, <2>1, <2>2, HandKept DEF Validate, TypeOK, Alone, db, clock, device, env
<1>8. CASE RecordSent(b)
  <2>1. Alone(b) /\ HandOf(worker'[b])
    BY <1>8, <1>a, <1>b, GotoMoves DEF RecordSent, HandOf, Steps, InHand
  <2>2. pending' \in [Node -> Doc]
    BY <1>8, <1>b, WriteTypes DEF RecordSent, Active, InFlight
  <2> QED
    BY <1>8, <2>1, <2>2, HandKept DEF RecordSent, TypeOK, Alone, clock, device, env
<1>9. CASE Dispatch(b)
  <2>1. Alone(b) /\ HandOf(worker'[b])
    BY <1>9, <1>a, <1>b, GotoMoves DEF Dispatch, HandOf, Steps, InHand
  <2>2. posts' \in [Node -> Nat] /\ posted' \in [Bridge -> SUBSET Id]
    BY <1>9, <1>b DEF Dispatch, Reach, TypeOK
  <2> QED
    BY <1>9, <2>1, <2>2, HandKept DEF Dispatch, TypeOK, Alone, db, clock, env
<1>10. CASE DispatchFails(b)
  <2>1. Alone(b) /\ HandOf(worker'[b])
    BY <1>10, <1>a, <1>b, CompleteMoves
    DEF DispatchFails, HandOf, Terminal, Origins, InHand
  <2>2. posts' \in [Node -> Nat] /\ posted' \in [Bridge -> SUBSET Id]
    BY <1>10, <1>b DEF DispatchFails, Reach, TypeOK, device
  <2> QED
    BY <1>10, <2>1, <2>2, HandKept DEF DispatchFails, TypeOK, Alone, db, clock, env
<1>11. CASE RecordAck(b)
  <2>1. Alone(b) /\ HandOf(worker'[b])
    BY <1>11, <1>a, <1>b, CompleteMoves
    DEF RecordAck, HandOf, Terminal, Origins, InHand
  <2>2. pending' \in [Node -> Doc]
    BY <1>11, <1>b, WriteTypes DEF RecordAck, Active, InFlight
  <2> QED
    BY <1>11, <2>1, <2>2, HandKept DEF RecordAck, TypeOK, Alone, clock, device, env
<1>12. CASE ReadFinal(b)
  <2>1. Alone(b) /\ HandOf(worker'[b])
    <3>1. CASE Return(b)
      BY <1>12, <3>1, ReturnMoves DEF ReadFinal, HandOf
    <3>2. CASE Goto(b, "set")
      BY <1>12, <3>2, <1>a, <1>b, <1>c, GotoMoves
      DEF ReadFinal, HandOf, Steps, InHand
    <3> QED
      BY <1>12, <3>1, <3>2 DEF ReadFinal
  <2> QED
    BY <1>12, <2>1, HandKept DEF ReadFinal, TypeOK, Alone, db, clock, device, env
<1>13. CASE SetHistory(b)
  <2>1. Alone(b) /\ HandOf(worker'[b])
    BY <1>13, <1>a, <1>b, <1>c, GotoMoves DEF SetHistory, HandOf, Steps, InHand
  <2>2. history' \in [Node -> Terminal \cup {"absent"}]
    BY <1>13, <1>a, <1>c DEF SetHistory, TypeOK, Worker
  <2> QED
    BY <1>13, <2>1, <2>2, HandKept DEF SetHistory, TypeOK, Alone, clock, device, env
<1>14. CASE DeletePending(b)
  <2>1. Alone(b) /\ HandOf(worker'[b])
    BY <1>14, ReturnMoves DEF DeletePending, HandOf
  <2>2. pending' \in [Node -> Doc]
    BY <1>14, <1>c, WriteTypes DEF DeletePending
  <2> QED
    BY <1>14, <2>1, <2>2, HandKept DEF DeletePending, TypeOK, Alone, clock, device, env
<1> QED
  BY <1>1, <1>2, <1>3, <1>4, <1>5, <1>6, <1>7, <1>8, <1>9, <1>10, <1>11, <1>12,
     <1>13, <1>14 DEF Proceed

LEMMA CallFailsType ==
  ASSUME TypeOK, HandOK, NEW b \in Bridge, CallFails(b)
  PROVE  TypeOK' /\ HandOK'
<1>1. worker \in [Bridge -> Worker]
  BY DEF TypeOK
<1>2. Alone(b) /\ HandOf(worker'[b])
  <2>1. CASE InTry(b) /\ Complete(b, Target(b), "error", "end")
    <3>1. InHand(b) \in Node
      BY <2>1 DEF InTry, At, HandOK
    <3>2. Target(b) \in Node
      BY <3>1, ConstantsAssumption DEF Target
    <3> QED
      BY <1>1, <2>1, <3>1, <3>2, CompleteMoves DEF HandOf, Terminal, Origins, InHand
  <2>2. CASE Raise(b)
    BY <1>1, <2>2, RaiseMoves DEF HandOf, Idle
  <2> QED
    BY <2>1, <2>2 DEF CallFails
<1>3. pending' \in [Node -> Doc] /\ history' \in [Node -> Terminal \cup {"absent"}]
  BY WriteLandsType DEF CallFails, TypeOK, db
<1> QED
  BY <1>2, <1>3, HandKept DEF CallFails, TypeOK, Alone, clock, device

LEMMA CrashType ==
  ASSUME TypeOK, HandOK, NEW b \in Bridge, Crash(b)
  PROVE  TypeOK' /\ HandOK'
<1>1. Alone(b) /\ HandOf(worker'[b])
  BY RaiseMoves DEF Crash, TypeOK, HandOf, Idle
<1>2. seen' \in [Bridge -> SUBSET Id] /\ posted' \in [Bridge -> SUBSET Id]
  BY DEF Crash, TypeOK
<1>3. HandOK'
  BY <1>1, HandKept
<1> QED
  BY <1>1, <1>2, <1>3 DEF Crash, TypeOK, Alone, db, clock

LEMMA OutsideType ==
  ASSUME TypeOK, HandOK, NEW n \in Node,
         Submit(n) \/ QueueDeadline(n) \/ GuardDeadline(n) \/ GoStale(n)
  PROVE  TypeOK' /\ HandOK'
<1>1. UNCHANGED worker /\ HandOK'
  BY DEF Submit, QueueDeadline, GuardDeadline, GoStale, HandOK, InHand
<1>2. CASE Submit(n)
  <2>1. Fresh \in Doc
    BY DEF Fresh, Doc, Active
  <2> QED
    BY <1>1, <1>2, <2>1 DEF Submit, TypeOK, clock, device
<1>3. CASE QueueDeadline(n) \/ GuardDeadline(n)
  BY <1>1, <1>3 DEF QueueDeadline, GuardDeadline, TypeOK, db, device, env
<1>4. CASE GoStale(n)
  <2>1. [pending[n] EXCEPT !.stale = TRUE] \in Doc
    BY DEF TypeOK, Doc
  <2>2. pending' = [pending EXCEPT ![n] = [pending[n] EXCEPT !.stale = TRUE]]
    BY <1>4 DEF GoStale, TypeOK
  <2> QED
    BY <1>1, <1>4, <2>1, <2>2 DEF GoStale, TypeOK, clock, device, env
<1> QED
  BY <1>1, <1>2, <1>3, <1>4

LEMMA TypeStep ==
  ASSUME TypeOK, HandOK, [Next]_vars
  PROVE  TypeOK' /\ HandOK'
<1>1. CASE UNCHANGED vars
  BY <1>1 DEF vars, db, clock, device, env, TypeOK, HandOK, InHand
<1>2. CASE Next
  BY <1>2, ProceedType, CallFailsType, CrashType, OutsideType DEF Next
<1> QED
  BY <1>1, <1>2

LEMMA TypeInit ==
  ASSUME Init
  PROVE  TypeOK /\ HandOK
<1>1. AtQueue("g1") \in Worker /\ AtQueue("g1").pc = "poll"
  BY AtQueueType DEF Queues, AtQueue
<1>2. NoDoc \in Doc
  BY DEF NoDoc, Doc
<1> QED
  BY <1>1, <1>2 DEF Init, TypeOK, HandOK

\* The state of the queue, its workers and guards stays of its type, and a worker
\* with a document in hand knows which.
THEOREM TypeCorrect == Spec => [](TypeOK /\ HandOK)
<1>1. Init => TypeOK /\ HandOK
  BY TypeInit
<1>2. TypeOK /\ HandOK /\ [Next]_vars => (TypeOK /\ HandOK)'
  BY TypeStep
<1> QED
  BY <1>1, <1>2, PTL DEF Spec

-----------------------------------------------------------------------------
(* What one step of a bridge does, for the invariants below                *)

BridgeStep(b) == Proceed(b) \/ CallFails(b) \/ Crash(b)

\* pending changes by one of the five writes of the code, at its place.
PendingStep(b) ==
  \/ UNCHANGED pending
  \/ At(b, "drop") /\ pending' = Erased(InHand(b))
  \/ At(b, "del") /\ pending' = Erased(worker[b].dest)
  \/ At(b, "claim") /\ pending' = Claimed(InHand(b), Name[b])
  \/ At(b, "sent") /\ pending' = Updated(Target(b), "sent_to_esp")
  \/ At(b, "ack") /\ pending' = Updated(Target(b), "esp_ack")

HistoryStep(b) ==
  \/ UNCHANGED history
  \/ /\ At(b, "set")
     /\ history' = [history EXCEPT ![worker[b].dest] = worker[b].goal]

PostsStep(b) ==
  \/ UNCHANGED posts
  \/ /\ At(b, "dispatch")
     /\ posts' = [posts EXCEPT ![InHand(b)] = @ + 1]

LEMMA DataSteps ==
  ASSUME NEW b \in Bridge, BridgeStep(b)
  PROVE  PendingStep(b) /\ HistoryStep(b) /\ PostsStep(b) /\ UNCHANGED subs
<1> USE DEF PendingStep, HistoryStep, PostsStep, db, device, env
<1>1. CASE Proceed(b)
  <2>1. CASE Poll(b) \/ ScanEnd(b) \/ ScanDuplicate(b) \/ ScanDocument(b) \/ Validate(b)
             \/ ReadFinal(b)
    BY <2>1 DEF Poll, ScanEnd, ScanDuplicate, ScanDocument, Validate, ReadFinal
  <2>2. CASE DeleteDuplicate(b) \/ Claim(b) \/ RecordSent(b) \/ RecordAck(b)
             \/ SetHistory(b) \/ DeletePending(b)
    BY <2>2 DEF DeleteDuplicate, Claim, RecordSent, RecordAck, SetHistory, DeletePending
  <2>3. CASE Dispatch(b) \/ DispatchFails(b)
    BY <2>3 DEF Dispatch, DispatchFails, Reach
  <2> QED
    BY <1>1, <2>1, <2>2, <2>3 DEF Proceed
<1>2. CASE CallFails(b)
  BY <1>2 DEF CallFails, WriteLands
<1>3. CASE Crash(b)
  BY <1>3 DEF Crash
<1> QED
  BY <1>1, <1>2, <1>3 DEF BridgeStep

\* Where a worker may arrive, and from where.
Arrival(b, w, v) ==
  /\ v.pc = "drop" => history[v.node] # "absent" /\ UNCHANGED history
  /\ v.pc = "claim" => v.plan[v.node] = "claim" /\ w.pc = "scan"
  /\ v.pc = "validate" =>
       /\ w.pc = "claim" /\ v.node = w.node /\ v.plan = NoPlan
       /\ \/ pending[w.node].status = "pending"
          \/ pending[w.node].status = "processing" /\ pending[w.node].by = Name[b]
       /\ pending' = Claimed(w.node, Name[b])
  /\ v.pc = "sent" => w.pc = "validate" /\ v.node = w.node /\ CmdId(b) \notin seen[b]
  /\ v.pc = "dispatch" => w.pc = "sent" /\ v.node = w.node /\ ~DryRun
  /\ v.pc = "ack" =>
       /\ w.pc \in {"sent", "dispatch"} /\ v.node = w.node
       /\ DryRun \/ posts' = [posts EXCEPT ![w.node] = @ + 1]
  /\ v.pc = "read" /\ v.goal = "done" => w.pc = "ack" /\ v.dest = Addr[w.node]
  /\ v.pc = "set" =>
       /\ w.pc = "read" /\ v.dest = w.dest /\ v.goal = w.goal
       /\ Exists(w.dest) \/ history[w.dest] # "absent"
  /\ v.pc = "del" =>
       /\ w.pc = "set" /\ v.dest = w.dest /\ v.goal = w.goal
       /\ history' = [history EXCEPT ![w.dest] = w.goal]
  /\ \A n \in Node :
       v.plan[n] = "claim" =>
         \/ w.plan[n] = "claim" /\ (w.pc = "claim" /\ w.node = n => UNCHANGED pending)
         \/ pending[n].status = "pending" /\ UNCHANGED pending

Quiet(w) == w.pc \in {"poll", "scan"} \/ (w.pc = "read" /\ w.goal # "done")

LEMMA QuietArrival ==
  ASSUME TypeOK, HandOK, NEW b \in Bridge, NEW v \in Worker, Quiet(v),
         \A n \in Node : v.plan[n] = "claim" =>
            /\ worker[b].plan[n] = "claim"
            /\ At(b, "claim") /\ InHand(b) = n => UNCHANGED pending
  PROVE  Arrival(b, worker[b], v)
BY DEF Quiet, Arrival, At, InHand

LEMMA ReturnQuiet ==
  ASSUME TypeOK, HandOK, NEW b \in Bridge, worker[b].pc \in {"read", "del"}, Return(b)
  PROVE  /\ Alone(b)
         /\ Quiet(worker'[b])
         /\ \A n \in Node : worker'[b].plan[n] = "claim" => worker[b].plan[n] = "claim"
<1>1. InHand(b) \in Node /\ worker \in [Bridge -> Worker] /\ worker[b] \in Worker
  BY DEF HandOK, TypeOK
<1>2. worker[b].plan \in [Node -> Verdicts]
  BY <1>1 DEF Worker
<1>3. CASE NextDocument(b, InHand(b))
  BY <1>1, <1>2, <1>3, NextDocumentMoves DEF Quiet
<1>4. CASE NextQueue(b)
  BY <1>1, <1>4, NextQueueMoves DEF Idle, NoPlan, Quiet
<1> QED
  BY <1>3, <1>4 DEF Return

LEMMA ArrivalStep ==
  ASSUME TypeOK, HandOK, NEW b \in Bridge, BridgeStep(b), TypeOK'
  PROVE  Alone(b) /\ Arrival(b, worker[b], worker'[b])
<1> DEFINE w == worker[b]
           v == worker'[b]
<1> USE DEF At
<1>a. worker \in [Bridge -> Worker] /\ w \in Worker /\ v \in Worker
      /\ w.plan \in [Node -> Verdicts]
  BY DEF TypeOK, Worker
<1>b. w.pc \notin {"poll", "scan"} => InHand(b) \in Node /\ Target(b) \in Node
  BY ConstantsAssumption DEF HandOK, Target
<1>1. CASE Poll(b)
  <2> DEFINE plan == [n \in Node |-> IF QueueOf[n] = w.queue THEN Verdict(n) ELSE "none"]
  <2>1. \A n \in Node : plan[n] = "claim" => pending[n].status = "pending"
    BY DEF Verdict, TypeOK, Doc, Exists, Active, InFlight
  <2>2. worker' = [worker EXCEPT ![b] = [w EXCEPT !.pc = "scan", !.plan = plan]]
    BY <1>1, <1>a DEF Poll
  <2>3. v.pc = "scan" /\ v.plan = plan /\ Alone(b)
    BY <1>a, <2>2 DEF Worker, Alone, TypeOK
  <2> QED
    BY <1>1, <2>1, <2>3 DEF Poll, Arrival, db
<1>2. CASE ScanEnd(b)
  BY <1>2, <1>a, NextQueueMoves, QuietArrival DEF ScanEnd, Idle, NoPlan, Quiet
<1>3. CASE ScanDuplicate(b)
  <2>1. PICK n \in Node : /\ history[n] # "absent"
                          /\ worker' = [worker EXCEPT ![b].pc = "drop", ![b].node = n]
    BY <1>3 DEF ScanDuplicate
  <2>2. worker' = [worker EXCEPT ![b] = [w EXCEPT !.pc = "drop", !.node = n]]
    BY <2>1, <1>a
  <2>3. v.pc = "drop" /\ v.node = n /\ v.plan = w.plan /\ Alone(b)
    BY <1>a, <2>2 DEF Worker, Alone, TypeOK
  <2> QED
    BY <1>3, <2>1, <2>3 DEF ScanDuplicate, Arrival, db
<1>4. CASE ScanDocument(b)
  <2>1. PICK n \in Node :
          \/ /\ w.plan[n] = "claim"
             /\ worker' = [worker EXCEPT ![b].pc = "claim", ![b].node = n]
          \/ /\ w.plan[n] \in {"expired", "error"}
             /\ worker' = [worker EXCEPT ![b].pc = "read", ![b].node = n,
                             ![b].dest = n, ![b].goal = worker[b].plan[n],
                             ![b].origin = "scan"]
          \/ NextDocument(b, n)
    BY <1>4 DEF ScanDocument
  <2>2. w.pc = "scan" /\ UNCHANGED <<pending, history>>
    BY <1>4 DEF ScanDocument, db
  <2>3. CASE /\ w.plan[n] = "claim"
             /\ worker' = [worker EXCEPT ![b].pc = "claim", ![b].node = n]
    <3>1. worker' = [worker EXCEPT ![b] = [w EXCEPT !.pc = "claim", !.node = n]]
      BY <2>3, <1>a
    <3>2. v.pc = "claim" /\ v.node = n /\ v.plan = w.plan /\ Alone(b)
      BY <1>a, <3>1 DEF Worker, Alone, TypeOK
    <3> QED
      BY <2>2, <2>3, <3>2 DEF Arrival
  <2>4. CASE /\ w.plan[n] \in {"expired", "error"}
             /\ worker' = [worker EXCEPT ![b].pc = "read", ![b].node = n,
                             ![b].dest = n, ![b].goal = worker[b].plan[n],
                             ![b].origin = "scan"]
    <3>1. worker' = [worker EXCEPT ![b] = [w EXCEPT !.pc = "read", !.node = n, !.dest = n,
                       !.goal = w.plan[n], !.origin = "scan"]]
      BY <2>4, <1>a
    <3>2. v.pc = "read" /\ v.goal # "done" /\ v.plan = w.plan /\ Alone(b)
      BY <1>a, <2>4, <3>1 DEF Worker, Alone, TypeOK
    <3> QED
      BY <1>a, <2>2, <3>2, QuietArrival DEF Quiet
  <2>5. CASE NextDocument(b, n)
    BY <1>a, <2>2, <2>5, NextDocumentMoves, QuietArrival DEF Quiet
  <2> QED
    BY <2>1, <2>3, <2>4, <2>5
<1>5. CASE DeleteDuplicate(b)
  BY <1>5, <1>a, <1>b, NextDocumentMoves, QuietArrival DEF DeleteDuplicate, Quiet
<1>6. CASE Claim(b)
  <2>1. PICK sameSecond \in BOOLEAN :
          \/ /\ Mine(b, InHand(b), sameSecond)
             /\ worker' = [worker EXCEPT ![b].pc = "validate", ![b].plan = NoPlan]
          \/ ~Mine(b, InHand(b), sameSecond) /\ NextDocument(b, InHand(b))
    BY <1>6 DEF Claim
  <2>a. w.pc = "claim" /\ pending' = Claimed(InHand(b), Name[b])
    BY <1>6 DEF Claim
  <2>2. CASE /\ Mine(b, InHand(b), sameSecond)
             /\ worker' = [worker EXCEPT ![b].pc = "validate", ![b].plan = NoPlan]
    <3>a. \/ pending[w.node].status = "pending"
          \/ pending[w.node].status = "processing" /\ pending[w.node].by = Name[b]
      BY <2>2 DEF Mine, InHand
    <3>1. worker' = [worker EXCEPT ![b] = [w EXCEPT !.pc = "validate", !.plan = NoPlan]]
      BY <2>2, <1>a
    <3>2. v.pc = "validate" /\ v.node = w.node /\ v.plan = NoPlan /\ Alone(b)
      BY <1>a, <3>1 DEF Worker, Alone, TypeOK
    <3> QED
      BY <2>a, <3>a, <3>2 DEF Arrival, InHand, NoPlan
  <2>3. CASE NextDocument(b, InHand(b))
    <3>1. Alone(b) /\ v.pc = "scan" /\ v.plan = [w.plan EXCEPT ![InHand(b)] = "none"]
      BY <1>a, <1>b, <2>a, <2>3, NextDocumentMoves
    <3> QED
      BY <1>a, <1>b, <2>a, <3>1, QuietArrival DEF Quiet
  <2> QED
    BY <2>1, <2>2, <2>3
<1>7. CASE Validate(b)
  <2>1. CASE \E status \in {"error", "expired"} : Complete(b, Target(b), status, "end")
    BY <1>7, <2>1, <1>a, <1>b, CompleteMoves, QuietArrival
    DEF Validate, Terminal, Origins, Quiet
  <2>2. CASE Raise(b)
    BY <2>2, <1>a, RaiseMoves, QuietArrival DEF Idle, NoPlan, Quiet
  <2>3. CASE ~Rejected(b) /\ Goto(b, "sent")
    BY <1>7, <2>3, <1>a, GotoMoves DEF Validate, Steps, Arrival, Rejected, db
  <2> QED
    BY <1>7, <2>1, <2>2, <2>3 DEF Validate
<1>8. CASE RecordSent(b)
  <2>1. CASE DryRun /\ Goto(b, "ack")
    BY <1>8, <2>1, <1>a, GotoMoves DEF RecordSent, Steps, Arrival
  <2>2. CASE ~DryRun /\ Goto(b, "dispatch")
    BY <1>8, <2>2, <1>a, GotoMoves DEF RecordSent, Steps, Arrival
  <2> QED
    BY <1>8, <2>1, <2>2 DEF RecordSent
<1>9. CASE Dispatch(b)
  BY <1>9, <1>a, GotoMoves DEF Dispatch, Reach, Steps, Arrival, InHand, db
<1>10. CASE DispatchFails(b)
  BY <1>10, <1>a, <1>b, CompleteMoves, QuietArrival
  DEF DispatchFails, Terminal, Origins, Quiet, db
<1>11. CASE RecordAck(b)
  BY <1>11, <1>a, <1>b, CompleteMoves
  DEF RecordAck, Terminal, Origins, Arrival, InHand, Target
<1>12. CASE ReadFinal(b)
  <2>1. CASE Return(b)
    BY <1>12, <2>1, <1>a, ReturnQuiet, QuietArrival DEF ReadFinal
  <2>2. CASE (Exists(w.dest) \/ history[w.dest] # "absent") /\ Goto(b, "set")
    BY <1>12, <2>2, <1>a, GotoMoves DEF ReadFinal, Steps, Arrival
  <2> QED
    BY <1>12, <2>1, <2>2 DEF ReadFinal
<1>13. CASE SetHistory(b)
  BY <1>13, <1>a, GotoMoves DEF SetHistory, Steps, Arrival
<1>14. CASE DeletePending(b)
  BY <1>14, <1>a, ReturnQuiet, QuietArrival DEF DeletePending
<1>15. CASE CallFails(b)
  <2>1. CASE InTry(b) /\ Complete(b, Target(b), "error", "end")
    <3>1. w.pc # "claim" /\ InHand(b) \in Node /\ Target(b) \in Node
      BY <2>1, <1>b DEF InTry
    <3> QED
      BY <2>1, <3>1, <1>a, CompleteMoves, QuietArrival DEF Terminal, Origins, Quiet
  <2>2. CASE Raise(b)
    BY <2>2, <1>a, RaiseMoves, QuietArrival DEF Idle, NoPlan, Quiet
  <2> QED
    BY <1>15, <2>1, <2>2 DEF CallFails
<1>16. CASE Crash(b)
  BY <1>16, <1>a, RaiseMoves, QuietArrival DEF Crash, Idle, NoPlan, Quiet
<1> QED
  BY <1>1, <1>2, <1>3, <1>4, <1>5, <1>6, <1>7, <1>8, <1>9, <1>10, <1>11, <1>12,
     <1>13, <1>14, <1>15, <1>16 DEF BridgeStep, Proceed

\* What a bridge's step does to one document.
PendingEffect(b, n) ==
  \/ pending'[n] = pending[n]
  \/ /\ pending'[n].status = "absent"
     /\ \/ At(b, "drop") /\ InHand(b) = n
        \/ At(b, "del") /\ worker[b].dest = n
  \/ /\ At(b, "claim") /\ InHand(b) = n /\ pending[n].status = "pending"
     /\ pending'[n].status = "processing" /\ pending'[n].by = Name[b]
  \/ At(b, "sent") /\ Exists(n) /\ pending'[n].status = "sent_to_esp"
  \/ At(b, "ack") /\ Exists(n) /\ pending'[n].status = "esp_ack" /\ Target(b) = n

LEMMA PendingEffects ==
  ASSUME TypeOK, HandOK, NEW b \in Bridge, PendingStep(b), NEW n \in Node
  PROVE  PendingEffect(b, n)
<1> USE DEF PendingEffect
<1>a. pending \in [Node -> Doc]
  BY DEF TypeOK
<1>1. ASSUME NEW m \in Node, NEW status \in Active, pending' = Updated(m, status)
      PROVE  \/ pending'[n] = pending[n]
             \/ m = n /\ Exists(n) /\ pending'[n].status = status
  <2>1. CASE Exists(m)
    <3>1. pending' = [pending EXCEPT ![m] = [pending[m] EXCEPT !.status = status,
                                             !.stale = @ /\ pending[m].by # Nobody]]
      BY <1>1, <1>a, <2>1 DEF Updated
    <3> QED
      BY <1>a, <2>1, <3>1 DEF Doc
  <2> QED
    BY <1>1, <2>1 DEF Updated
<1>2. CASE UNCHANGED pending
  BY <1>2
<1>3. CASE At(b, "drop") /\ pending' = Erased(InHand(b))
  <2>1. InHand(b) \in Node
    BY <1>3 DEF HandOK, At
  <2>2. pending'[n] = IF n = InHand(b) THEN NoDoc ELSE pending[n]
    BY <1>3, <1>a, <2>1 DEF Erased
  <2> QED
    BY <1>3, <2>2 DEF NoDoc
<1>4. CASE At(b, "del") /\ pending' = Erased(worker[b].dest)
  BY <1>4, <1>a DEF Erased, NoDoc, HandOK, At
<1>5. CASE At(b, "claim") /\ pending' = Claimed(InHand(b), Name[b])
  BY <1>5, <1>a DEF Claimed, HandOK, At
<1>6. CASE At(b, "sent") /\ pending' = Updated(Target(b), "sent_to_esp")
  <2>1. Target(b) \in Node
    BY <1>6, ConstantsAssumption DEF Target, HandOK, At
  <2> QED
    BY <1>1, <1>6, <2>1 DEF Active, InFlight
<1>7. CASE At(b, "ack") /\ pending' = Updated(Target(b), "esp_ack")
  <2>1. Target(b) \in Node
    BY <1>7, ConstantsAssumption DEF Target, HandOK, At
  <2> QED
    BY <1>1, <1>7, <2>1 DEF Active, InFlight
<1> QED
  BY <1>2, <1>3, <1>4, <1>5, <1>6, <1>7 DEF PendingStep

\* History only grows, and posts only increase.
LEMMA Growth ==
  ASSUME TypeOK, HandOK, NEW b \in Bridge, HistoryStep(b), PostsStep(b), NEW n \in Node
  PROVE  /\ \/ history'[n] = history[n]
            \/ /\ At(b, "set") /\ worker[b].dest = n
               /\ history'[n] = worker[b].goal /\ history'[n] \in Terminal
         /\ history[n] # "absent" => history'[n] # "absent"
         /\ posts'[n] >= posts[n]
         /\ posts[n] > 0 => posts'[n] > 0
         /\ posts'[n] # posts[n] => At(b, "dispatch")
<1>1. worker[b].goal \in Terminal /\ "absent" \notin Terminal
  BY DEF TypeOK, Worker, Terminal
<1>2. posts[n] \in Nat /\ (At(b, "dispatch") => InHand(b) \in Node)
  BY DEF TypeOK, HandOK, At
<1>3. /\ posts'[n] = posts[n] \/ posts'[n] = posts[n] + 1
      /\ posts'[n] # posts[n] => At(b, "dispatch")
  BY <1>2 DEF PostsStep, TypeOK
<1>4. \/ history'[n] = history[n]
      \/ /\ At(b, "set") /\ worker[b].dest = n
         /\ history'[n] = worker[b].goal
  BY DEF HistoryStep, TypeOK, HandOK, At
<1> QED
  BY <1>1, <1>2, <1>3, <1>4

\* The guard's memory and the posted ids change where the code changes them.
GuardStep(b) ==
  \/ worker'[b].pc # "sent" /\ UNCHANGED <<seen, posted>>
  \/ /\ At(b, "validate") /\ worker'[b].pc = "sent"
     /\ seen' = [seen EXCEPT ![b] = @ \cup {CmdId(b)}] /\ UNCHANGED posted
  \/ /\ At(b, "dispatch") /\ worker'[b].pc \in {"ack", "read"} /\ UNCHANGED seen
     /\ posted' = [posted EXCEPT ![b] = @ \cup {CmdId(b)}]
  \/ /\ worker'[b].pc = "poll" /\ seen' = [seen EXCEPT ![b] = {}]
     /\ posted' = [posted EXCEPT ![b] = {}]

LEMMA GuardSteps ==
  ASSUME TypeOK, HandOK, NEW b \in Bridge, BridgeStep(b), TypeOK'
  PROVE  GuardStep(b)
<1> USE DEF GuardStep, device, At
<1>a. worker \in [Bridge -> Worker]
  BY DEF TypeOK
<1>b. worker'[b].pc = "sent" => worker[b].pc = "validate"
  BY ArrivalStep DEF Arrival
<1>c. worker[b].pc # "poll" /\ worker[b].pc # "scan" => InHand(b) \in Node /\ Target(b) \in Node
  BY ConstantsAssumption DEF HandOK, Target
<1>1. CASE Proceed(b)
  <2>1. CASE \/ Poll(b) \/ ScanEnd(b) \/ ScanDuplicate(b) \/ ScanDocument(b) \/ ReadFinal(b)
             \/ DeleteDuplicate(b) \/ Claim(b) \/ RecordSent(b) \/ RecordAck(b)
             \/ SetHistory(b) \/ DeletePending(b)
    BY <1>b, <2>1
       DEF Poll, ScanEnd, ScanDuplicate, ScanDocument, ReadFinal,
                DeleteDuplicate, Claim, RecordSent, RecordAck, SetHistory, DeletePending
  <2>2. CASE Validate(b)
    <3>1. CASE /\ \E status \in {"error", "expired"} : Complete(b, Target(b), status, "end")
               /\ UNCHANGED seen
      BY <2>2, <3>1, <1>a, <1>c, CompleteMoves DEF Validate, Terminal, Origins
    <3>2. CASE Raise(b) /\ UNCHANGED seen
      BY <2>2, <3>2, <1>a, RaiseMoves DEF Validate, Idle
    <3>3. CASE /\ Goto(b, "sent")
               /\ seen' = [seen EXCEPT ![b] = @ \cup {CmdId(b)}]
      BY <2>2, <3>3, <1>a, GotoMoves DEF Validate, Steps
    <3> QED
      BY <2>2, <3>1, <3>2, <3>3 DEF Validate
  <2>3. CASE Dispatch(b)
    BY <2>3, <1>a, GotoMoves DEF Dispatch, Reach, Steps
  <2>4. CASE DispatchFails(b)
    <3>1. InHand(b) \in Node /\ Target(b) \in Node
      BY <2>4, ConstantsAssumption DEF DispatchFails, HandOK, Target
    <3>2. worker'[b].pc = "read"
      BY <2>4, <1>a, <3>1, CompleteMoves DEF DispatchFails, Terminal, Origins
    <3> QED
      BY <1>b, <2>4, <3>2 DEF DispatchFails, Reach
  <2> QED
    BY <1>1, <2>1, <2>2, <2>3, <2>4 DEF Proceed
<1>2. CASE CallFails(b)
  BY <1>b, <1>2 DEF CallFails
<1>3. CASE Crash(b)
  BY <1>3, <1>a, RaiseMoves DEF Crash, Idle
<1> QED
  BY <1>1, <1>2, <1>3 DEF BridgeStep

-----------------------------------------------------------------------------
(* The queue invariant                                                     *)

LEMMA QueueBridgeStep ==
  ASSUME QueueInv, NEW b \in Bridge, BridgeStep(b), TypeOK', HandOK'
  PROVE  QueueInv'
<1> USE DEF At, InHand
<1>a. TypeOK /\ HandOK
  BY DEF QueueInv
<1>b. /\ PendingStep(b) /\ HistoryStep(b) /\ PostsStep(b) /\ subs' = subs
      /\ Alone(b) /\ Arrival(b, worker[b], worker'[b])
      /\ \A n \in Node : PendingEffect(b, n)
  BY <1>a, DataSteps, ArrivalStep, PendingEffects
<1>c. \A n \in Node :
        /\ \/ history'[n] = history[n]
           \/ /\ At(b, "set") /\ worker[b].dest = n
              /\ history'[n] = worker[b].goal /\ history'[n] \in Terminal
        /\ history[n] # "absent" => history'[n] # "absent"
        /\ posts'[n] >= posts[n]
        /\ posts[n] > 0 => posts'[n] > 0
        /\ posts'[n] # posts[n] => At(b, "dispatch")
  BY <1>a, <1>b, Growth
<1>d. \A c \in Bridge : c # b => worker'[c] = worker[c]
  BY <1>b DEF Alone
<1>e. \A c \in Bridge :
        /\ worker[c].pc \notin {"poll", "scan"} => worker[c].node \in Node
        /\ worker[c].pc \in {"read", "set", "del"} => worker[c].dest \in Node
        /\ worker'[c].pc \notin {"poll", "scan"} => worker'[c].node \in Node
        /\ worker'[c].pc \in {"read", "set", "del"} => worker'[c].dest \in Node
  BY <1>a DEF HandOK
<1>1. RecordedFirst'
  <2> SUFFICES ASSUME NEW c \in Bridge
               PROVE  /\ worker'[c].pc = "drop" => history'[worker'[c].node] # "absent"
                      /\ worker'[c].pc = "del" => history'[worker'[c].dest] # "absent"
    BY DEF RecordedFirst
  <2>1. CASE c = b
    <3>1. worker[b].goal \in Terminal /\ "absent" \notin Terminal
      BY <1>a DEF TypeOK, Worker, Terminal
    <3> QED
      BY <1>a, <1>b, <1>e, <2>1, <3>1 DEF Arrival, TypeOK
  <2>2. CASE c # b
    BY <1>c, <1>d, <1>e, <2>2 DEF QueueInv, RecordedFirst
  <2> QED
    BY <2>1, <2>2
<1>2. AskedFor'
  <2>1. \A n \in Node : (pending'[n].status # "absent") \/ history'[n] # "absent" => subs'[n] > 0
    BY <1>b, <1>c DEF QueueInv, AskedFor, PendingEffect, Exists
  <2>2. ASSUME NEW c \in Bridge, worker'[c].pc = "set"
        PROVE  subs'[worker'[c].dest] > 0
    <3>1. CASE c = b
      BY <1>b, <1>e, <2>2, <3>1 DEF QueueInv, AskedFor, Arrival
    <3>2. CASE c # b
      BY <1>b, <1>d, <2>2, <3>2 DEF QueueInv, AskedFor
    <3> QED
      BY <3>1, <3>2
  <2> QED
    BY <2>1, <2>2 DEF AskedFor, Exists
<1>3. NeverLost'
  <2> SUFFICES ASSUME NEW n \in Node, subs[n] > 0
               PROVE  (pending'[n].status # "absent") \/ history'[n] # "absent"
    BY <1>b DEF NeverLost, Exists
  <2>1. (pending[n].status # "absent") \/ history[n] # "absent"
    BY DEF QueueInv, NeverLost, Exists
  <2>2. CASE pending'[n].status = "absent" /\ pending[n].status # "absent"
    BY <1>b, <1>c, <2>2 DEF QueueInv, RecordedFirst, PendingEffect
  <2> QED
    BY <1>c, <2>1, <2>2
<1>4. PostedFirst'
  <2> SUFFICES ASSUME NEW c \in Bridge
               PROVE  /\ worker'[c].pc = "ack" => DryRun \/ posts'[worker'[c].node] > 0
                      /\ worker'[c].pc \in {"read", "set", "del"} /\ worker'[c].goal = "done"
                           => DryRun \/ \E m \in Addressed(worker'[c].dest) : posts'[m] > 0
    BY DEF PostedFirst, Addressed
  <2>1. CASE c = b
    <3>1. worker'[b].pc = "ack" => DryRun \/ posts'[worker'[b].node] > 0
      BY <1>a, <1>b, <1>e DEF Arrival, TypeOK
    <3>2. ASSUME worker'[b].pc = "read", worker'[b].goal = "done"
          PROVE  DryRun \/ \E m \in Addressed(worker'[b].dest) : posts'[m] > 0
      <4>1. /\ worker[b].pc = "ack" /\ worker'[b].dest = Addr[worker[b].node]
            /\ worker[b].node \in Addressed(worker'[b].dest)
        BY <1>b, <1>e, <3>2 DEF Arrival, Addressed
      <4>2. DryRun \/ posts[worker[b].node] > 0
        BY <4>1 DEF QueueInv, PostedFirst
      <4> QED
        BY <1>c, <1>e, <4>1, <4>2 DEF Addressed
    <3>3. ASSUME worker'[b].pc \in {"set", "del"}, worker'[b].goal = "done"
          PROVE  DryRun \/ \E m \in Addressed(worker'[b].dest) : posts'[m] > 0
      <4>1. /\ worker[b].pc \in {"read", "set"} /\ worker[b].goal = "done"
            /\ worker'[b].dest = worker[b].dest
        BY <1>b, <3>3 DEF Arrival
      <4> QED
        BY <1>c, <4>1 DEF QueueInv, PostedFirst, Addressed
    <3> QED
      BY <2>1, <3>1, <3>2, <3>3
  <2>2. CASE c # b
    BY <1>c, <1>d, <1>e, <2>2 DEF QueueInv, PostedFirst, Addressed
  <2> QED
    BY <2>1, <2>2
<1>5. AcknowledgedMeansPosted'
  <2> SUFFICES ASSUME NEW n \in Node, (pending'[n].status = "esp_ack") \/ history'[n] = "done"
               PROVE  DryRun \/ \E m \in Addressed(n) : posts'[m] > 0
    BY DEF AcknowledgedMeansPosted, Addressed
  <2>1. CASE pending[n].status = "esp_ack" \/ history[n] = "done"
    BY <1>c, <2>1 DEF QueueInv, AcknowledgedMeansPosted, Addressed
  <2>2. CASE pending[n].status # "esp_ack" /\ pending'[n].status = "esp_ack"
    <3>1. At(b, "ack") /\ worker[b].node \in Addressed(n)
      BY <1>b, <1>e, <2>2 DEF PendingEffect, Target, Addressed
    <3> QED
      BY <1>c, <3>1 DEF QueueInv, PostedFirst, Addressed
  <2>3. CASE history[n] # "done" /\ history'[n] = "done"
    BY <1>c, <2>3 DEF QueueInv, PostedFirst, Addressed
  <2> QED
    BY <2>1, <2>2, <2>3
<1>6. DryRunStopsShort' /\ DryRunPostsNothing'
  <2>1. DryRunStopsShort'
    BY <1>b, <1>d DEF QueueInv, DryRunStopsShort, Arrival
  <2>2. DryRunPostsNothing'
    BY <1>c DEF QueueInv, DryRunStopsShort, DryRunPostsNothing
  <2> QED
    BY <2>1, <2>2
<1>7. GuardKnows'
  <2>a. GuardStep(b)
    BY <1>a, GuardSteps
  <2> SUFFICES ASSUME NEW c \in Bridge
               PROVE  /\ posted'[c] \subseteq seen'[c]
                      /\ worker'[c].pc \in {"sent", "dispatch"}
                           => IdOf[Addr[worker'[c].node]] \in seen'[c] \ posted'[c]
    BY DEF GuardKnows, CmdId, Target
  <2>b. /\ posted[c] \subseteq seen[c]
        /\ worker[c].pc \in {"sent", "dispatch"} => IdOf[Addr[worker[c].node]] \in seen[c] \ posted[c]
    BY DEF QueueInv, GuardKnows, CmdId, Target
  <2>c. posted \in [Bridge -> SUBSET Id] /\ seen \in [Bridge -> SUBSET Id]
    BY <1>a DEF TypeOK
  <2>1. CASE c # b
    BY <1>d, <2>a, <2>b, <2>c, <2>1 DEF GuardStep
  <2>2. CASE c = b /\ worker'[b].pc # "sent" /\ UNCHANGED <<seen, posted>>
    BY <1>b, <2>b, <2>2 DEF Arrival, CmdId, Target
  <2>3. CASE /\ c = b /\ At(b, "validate") /\ worker'[b].pc = "sent"
             /\ seen' = [seen EXCEPT ![b] = @ \cup {CmdId(b)}] /\ UNCHANGED posted
    <3>1. worker[b].node = worker'[b].node /\ CmdId(b) \notin seen[b]
      BY <1>b, <2>3 DEF Arrival
    <3>2. seen'[b] = seen[b] \cup {CmdId(b)} /\ posted'[b] = posted[b]
      BY <2>c, <2>3
    <3> QED
      BY <2>b, <2>3, <3>1, <3>2 DEF CmdId, Target
  <2>4. CASE /\ c = b /\ At(b, "dispatch") /\ worker'[b].pc \in {"ack", "read"} /\ UNCHANGED seen
             /\ posted' = [posted EXCEPT ![b] = @ \cup {CmdId(b)}]
    <3>1. CmdId(b) \in seen[b]
      BY <2>b, <2>4 DEF CmdId, Target
    <3> QED
      BY <2>b, <2>c, <2>4, <3>1
  <2>5. CASE /\ c = b /\ worker'[b].pc = "poll" /\ seen' = [seen EXCEPT ![b] = {}]
             /\ posted' = [posted EXCEPT ![b] = {}]
    BY <2>c, <2>5
  <2> QED
    BY <2>a, <2>1, <2>2, <2>3, <2>4, <2>5 DEF GuardStep
<1> QED
  BY <1>1, <1>2, <1>3, <1>4, <1>5, <1>6, <1>7 DEF QueueInv

Outside(n) == Submit(n) \/ QueueDeadline(n) \/ GuardDeadline(n) \/ GoStale(n)

\* What the app and the clock do to one document.
LEMMA OutsideEffect ==
  ASSUME TypeOK, NEW n \in Node, Outside(n)
  PROVE  /\ UNCHANGED <<history, worker, seen, device>>
         /\ \A m \in Node :
              \/ pending'[m] = pending[m] /\ subs'[m] = subs[m]
              \/ pending'[m] = Fresh /\ subs'[m] = subs[m] + 1
              \/ /\ pending[m].status \in InFlight /\ subs'[m] = subs[m]
                 /\ pending'[m].status = pending[m].status
                 /\ pending'[m].by = pending[m].by
<1> USE DEF TypeOK, db, env
<1>1. CASE Submit(n)
  BY <1>1 DEF Submit
<1>2. CASE QueueDeadline(n) \/ GuardDeadline(n)
  BY <1>2 DEF QueueDeadline, GuardDeadline
<1>3. CASE GoStale(n)
  BY <1>3 DEF GoStale, Doc
<1> QED
  BY <1>1, <1>2, <1>3 DEF Outside

LEMMA QueueOutsideStep ==
  ASSUME QueueInv, NEW n \in Node, Outside(n), TypeOK', HandOK'
  PROVE  QueueInv'
<1> USE DEF At, InHand, Exists
<1>a. TypeOK /\ HandOK
  BY DEF QueueInv
<1>b. /\ UNCHANGED <<history, worker, seen, posts, posted>>
      /\ \A m \in Node :
           \/ pending'[m] = pending[m] /\ subs'[m] = subs[m]
           \/ pending'[m] = Fresh /\ subs'[m] = subs[m] + 1
           \/ /\ pending[m].status \in InFlight /\ subs'[m] = subs[m]
              /\ pending'[m].status = pending[m].status
  BY <1>a, OutsideEffect DEF device
<1>c. \A m \in Node : subs[m] \in Nat /\ subs'[m] >= subs[m]
  BY <1>a, <1>b DEF TypeOK
<1>1. RecordedFirst' /\ PostedFirst' /\ GuardKnows' /\ DryRunStopsShort' /\ DryRunPostsNothing'
  BY <1>b DEF QueueInv, RecordedFirst, PostedFirst, Addressed, GuardKnows, CmdId, Target,
              DryRunStopsShort, DryRunPostsNothing
<1>2. AskedFor'
  <2>1. \A m \in Node : Exists(m)' \/ history'[m] # "absent" => subs'[m] > 0
    BY <1>b, <1>c DEF QueueInv, AskedFor, InFlight
  <2>2. \A c \in Bridge : worker[c].pc = "set" => worker[c].dest \in Node /\ subs[worker[c].dest] > 0
    BY <1>a DEF QueueInv, AskedFor, HandOK
  <2>3. \A c \in Bridge : worker'[c].pc = "set" => subs'[worker'[c].dest] > 0
    BY <1>b, <1>c, <2>2
  <2> QED
    BY <2>1, <2>3 DEF AskedFor
<1>3. NeverLost'
  BY <1>b DEF QueueInv, NeverLost, Fresh
<1>4. AcknowledgedMeansPosted'
  BY <1>b DEF QueueInv, AcknowledgedMeansPosted, Addressed, Fresh
<1> QED
  BY <1>1, <1>2, <1>3, <1>4 DEF QueueInv

LEMMA NextSplit ==
  ASSUME [Next]_vars
  PROVE  \/ UNCHANGED vars
         \/ \E n \in Node : Outside(n)
         \/ \E b \in Bridge : BridgeStep(b)
BY DEF Next, Outside, BridgeStep

LEMMA QueueInit == Init => QueueInv
<1> SUFFICES ASSUME Init PROVE QueueInv
  OBVIOUS
<1>1. AtQueue("g1").pc = "poll"
  BY DEF AtQueue
<1> QED
  BY <1>1, TypeInit
  DEF Init, QueueInv, RecordedFirst, AskedFor, NeverLost, PostedFirst,
      AcknowledgedMeansPosted, GuardKnows, DryRunStopsShort, DryRunPostsNothing,
      Exists, NoDoc, At

LEMMA QueueStep == QueueInv /\ [Next]_vars => QueueInv'
<1> SUFFICES ASSUME QueueInv, [Next]_vars PROVE QueueInv'
  OBVIOUS
<1>1. TypeOK' /\ HandOK'
  BY TypeStep DEF QueueInv
<1>2. CASE UNCHANGED vars
  BY <1>1, <1>2
  DEF vars, db, clock, device, env, QueueInv, RecordedFirst, AskedFor, NeverLost,
      PostedFirst, AcknowledgedMeansPosted, Addressed, GuardKnows, DryRunStopsShort,
      DryRunPostsNothing, Exists, At, InHand, CmdId, Target
<1> QED
  BY <1>1, <1>2, NextSplit, QueueOutsideStep, QueueBridgeStep

\* The inductive invariant behind the safety properties: what a worker is about to
\* do agrees with what the database, the guard and the devices have seen.
THEOREM QueueInvariant == Spec => []QueueInv
BY QueueInit, QueueStep, PTL DEF Spec

\* A command the app wrote is never lost, whatever fails or crashes and however
\* many bridges serve the queue.
THEOREM CommandNeverLost == Spec => []NeverLost
<1>1. QueueInv => NeverLost
  BY DEF QueueInv
<1> QED
  BY <1>1, QueueInvariant, PTL

\* "esp_ack" and "done" stand for a command that reached an ESP32.
THEOREM AcknowledgementIsTrue == Spec => []AcknowledgedMeansPosted
<1>1. QueueInv => AcknowledgedMeansPosted
  BY DEF QueueInv
<1> QED
  BY <1>1, QueueInvariant, PTL

\* One run of a bridge posts no command id twice.
THEOREM PostedOncePerRun == Spec => []OncePerRun
<1>1. QueueInv => OncePerRun
  BY DEF QueueInv, GuardKnows, OncePerRun, At
<1> QED
  BY <1>1, QueueInvariant, PTL

\* A dry run sends nothing to an ESP32.
THEOREM DryRunIsDry == Spec => []DryRunPostsNothing
<1>1. QueueInv => DryRunPostsNothing
  BY DEF QueueInv
<1> QED
  BY <1>1, QueueInvariant, PTL

-----------------------------------------------------------------------------
(* Every post is paid for by a submission                                  *)

LEMMA HoldersFinite ==
  ASSUME NEW n \in Node
  PROVE  IsFiniteSet(Holders(n)) /\ Cardinality(Holders(n)) \in Nat
<1>1. Holders(n) \in SUBSET Bridge
  BY DEF Holders
<1>2. IsFiniteSet(Holders(n))
  BY <1>1, ConstantsAssumption, FS_Subset
<1> QED
  BY <1>2, FS_CardinalityType

\* A bridge comes to hold n only by claiming it while it waits, and lets go of it
\* when it posts.
LEMMA HolderChange ==
  ASSUME QueueInv, ClaimOpen, NEW b \in Bridge, BridgeStep(b), TypeOK', NEW n \in Node
  PROVE  /\ b \in Holders(n)' /\ b \notin Holders(n)
              => /\ posts'[n] = posts[n]
                 /\ pending[n].status = "pending"
                 /\ pending'[n].status = "processing"
         /\ posts'[n] # posts[n]
              => b \in Holders(n) /\ b \notin Holders(n)' /\ posts'[n] = posts[n] + 1
         /\ \A c \in Bridge : c # b => (c \in Holders(n)' <=> c \in Holders(n))
         /\ pending'[n].status = "pending" => pending[n].status = "pending"
<1> USE DEF At, InHand
<1>a. /\ TypeOK /\ HandOK /\ Alone(b) /\ Arrival(b, worker[b], worker'[b])
      /\ PendingEffect(b, n) /\ PostsStep(b) /\ posts[n] \in Nat
  BY ArrivalStep, DataSteps, PendingEffects DEF QueueInv, TypeOK
<1>1. ASSUME b \in Holders(n)', b \notin Holders(n)
      PROVE  /\ posts'[n] = posts[n]
             /\ pending[n].status = "pending"
             /\ pending'[n].status = "processing"
  <2>1. worker'[b].pc = "validate" /\ worker[b].pc = "claim" /\ worker[b].node = n
    BY <1>a, <1>1 DEF Holders, Arrival
  <2>2. posts'[n] = posts[n]
    BY <1>a, <2>1 DEF PostsStep
  <2>3. pending[n].status = "pending"
    BY <1>a, <2>1 DEF Arrival, ClaimOpen
  <2>4. pending' = [pending EXCEPT ![n] =
                      [status |-> "processing", by |-> Name[b], stale |-> FALSE]]
    BY <1>a, <2>1, <2>3 DEF Arrival, Claimed
  <2>5. pending'[n].status = "processing"
    BY <1>a, <2>4 DEF TypeOK
  <2> QED
    BY <2>2, <2>3, <2>5
<1>2. ASSUME posts'[n] # posts[n]
      PROVE  b \in Holders(n) /\ b \notin Holders(n)' /\ posts'[n] = posts[n] + 1
  <2>1. worker[b].pc = "dispatch" /\ worker[b].node = n /\ posts'[n] = posts[n] + 1
    BY <1>a, <1>2 DEF PostsStep, HandOK, TypeOK
  <2>2. worker'[b].pc \notin {"validate", "sent", "dispatch"}
    BY <1>a, <2>1 DEF Arrival
  <2> QED
    BY <2>1, <2>2 DEF Holders
<1>3. \A c \in Bridge : c # b => (c \in Holders(n)' <=> c \in Holders(n))
  BY <1>a DEF Alone, Holders
<1>4. pending'[n].status = "pending" => pending[n].status = "pending"
  BY <1>a DEF PendingEffect
<1> QED
  BY <1>1, <1>2, <1>3, <1>4

LEMMA TicketsBridgeStep ==
  ASSUME QueueInv, ClaimOpen, Tickets, NEW b \in Bridge, BridgeStep(b), TypeOK'
  PROVE  Tickets'
<1> SUFFICES ASSUME NEW n \in Node
             PROVE  posts'[n] + Cardinality(Holders(n)') + Waiting(n)' <= subs'[n]
  BY DEF Tickets
<1> DEFINE H == Holders(n)
           G == Holders(n)'
<1>a. posts[n] + Cardinality(H) + Waiting(n) <= subs[n]
  BY DEF Tickets
<1>b. subs' = subs /\ subs[n] \in Nat /\ posts[n] \in Nat
  BY DataSteps DEF QueueInv, TypeOK
<1>c. IsFiniteSet(H) /\ Cardinality(H) \in Nat
  BY HoldersFinite
<1>d. Waiting(n) \in {0, 1} /\ Waiting(n)' \in {0, 1} /\ Waiting(n)' <= Waiting(n)
  BY HolderChange DEF Waiting
<1>e. H \subseteq Bridge /\ G \subseteq Bridge
  BY DEF Holders
<1>f. \A c \in Bridge : c # b => (c \in G <=> c \in H)
  BY HolderChange
<1>1. CASE b \in G /\ b \notin H
  <2>1. posts'[n] = posts[n] /\ Waiting(n) = 1 /\ Waiting(n)' = 0
    BY <1>1, HolderChange DEF Waiting
  <2>2. G = H \cup {b}
    BY <1>1, <1>e, <1>f
  <2>3. Cardinality(G) = Cardinality(H) + 1
    BY <1>1, <1>c, <2>2, FS_AddElement
  <2> QED
    BY <1>a, <1>b, <1>c, <2>1, <2>3
<1>2. CASE posts'[n] # posts[n]
  <2>1. b \in H /\ b \notin G /\ posts'[n] = posts[n] + 1
    BY <1>2, HolderChange
  <2>2. G = H \ {b}
    BY <1>e, <1>f, <2>1
  <2>3. Cardinality(G) = Cardinality(H) - 1
    BY <1>c, <2>1, <2>2, FS_RemoveElement
  <2> QED
    BY <1>a, <1>b, <1>c, <1>d, <2>1, <2>3
<1>3. CASE posts'[n] = posts[n] /\ ~(b \in G /\ b \notin H)
  <2>1. G \in SUBSET H
    BY <1>3, <1>e, <1>f
  <2>2. Cardinality(G) <= Cardinality(H) /\ Cardinality(G) \in Nat
    BY <1>c, <2>1, FS_Subset, FS_CardinalityType
  <2> QED
    BY <1>a, <1>b, <1>c, <1>d, <1>3, <2>2
<1> QED
  BY <1>1, <1>2, <1>3

LEMMA ClaimOpenBridgeStep ==
  ASSUME DistinctNames, QueueInv, ClaimOpen, NEW b \in Bridge, BridgeStep(b), TypeOK', HandOK'
  PROVE  ClaimOpen'
<1> USE DEF At, InHand
<1>a. /\ TypeOK /\ HandOK /\ Alone(b) /\ Arrival(b, worker[b], worker'[b])
      /\ \A n \in Node : PendingEffect(b, n)
  BY ArrivalStep, DataSteps, PendingEffects DEF QueueInv
<1>1. ASSUME NEW c \in Bridge, worker'[c].pc = "claim"
      PROVE  worker'[c].plan[worker'[c].node] = "claim"
  BY <1>a, <1>1 DEF Arrival, Alone, ClaimOpen
<1>2. ASSUME NEW c \in Bridge, NEW n \in Node,
             worker'[c].plan[n] = "claim", pending'[n].status = "processing"
      PROVE  pending'[n].by # Name[c]
  <2>a. PendingEffect(b, n)
    BY <1>a
  <2>1. CASE pending'[n] = pending[n]
    <3>1. worker[c].plan[n] = "claim"
      BY <1>a, <1>2, <2>1 DEF Arrival, Alone
    <3> QED
      BY <1>2, <2>1, <3>1 DEF ClaimOpen
  <2>2. CASE /\ At(b, "claim") /\ InHand(b) = n /\ pending[n].status = "pending"
             /\ pending'[n].status = "processing" /\ pending'[n].by = Name[b]
    <3>1. c # b
      BY <1>a, <1>2, <2>2 DEF Arrival
    <3> QED
      BY <2>2, <3>1 DEF DistinctNames
  <2> QED
    BY <1>2, <2>a, <2>1, <2>2 DEF PendingEffect
<1> QED
  BY <1>1, <1>2 DEF ClaimOpen

LEMMA TicketOutsideStep ==
  ASSUME QueueInv, TicketInv, NEW n \in Node, Outside(n)
  PROVE  TicketInv'
<1>a. /\ UNCHANGED <<worker, posts>>
      /\ \A m \in Node :
           \/ pending'[m] = pending[m] /\ subs'[m] = subs[m]
           \/ pending'[m] = Fresh /\ subs'[m] = subs[m] + 1
           \/ /\ pending[m].status \in InFlight /\ subs'[m] = subs[m]
              /\ pending'[m].status = pending[m].status
              /\ pending'[m].by = pending[m].by
  BY OutsideEffect DEF QueueInv, device
<1>1. ClaimOpen'
  <2>1. \A m \in Node : pending'[m].status = "processing" =>
          pending[m].status = "processing" /\ pending'[m].by = pending[m].by
    BY <1>a DEF Fresh
  <2> QED
    BY <1>a, <2>1 DEF TicketInv, ClaimOpen, At, InHand
<1>2. Tickets'
  <2> SUFFICES ASSUME NEW m \in Node
               PROVE  posts'[m] + Cardinality(Holders(m)') + Waiting(m)' <= subs'[m]
    BY DEF Tickets
  <2>1. Holders(m)' = Holders(m) /\ posts'[m] = posts[m]
    BY <1>a DEF Holders, InHand
  <2>2. posts[m] + Cardinality(Holders(m)) + Waiting(m) <= subs[m]
    BY DEF TicketInv, Tickets
  <2>3. posts[m] \in Nat /\ subs[m] \in Nat /\ Cardinality(Holders(m)) \in Nat
    BY HoldersFinite DEF QueueInv, TypeOK
  <2>4. Waiting(m) \in {0, 1} /\ Waiting(m)' \in {0, 1}
    BY DEF Waiting
  <2>5. \/ subs'[m] = subs[m] /\ Waiting(m)' = Waiting(m)
        \/ subs'[m] = subs[m] + 1
    BY <1>a DEF Waiting, InFlight
  <2> QED
    BY <2>1, <2>2, <2>3, <2>4, <2>5
<1> QED
  BY <1>1, <1>2 DEF TicketInv

LEMMA TicketInit == Init => TicketInv
<1> SUFFICES ASSUME Init PROVE TicketInv
  OBVIOUS
<1>1. AtQueue("g1").pc = "poll" /\ AtQueue("g1").plan = NoPlan
  BY DEF AtQueue
<1>2. ClaimOpen
  BY <1>1 DEF Init, ClaimOpen, At, NoDoc
<1>3. \A n \in Node : Holders(n) = {}
  BY <1>1 DEF Init, Holders
<1>4. Tickets
  <2> SUFFICES ASSUME NEW n \in Node
               PROVE  posts[n] + Cardinality(Holders(n)) + Waiting(n) <= subs[n]
    BY DEF Tickets
  <2>1. Cardinality(Holders(n)) = 0
    BY <1>3, FS_EmptySet
  <2>2. posts[n] = 0 /\ subs[n] = 0 /\ Waiting(n) = 0
    BY DEF Init, Waiting, NoDoc
  <2> QED
    BY <2>1, <2>2
<1> QED
  BY <1>2, <1>4 DEF TicketInv

LEMMA TicketStep ==
  ASSUME DistinctNames
  PROVE  QueueInv /\ TicketInv /\ [Next]_vars => TicketInv'
<1> SUFFICES ASSUME QueueInv, TicketInv, [Next]_vars PROVE TicketInv'
  OBVIOUS
<1>1. TypeOK' /\ HandOK'
  BY TypeStep DEF QueueInv
<1>2. CASE UNCHANGED vars
  BY <1>2 DEF vars, db, device, env, TicketInv, ClaimOpen, Tickets, Holders, Waiting,
              At, InHand
<1>3. ASSUME NEW b \in Bridge, BridgeStep(b)
      PROVE  TicketInv'
  BY <1>1, <1>3, ClaimOpenBridgeStep, TicketsBridgeStep DEF TicketInv
<1> QED
  BY <1>2, <1>3, NextSplit, TicketOutsideStep

\* Bridges with names of their own post a command at most once for each time the
\* app asked for it: across failed calls, crashes, repeated writes and documents
\* that name another node.
THEOREM PostedOncePerSubmission ==
  ASSUME DistinctNames
  PROVE  Spec => []PostsWithinSubmissions
<1>1. QueueInv /\ TicketInv => PostsWithinSubmissions
  <2> SUFFICES ASSUME QueueInv, TicketInv, NEW n \in Node
               PROVE  posts[n] <= subs[n]
    BY DEF PostsWithinSubmissions
  <2>1. posts[n] \in Nat /\ subs[n] \in Nat /\ Cardinality(Holders(n)) \in Nat
    BY HoldersFinite DEF QueueInv, TypeOK
  <2>2. Waiting(n) \in {0, 1}
    BY DEF Waiting
  <2>3. posts[n] + Cardinality(Holders(n)) + Waiting(n) <= subs[n]
    BY DEF TicketInv, Tickets
  <2> QED
    BY <2>1, <2>2, <2>3
<1>2. QueueInv /\ TicketInv /\ [Next]_vars => TicketInv'
  BY TicketStep
<1> QED
  BY <1>1, <1>2, QueueInit, QueueStep, TicketInit, PTL DEF Spec

-----------------------------------------------------------------------------
(* The bridge implements the contract                                      *)

OpenNodes == {n \in Node : Exists(n)}

\* A document leaves the open queue by an erasing write only.
LEMMA OpenEffect ==
  ASSUME QueueInv, NEW b \in Bridge, BridgeStep(b)
  PROVE  \/ OpenNodes' = OpenNodes
         \/ \E n \in Node : /\ history[n] # "absent"
                            /\ worker[b].pc \in {"drop", "del"}
                            /\ OpenNodes' = OpenNodes \ {n}
<1> USE DEF At, InHand, OpenNodes, Exists
<1>a. /\ TypeOK /\ HandOK /\ PendingStep(b)
      /\ \A n \in Node : PendingEffect(b, n)
  BY DataSteps, PendingEffects DEF QueueInv
<1>1. ASSUME NEW n \in Node, worker[b].pc \in {"drop", "del"}, history[n] # "absent",
             pending' = Erased(n)
      PROVE  OpenNodes' = OpenNodes \ {n}
  BY <1>a, <1>1 DEF Erased, NoDoc, TypeOK
<1>2. CASE worker[b].pc = "drop" /\ pending' = Erased(worker[b].node)
  BY <1>a, <1>1, <1>2 DEF QueueInv, HandOK, RecordedFirst
<1>3. CASE worker[b].pc = "del" /\ pending' = Erased(worker[b].dest)
  BY <1>a, <1>1, <1>3 DEF QueueInv, HandOK, RecordedFirst
<1>4. CASE UNCHANGED pending
  BY <1>4
<1>5. CASE worker[b].pc \in {"claim", "sent", "ack"}
  <2>1. \A n \in Node : pending'[n].status # "absent" <=> pending[n].status # "absent"
    BY <1>a, <1>5 DEF PendingEffect
  <2> QED
    BY <2>1
<1> QED
  BY <1>a, <1>2, <1>3, <1>4, <1>5 DEF PendingStep

LEMMA ContractBridgeStep ==
  ASSUME QueueInv, TicketInv, NEW b \in Bridge, BridgeStep(b)
  PROVE  Contract!Next \/ UNCHANGED Contract!cvars
<1> USE DEF At, InHand, Contract!cvars
<1>a. /\ TypeOK /\ HandOK /\ HistoryStep(b) /\ PostsStep(b) /\ subs' = subs
  BY DataSteps DEF QueueInv
<1>b. \/ OpenNodes' = OpenNodes
      \/ \E n \in Node : /\ history[n] # "absent"
                         /\ worker[b].pc \in {"drop", "del"}
                         /\ OpenNodes' = OpenNodes \ {n}
  BY OpenEffect
<1>1. CASE UNCHANGED <<OpenNodes, history, posts>>
  BY <1>a, <1>1 DEF OpenNodes
<1>2. CASE OpenNodes' # OpenNodes
  <2>1. PICK n \in Node : /\ history[n] # "absent"
                          /\ worker[b].pc \in {"drop", "del"}
                          /\ OpenNodes' = OpenNodes \ {n}
    BY <1>b, <1>2
  <2>2. history' = history /\ posts' = posts
    BY <1>a, <2>1 DEF HistoryStep, PostsStep
  <2>3. Contract!Close(n)
    BY <1>a, <2>1, <2>2 DEF Contract!Close, OpenNodes
  <2> QED
    BY <2>3 DEF Contract!Next
<1>3. CASE OpenNodes' = OpenNodes /\ history' # history
  <2> DEFINE n == worker[b].dest
             r == worker[b].goal
  <2>1. /\ worker[b].pc = "set" /\ n \in Node
        /\ history' = [history EXCEPT ![n] = r] /\ r \in Contract!Results
    BY <1>a, <1>3 DEF HistoryStep, HandOK, TypeOK, Worker, Terminal, Contract!Results
  <2>2. n \in OpenNodes \/ history[n] # "absent"
    BY <2>1 DEF QueueInv, AskedFor, NeverLost, OpenNodes
  <2>3. r = "done" => DryRun \/ \E m \in Node : Addr[m] = n /\ posts[m] > 0
    BY <2>1 DEF QueueInv, PostedFirst, Addressed
  <2>4. posts' = posts
    BY <1>a, <2>1 DEF PostsStep
  <2>5. Contract!Record(n, r)
    BY <1>a, <1>3, <2>1, <2>2, <2>3, <2>4 DEF Contract!Record, OpenNodes
  <2> QED
    BY <2>1, <2>5 DEF Contract!Next
<1>4. CASE OpenNodes' = OpenNodes /\ posts' # posts
  <2> DEFINE n == worker[b].node
  <2>1. /\ worker[b].pc = "dispatch" /\ n \in Node
        /\ posts' = [posts EXCEPT ![n] = @ + 1]
    BY <1>a, <1>4 DEF PostsStep, HandOK
  <2>2. ~DryRun
    BY <2>1 DEF QueueInv, DryRunStopsShort
  <2>3. posts[n] < subs[n]
    <3>1. b \in Holders(n)
      BY <2>1 DEF Holders
    <3>2. IsFiniteSet(Holders(n)) /\ Cardinality(Holders(n)) \in Nat
      BY <2>1, HoldersFinite
    <3>3. Cardinality(Holders(n)) # 0
      BY <3>1, <3>2, FS_EmptySet
    <3>4. posts[n] + Cardinality(Holders(n)) + Waiting(n) <= subs[n]
      BY <2>1 DEF TicketInv, Tickets
    <3>5. posts[n] \in Nat /\ subs[n] \in Nat /\ Waiting(n) \in {0, 1}
      BY <1>a, <2>1 DEF TypeOK, Waiting
    <3> QED
      BY <3>2, <3>3, <3>4, <3>5
  <2>4. history' = history
    BY <1>a, <2>1 DEF HistoryStep
  <2>5. Contract!Post(n)
    BY <1>a, <1>4, <2>1, <2>2, <2>3, <2>4 DEF Contract!Post, OpenNodes
  <2> QED
    BY <2>1, <2>5 DEF Contract!Next
<1> QED
  BY <1>1, <1>2, <1>3, <1>4

LEMMA ContractOutsideStep ==
  ASSUME QueueInv, NEW n \in Node, Outside(n)
  PROVE  Contract!Next \/ UNCHANGED Contract!cvars
<1> USE DEF Contract!cvars, Exists
<1>1. CASE Submit(n)
  <2>1. OpenNodes' = OpenNodes \cup {n}
    BY <1>1 DEF Submit, OpenNodes, Fresh, QueueInv, TypeOK
  <2>2. Contract!Ask(n)
    BY <1>1, <2>1 DEF Contract!Ask, Submit, OpenNodes, device
  <2> QED
    BY <2>2 DEF Contract!Next
<1>2. CASE QueueDeadline(n) \/ GuardDeadline(n)
  BY <1>2 DEF QueueDeadline, GuardDeadline, db, device, env
<1>3. CASE GoStale(n)
  <2>1. OpenNodes' = OpenNodes
    BY <1>3 DEF GoStale, OpenNodes, QueueInv, TypeOK, Doc
  <2> QED
    BY <1>3, <2>1 DEF GoStale, OpenNodes, device, env
<1> QED
  BY <1>1, <1>2, <1>3 DEF Outside

\* The queue with all its failures, crashes and repeated writes implements
\* CommandContract: posts are paid for by submissions, "done" is true, a result
\* stays on record, and only recorded commands leave the queue.
THEOREM ContractKept ==
  ASSUME DistinctNames
  PROVE  Spec => KeepsContract
<1>1. Init => Contract!Init
  BY DEF Init, Contract!Init, Exists, NoDoc
<1>2. QueueInv /\ TicketInv /\ [Next]_vars => [Contract!Next]_(Contract!cvars)
  <2> SUFFICES ASSUME QueueInv, TicketInv, [Next]_vars
               PROVE  Contract!Next \/ UNCHANGED Contract!cvars
    OBVIOUS
  <2>1. CASE UNCHANGED vars
    BY <2>1 DEF vars, db, device, env, Contract!cvars, Exists
  <2> QED
    BY <2>1, NextSplit, ContractBridgeStep, ContractOutsideStep
<1>3. QueueInv /\ TicketInv /\ [Next]_vars => TicketInv'
  BY TicketStep
<1> QED
  BY <1>1, <1>2, <1>3, QueueInit, QueueStep, TicketInit, PTL
  DEF Spec, KeepsContract, Contract!Spec
=============================================================================
