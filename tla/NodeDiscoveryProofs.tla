--------------------------- MODULE NodeDiscoveryProofs ---------------------------
(* Proofs about NodeDiscovery, for every instance of its constants.               *)
EXTENDS NodeDiscovery, TLAPS

\* The addresses that may be remembered.
Own == {base, NoAddress} \cup lived

\* The addresses that threads will remember are the node's too; what they probe need not be.
NodeInv ==
  /\ TypeOK
  /\ nodeAt \in lived \cup {NoAddress}
  /\ resolved \in Own
  /\ \A t \in Thread : thread[t].pc \in {"ask", "confirm", "adopt"} => thread[t].at \in Own

LEMMA IdleType == Idle \in Threads /\ Idle.pc = "idle" /\ NoNode \in Node
<1>1. NoNode \in Node
  BY DEF NoNode, Node
<1> QED
  BY <1>1 DEF Idle, Threads, Steps, Place

LEMMA InvInit == Init => NodeInv
<1> SUFFICES ASSUME Init PROVE NodeInv
  OBVIOUS
<1>1. TypeOK
  BY IdleType, DiscoveryAssumption DEF Init, TypeOK, Place
<1> QED
  BY <1>1, IdleType, DiscoveryAssumption DEF Init, NodeInv, Own, Place

\* Steps of the devices, which no thread sees.
LEMMA DeviceStep ==
  ASSUME NodeInv, Move \/ Measure \/ \E h \in House : Report(h)
  PROVE  NodeInv'
<1>1. TypeOK
  BY DEF NodeInv
<1>2. CASE Move
  <2>1. nodeAt' \in Place /\ houseAt' \in [House -> Place] /\ events' \in Nat
    BY <1>1, <1>2, DiscoveryAssumption DEF Move, TypeOK, Event
  <2>2. lived' = lived \cup ({nodeAt'} \ {NoAddress})
    BY <1>2 DEF Move
  <2>3. lived' \subseteq Address /\ lived \subseteq lived' /\ nodeAt' \in lived' \cup {NoAddress}
    BY <1>1, <2>1, <2>2 DEF TypeOK, Place
  <2>4. TypeOK'
    BY <1>1, <1>2, <2>1, <2>3 DEF Move, TypeOK
  <2> QED
    BY <1>2, <2>3, <2>4 DEF NodeInv, Own, Move
<1>3. CASE Measure
  <2>1. TypeOK'
    BY <1>1, <1>3, DiscoveryAssumption DEF Measure, TypeOK, Event
  <2> QED
    BY <1>3, <2>1 DEF NodeInv, Own, Measure
<1>4. CASE \E h \in House : Report(h)
  <2>1. TypeOK'
    BY <1>1, <1>4 DEF Report, TypeOK, devices
  <2> QED
    BY <1>4, <2>1 DEF NodeInv, Own, Report, devices
<1> QED
  BY <1>2, <1>3, <1>4

\* A step of one thread.
LEMMA ThreadStep ==
  ASSUME NodeInv, NEW t \in Thread, NEW k \in Threads, Goes(t, k), Hidden,
         resolved' \in Own, store' \in Node, events' \in Nat,
         k.pc \in {"ask", "confirm", "adopt"} => k.at \in Own
  PROVE  NodeInv'
<1>1. TypeOK
  BY DEF NodeInv
<1>2. resolved' \in Place
  BY <1>1 DEF Own, TypeOK, Place
<1>3. TypeOK'
  BY <1>1, <1>2 DEF TypeOK, Goes, Hidden, devices
<1>4. \A b \in Thread : thread'[b] = IF b = t THEN k ELSE thread[b]
  BY <1>1 DEF TypeOK, Goes
<1> QED
  BY <1>3, <1>4 DEF NodeInv, Own, Hidden, devices

LEMMA EventType == TypeOK /\ (Event \/ UNCHANGED events) => events' \in Nat
BY DEF TypeOK, Event

LEMMA RefreshStep ==
  ASSUME NodeInv, NEW t \in Thread, Refresh(t)
  PROVE  NodeInv'
<1>1. TypeOK /\ store \in Node /\ events \in Nat /\ resolved \in Place
  BY DEF NodeInv, TypeOK
<1> DEFINE excluded == {reported[h] : h \in House} \ {NoAddress}
           pc == IF resolved = NoAddress THEN "search" ELSE "ask"
           k == [Idle EXCEPT !.pc = pc, !.at = resolved, !.excluded = excluded, !.state = store]
<1>2. excluded \subseteq Address
  BY <1>1 DEF TypeOK, Place
<1>3. pc \in Steps
  BY DEF Steps
<1>4. Goes(t, k)
  BY DEF Refresh
<1> HIDE DEF excluded, pc
<1>5. k \in Threads /\ k.at = resolved
  BY <1>1, <1>2, <1>3 DEF Threads, Idle
<1> HIDE DEF k
<1>6. resolved \in Own /\ UNCHANGED <<resolved, store, events>> /\ Hidden
  BY DEF NodeInv, Refresh
<1> QED
  BY <1>1, <1>4, <1>5, <1>6, ThreadStep

LEMMA OfflineType ==
  ASSUME NEW t \in Thread, thread[t] \in Threads
  PROVE  Offline(t) \in Threads /\ Offline(t).pc = "store"
<1>1. thread[t].state \in Node
  BY DEF Threads
<1> DEFINE new == [thread[t].state EXCEPT !.online = FALSE]
<1>2. new \in Node
  BY <1>1 DEF Node
<1>3. Offline(t) = [thread[t] EXCEPT !.pc = "store", !.at = NoAddress, !.state = new]
  BY DEF Offline, Threads
<1> HIDE DEF new
<1> QED
  BY <1>2, <1>3 DEF Threads, Steps, Place

\* A thread with an answer it will remember the address of, or without a useful one.
LEMMA AnswerStep ==
  ASSUME NodeInv, NEW t \in Thread, Ask(t) \/ Confirm(t)
  PROVE  NodeInv'
<1>1. TypeOK /\ thread[t] \in Threads /\ thread[t].state \in Node /\ reading \in Nat
  BY DEF NodeInv, TypeOK, Threads
<1>2. thread[t].at \in Own /\ resolved \in Own
  BY DEF NodeInv, Ask, Confirm, At
<1>3. Hidden /\ store' \in Node
  BY <1>1 DEF Ask, Confirm, TypeOK
<1>4. CASE Take(t)
  <2> DEFINE new == StateFrom(thread[t].at, thread[t].state)
             k == [thread[t] EXCEPT !.pc = "adopt", !.excluded = {}, !.state = new]
  <2>1. new \in Node
    BY <1>1 DEF StateFrom, Probes, Node
  <2>2. Goes(t, k)
    BY <1>1, <1>4 DEF Take
  <2> HIDE DEF new
  <2>3. k \in Threads /\ k.at = thread[t].at
    BY <1>1, <2>1 DEF Threads, Steps
  <2>4. UNCHANGED <<resolved, events>>
    BY <1>4 DEF Take
  <2> HIDE DEF k
  <2> QED
    BY <1>1, <1>2, <1>3, <2>2, <2>3, <2>4, EventType, ThreadStep
<1>5. CASE Useless(t) /\ ~Take(t)
  <2>1. resolved' \in Own /\ events' \in Nat
    BY <1>1, <1>2, <1>5, EventType DEF Useless, Fails, Garbled
  <2> DEFINE k1 == [thread[t] EXCEPT !.pc = "search"]
  <2>2. k1 \in Threads /\ k1.pc = "search"
    BY <1>1 DEF Threads, Steps
  <2>3. Offline(t) \in Threads /\ Offline(t).pc = "store"
    BY <1>1, OfflineType
  <2>4. Goes(t, k1) \/ Goes(t, Offline(t))
    BY <1>5 DEF Ask, Confirm
  <2> HIDE DEF k1
  <2>5. CASE Goes(t, k1)
    BY <1>3, <2>1, <2>2, <2>5, ThreadStep
  <2>6. CASE Goes(t, Offline(t))
    BY <1>3, <2>1, <2>3, <2>6, ThreadStep
  <2> QED
    BY <2>4, <2>5, <2>6
<1> QED
  BY <1>4, <1>5 DEF Ask, Confirm

\* A thread that probes the candidates.
LEMMA SearchStep ==
  ASSUME NodeInv, NEW t \in Thread, Search(t) \/ Probe(t) \/ NotFound(t)
  PROVE  NodeInv'
<1>1. /\ TypeOK /\ thread[t] \in Threads /\ thread[t].left \subseteq Address
      /\ thread[t].excluded \subseteq Address
  BY DEF NodeInv, TypeOK, Threads
<1>2. /\ Hidden /\ UNCHANGED <<resolved, store>> /\ (Event \/ UNCHANGED events)
      /\ store' \in Node
  BY <1>1 DEF Search, Probe, NotFound, Fails, TypeOK
<1>3. resolved' \in Own /\ events' \in Nat
  BY <1>1, <1>2, EventType DEF NodeInv
<1>4. CASE Search(t)
  <2>1. PICK neighbours \in SUBSET Address :
          Goes(t, [thread[t] EXCEPT !.pc = "probe", !.at = NoAddress, !.excluded = {},
                                    !.left = Candidates(thread[t].excluded, neighbours)])
    BY <1>4 DEF Search
  <2> DEFINE left == Candidates(thread[t].excluded, neighbours)
             k == [thread[t] EXCEPT !.pc = "probe", !.at = NoAddress, !.excluded = {}, !.left = left]
  <2>2. left \subseteq Address
    BY <1>1, DiscoveryAssumption DEF Candidates, Scanned, TypeOK, Place
  <2>3. Goes(t, k)
    BY <2>1
  <2> HIDE DEF left
  <2>4. k \in Threads /\ k.pc = "probe"
    BY <1>1, <2>2 DEF Threads, Steps, Place
  <2> HIDE DEF k
  <2> QED
    BY <1>2, <1>3, <2>3, <2>4, ThreadStep
<1>5. CASE Probe(t)
  <2>1. PICK a \in thread[t].left :
          \/ /\ LooksLikeNode(a)
             /\ Goes(t, [thread[t] EXCEPT !.pc = "confirm", !.at = a, !.left = {}])
          \/ Goes(t, [thread[t] EXCEPT !.left = @ \ {a}])
    BY <1>5 DEF Probe
  <2> DEFINE k1 == [thread[t] EXCEPT !.pc = "confirm", !.at = a, !.left = {}]
             k2 == [thread[t] EXCEPT !.left = thread[t].left \ {a}]
  <2>2. a \in Address /\ thread[t].left \ {a} \subseteq Address
    BY <1>1
  <2>3. k1 \in Threads /\ k1.at = a /\ k2 \in Threads /\ k2.pc = "probe"
    BY <1>1, <1>5, <2>2 DEF Threads, Steps, Place, Probe, At
  <2>4. LooksLikeNode(a) => a \in Own
    BY DEF NodeInv, Own, LooksLikeNode
  <2>5. (LooksLikeNode(a) /\ Goes(t, k1)) \/ Goes(t, k2)
    BY <1>1, <2>1 DEF Threads
  <2> HIDE DEF k1, k2
  <2>6. CASE LooksLikeNode(a) /\ Goes(t, k1)
    BY <1>2, <1>3, <2>3, <2>4, <2>6, ThreadStep
  <2>7. CASE Goes(t, k2)
    BY <1>2, <1>3, <2>3, <2>7, ThreadStep
  <2> QED
    BY <2>5, <2>6, <2>7
<1>6. CASE NotFound(t)
  <2>1. Offline(t) \in Threads /\ Offline(t).pc = "store" /\ Goes(t, Offline(t))
    BY <1>1, <1>6, OfflineType DEF NotFound
  <2> QED
    BY <1>2, <1>3, <2>1, ThreadStep
<1> QED
  BY <1>4, <1>5, <1>6

LEMMA KeepStep ==
  ASSUME NodeInv, NEW t \in Thread, Adopt(t) \/ Store(t)
  PROVE  NodeInv'
<1>1. TypeOK /\ thread[t] \in Threads /\ thread[t].state \in Node /\ events \in Nat
  BY DEF NodeInv, TypeOK, Threads
<1>2. CASE Adopt(t)
  <2> DEFINE k == [thread[t] EXCEPT !.pc = "store", !.at = NoAddress]
  <2>1. k \in Threads /\ k.pc = "store"
    BY <1>1 DEF Threads, Steps, Place
  <2>2. Goes(t, k)
    BY <1>2 DEF Adopt
  <2> HIDE DEF k
  <2>3. resolved' \in Own /\ store' \in Node /\ events' \in Nat /\ Hidden
    BY <1>1, <1>2 DEF NodeInv, Adopt, At, TypeOK
  <2> QED
    BY <2>1, <2>2, <2>3, ThreadStep
<1>3. CASE Store(t)
  <2>1. resolved' \in Own /\ store' \in Node /\ events' \in Nat /\ Hidden /\ Goes(t, Idle)
    BY <1>1, <1>3 DEF NodeInv, Store
  <2> QED
    BY <2>1, IdleType, ThreadStep
<1> QED
  BY <1>2, <1>3

LEMMA CrashStep ==
  ASSUME NodeInv, Crash
  PROVE  NodeInv'
<1>1. TypeOK'
  BY IdleType, EventType DEF NodeInv, TypeOK, Crash, devices, Place
<1> QED
  BY <1>1, IdleType DEF NodeInv, Own, Crash, devices

LEMMA InvNext == NodeInv /\ [Next]_vars => NodeInv'
<1> SUFFICES ASSUME NodeInv, [Next]_vars PROVE NodeInv'
  OBVIOUS
<1>1. CASE Move \/ Measure \/ \E h \in House : Report(h)
  BY <1>1, DeviceStep
<1>2. ASSUME NEW t \in Thread, Refresh(t) \/ Proceed(t) PROVE NodeInv'
  BY <1>2, RefreshStep, AnswerStep, SearchStep, KeepStep DEF Proceed
<1>3. CASE Crash
  BY <1>3, CrashStep
<1>4. CASE UNCHANGED vars
  BY <1>4 DEF NodeInv, TypeOK, Own, vars, devices
<1> QED
  BY <1>1, <1>2, <1>3, <1>4 DEF Next

-----------------------------------------------------------------------------
(* The theorems                                                            *)

\* Every variable keeps its type.
THEOREM DiscoveryTypes == Spec => []TypeOK
<1>1. NodeInv => TypeOK
  BY DEF NodeInv
<1> QED
  BY <1>1, InvInit, InvNext, PTL DEF Spec

\* However many threads look for the node with one client, whatever moves and whichever
\* thread writes last: the address it remembers is the configured one or one the node
\* has had (_discover_base_url, refresh).
THEOREM OnlyTheNodeIsAdopted == Spec => []AdoptedWasNode
<1>1. NodeInv => AdoptedWasNode
  BY DEF NodeInv, Own, AdoptedWasNode
<1> QED
  BY <1>1, InvInit, InvNext, PTL DEF Spec
=============================================================================
