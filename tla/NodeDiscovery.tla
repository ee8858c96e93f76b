------------------------------ MODULE NodeDiscovery ------------------------------
(***************************************************************************)
(* How the bridge finds the temperature node.  The client remembers one    *)
(* address.  When nothing answers there it asks every address that may be  *)
(* the node's: the configured one, the neighbours the kernel knows and the *)
(* common suffixes in the networks of the greenhouses; what the greenhouses *)
(* report as their own address is left out.  Every snapshot thread refreshes *)
(* the node with the one client, and nothing locks what it remembers.      *)
(*                                                                         *)
(* The node and the greenhouses may move to other addresses, be switched   *)
(* off and take over an address another device had before.                 *)
(***************************************************************************)
EXTENDS FiniteSets, Naturals

CONSTANTS
  Address,
  NoAddress,
  Net,         \* the network of each address: the first three numbers of it
  Common,      \* the addresses whose last number is one of _common_suffixes
  Bases,       \* the values of base_url that are looked at
  House,       \* the greenhouses
  Main,        \* the main loop's thread
  Slot,        \* bound: background snapshot threads at a time
  MaxEvents    \* bound: moves of a device to another address, changes of what the node
               \* measures, requests that fail and deaths of the process

Thread == {Main} \cup Slot

ASSUME DiscoveryAssumption ==
  /\ NoAddress \notin Address
  /\ DOMAIN Net = Address
  /\ Common \subseteq Address
  /\ Bases \subseteq Address \cup {NoAddress}
  /\ Main \notin Slot
  /\ MaxEvents \in Nat

VARIABLES
  nodeAt,    \* the address of the node; NoAddress when it is off
  houseAt,   \* the same for each greenhouse
  lived,     \* every address the node has had
  reading,   \* what the node measures: how often it has changed
  base,      \* base_url
  resolved,  \* _resolved_base_url
  reported,  \* router_url of each greenhouse in the state store
  store,     \* StateStore.t3
  thread,    \* where each snapshot thread stands in refresh
  events

devices == <<nodeAt, houseAt, lived, reading>>
vars == <<devices, base, resolved, reported, store, thread, events>>

Place == Address \cup {NoAddress}
Node == [value : Nat, online : BOOLEAN]
Steps == {"idle", "ask", "search", "probe", "confirm", "adopt", "store"}

\* at is the address in question, left the candidates not asked yet, state what the
\* thread will store: at first the previous values.
Threads == [pc : Steps, at : Place, excluded : SUBSET Address, left : SUBSET Address, state : Node]

NoNode == [value |-> 0, online |-> FALSE]
Idle == [pc |-> "idle", at |-> NoAddress, excluded |-> {}, left |-> {}, state |-> NoNode]

TypeOK ==
  /\ nodeAt \in Place
  /\ houseAt \in [House -> Place]
  /\ lived \subseteq Address
  /\ reading \in Nat
  /\ base \in Place
  /\ resolved \in Place
  /\ reported \in [House -> Place]
  /\ store \in Node
  /\ thread \in [Thread -> Threads]
  /\ events \in Nat

\* Devices on the network have different addresses.
Distinct ==
  \A h \in House :
    houseAt[h] # NoAddress => houseAt[h] # nodeAt /\ \A g \in House \ {h} : houseAt[g] # houseAt[h]

Init ==
  /\ nodeAt \in Place
  /\ houseAt \in [House -> Place]
  /\ Distinct
  /\ lived = {nodeAt} \ {NoAddress}
  /\ reading = 1
  /\ base \in Bases
  /\ resolved = base
  /\ reported = [h \in House |-> NoAddress]
  /\ store = NoNode
  /\ thread = [t \in Thread |-> Idle]
  /\ events = 0

-----------------------------------------------------------------------------
(* The devices                                                             *)

Event ==
  /\ events < MaxEvents
  /\ events' = events + 1

Move ==
  /\ Event
  /\ \/ /\ nodeAt' \in Place \ {nodeAt}
        /\ UNCHANGED houseAt
     \/ /\ \E h \in House : \E a \in Place \ {houseAt[h]} : houseAt' = [houseAt EXCEPT ![h] = a]
        /\ UNCHANGED nodeAt
  /\ Distinct'
  /\ lived' = lived \cup ({nodeAt'} \ {NoAddress})
  /\ UNCHANGED <<reading, base, resolved, reported, store, thread>>

Measure ==
  /\ Event
  /\ reading' = reading + 1
  /\ UNCHANGED <<nodeAt, houseAt, lived, base, resolved, reported, store, thread>>

\* A greenhouse's address comes with its state, over HTTP or MQTT.
Report(h) ==
  /\ houseAt[h] \notin {NoAddress, reported[h]}
  /\ reported' = [reported EXCEPT ![h] = houseAt[h]]
  /\ UNCHANGED <<devices, base, resolved, store, thread, events>>

-----------------------------------------------------------------------------
(* refresh                                                                 *)

At(t, step) == thread[t].pc = step
Goes(t, k) == thread' = [thread EXCEPT ![t] = k]
Hidden == UNCHANGED <<devices, base, reported>>

\* The remembered address comes first.  It is never forgotten once there is one, so that
\* the configured address and the node's router_url, which come after it, are not
\* reached.  The previous values are read here.
Refresh(t) ==
  /\ At(t, "idle")
  /\ Goes(t, [Idle EXCEPT !.pc = IF resolved = NoAddress THEN "search" ELSE "ask",
                          !.at = resolved,
                          !.excluded = {reported[h] : h \in House} \ {NoAddress},
                          !.state = store])
  /\ Hidden /\ UNCHANGED <<resolved, store, events>>

\* _fetch_status gets an answer from any device.
Answers(a) == a # NoAddress /\ (a = nodeAt \/ \E h \in House : houseAt[h] = a)

\* Only the node answers with sensors.
LooksLikeNode(a) == a = nodeAt

\* For sensors that are not in the answer the values stay what they were; whatever the
\* answer, the node counts as online.
Probes(a, previous) == IF LooksLikeNode(a) THEN reading ELSE previous.value
StateFrom(a, previous) == [value |-> Probes(a, previous), online |-> TRUE]

\* An answer, whoever gives it, is taken for the node's.
Take(t) ==
  /\ Answers(thread[t].at)
  /\ Goes(t, [thread[t] EXCEPT !.pc = "adopt", !.excluded = {},
                               !.state = StateFrom(thread[t].at, @)])
  /\ UNCHANGED <<resolved, events>>

\* A request to an address fails, though a device has the address or for want of one.
Fails(inUse) == IF inUse THEN Event ELSE UNCHANGED events

\* The address is remembered before the numbers of the node's answer are read, and they
\* may be none.
Garbled(t) ==
  /\ LooksLikeNode(thread[t].at)
  /\ Event
  /\ resolved' = thread[t].at

Useless(t) ==
  \/ Fails(Answers(thread[t].at)) /\ UNCHANGED resolved
  \/ Garbled(t)

Ask(t) ==
  /\ At(t, "ask")
  /\ \/ Take(t)
     \/ Useless(t) /\ Goes(t, [thread[t] EXCEPT !.pc = "search"])
  /\ Hidden /\ UNCHANGED store

\* _seed_prefixes and the scan: the common addresses in the networks of the greenhouses,
\* as they were reported, and of the configured address.
Scanned(excluded) ==
  {a \in Common : \E s \in (excluded \cup {base}) \ {NoAddress} : Net[a] = Net[s]}

\* Mutant of Candidates: a configured address is the only one.
CandidatesUnlessConfigured(excluded, neighbours) ==
  IF base # NoAddress THEN {base} ELSE (neighbours \cup Scanned(excluded)) \ excluded

\* _candidate_urls, without the greenhouses' addresses unless one is the configured one.
Candidates(excluded, neighbours) ==
  ({base, resolved} \cup neighbours \cup Scanned(excluded)) \ ((excluded \ {base}) \cup {NoAddress})

\* What the kernel knows of the neighbours may be anything.
Search(t) ==
  /\ At(t, "search")
  /\ \E neighbours \in SUBSET Address :
       Goes(t, [thread[t] EXCEPT !.pc = "probe", !.at = NoAddress, !.excluded = {},
                                 !.left = Candidates(thread[t].excluded, neighbours)])
  /\ Hidden /\ UNCHANGED <<resolved, store, events>>

\* Mutant of Probe: any answer is good enough.
ProbeAny(t) ==
  /\ At(t, "probe")
  /\ \E a \in thread[t].left :
       \/ /\ Answers(a)
          /\ Goes(t, [thread[t] EXCEPT !.pc = "confirm", !.at = a, !.left = {}])
          /\ UNCHANGED events
       \/ /\ Fails(Answers(a))
          /\ Goes(t, [thread[t] EXCEPT !.left = @ \ {a}])
  /\ Hidden /\ UNCHANGED <<resolved, store>>

\* A candidate, in whatever order, is asked and left unless it answers and looks like
\* the node.
Probe(t) ==
  /\ At(t, "probe")
  /\ \E a \in thread[t].left :
       \/ /\ LooksLikeNode(a)
          /\ Goes(t, [thread[t] EXCEPT !.pc = "confirm", !.at = a, !.left = {}])
          /\ UNCHANGED events
       \/ /\ Fails(LooksLikeNode(a))
          /\ Goes(t, [thread[t] EXCEPT !.left = @ \ {a}])
  /\ Hidden /\ UNCHANGED <<resolved, store>>

\* The previous values, marked offline.
Offline(t) == [thread[t] EXCEPT !.pc = "store", !.at = NoAddress, !.state.online = FALSE]

NotFound(t) ==
  /\ At(t, "probe")
  /\ thread[t].left = {}
  /\ Goes(t, Offline(t))
  /\ Hidden /\ UNCHANGED <<resolved, store, events>>

\* The discovered address is asked again, and now any answer will do.
Confirm(t) ==
  /\ At(t, "confirm")
  /\ \/ Take(t)
     \/ Useless(t) /\ Goes(t, Offline(t))
  /\ Hidden /\ UNCHANGED store

\* The address is remembered after the answer has come; another thread may have found
\* another one meanwhile.
Adopt(t) ==
  /\ At(t, "adopt")
  /\ resolved' = thread[t].at
  /\ Goes(t, [thread[t] EXCEPT !.pc = "store", !.at = NoAddress])
  /\ Hidden /\ UNCHANGED <<store, events>>

\* _send_snapshot stores what refresh returned, under the runtime lock.
Store(t) ==
  /\ At(t, "store")
  /\ store' = thread[t].state
  /\ Goes(t, Idle)
  /\ Hidden /\ UNCHANGED <<resolved, events>>

\* The process dies and is started again.
Crash ==
  /\ Event
  /\ resolved' = base
  /\ reported' = [h \in House |-> NoAddress]
  /\ store' = NoNode
  /\ thread' = [t \in Thread |-> Idle]
  /\ UNCHANGED <<devices, base>>

-----------------------------------------------------------------------------
(* The specification                                                       *)

Proceed(t) ==
  Ask(t) \/ Search(t) \/ Probe(t) \/ NotFound(t) \/ Confirm(t) \/ Adopt(t) \/ Store(t)

Next ==
  \/ Move \/ Measure
  \/ \E h \in House : Report(h)
  \/ \E t \in Thread : Refresh(t) \/ Proceed(t)
  \/ Crash

Spec == Init /\ [][Next]_vars

\* The main loop sends snapshots again and again, greenhouses that are on report again
\* and again, and threads keep running; background threads need not be started.
Fairness ==
  /\ WF_vars(Refresh(Main))
  /\ \A h \in House : WF_vars(Report(h))
  /\ \A t \in Thread : WF_vars(Proceed(t))

FairSpec == Spec /\ Fairness

-----------------------------------------------------------------------------
(* Properties                                                              *)

\* Whatever moves while threads look for the node, the address that is remembered is
\* the configured one or one that the node has had: no other device is adopted
\* because it answers.
AdoptedWasNode == resolved \in {base, NoAddress} \cup lived

\* The node is where discovery looks: at the configured address, or at a common one in
\* a known network that no greenhouse reports; and no greenhouse has the address that
\* is remembered, where any answer would be taken for the node's.
Findable ==
  LET excluded == {reported[h] : h \in House} \ {NoAddress}
  IN  /\ nodeAt = base \/ nodeAt \in Scanned(excluded) \ excluded
      /\ nodeAt # NoAddress
      /\ \A h \in House : houseAt[h] # resolved

\* A node that stays where it can be found is found, and its measurements are shown,
\* however it got there and whatever address an overtaken thread puts back.
FoundAgain ==
  <>[]Findable => <>[](store = [value |-> reading, online |-> TRUE])
=============================================================================
