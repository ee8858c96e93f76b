---------------------------- MODULE IngressContract ----------------------------
(***************************************************************************)
(* What the legacy ingress promises to the app, whichever thread handles a *)
(* packet and whatever fails: a message is forgotten only after it was     *)
(* handled, in one life of the process no path delivers a command twice,   *)
(* the app is told of an accepted command only when a device has taken it, *)
(* and a request gets one answer, which says "ok" only if the app was told *)
(* of this packet.  A new life knows nothing of what was delivered, and    *)
(* exactly the requests under way are lost.                                *)
(***************************************************************************)
EXTENDS Naturals

CONSTANTS
  Packet,     \* what the app sends
  NoPacket,
  Command,    \* packets that hold a command
  Id,
  IdOf,       \* the id of a packet's command
  Path,       \* the ways to a device
  Request     \* requests to the HTTP endpoint

VARIABLES
  sent,       \* messages in the chat
  forgotten,  \* Telegram has forgotten the first ones, up to this
  handled,    \* messages that were handled to the end
  delivered,  \* ids that each path delivered in this life of the process
  reached,    \* ids that ever reached a device
  accepted,   \* packets of which the app was told that they are accepted
  asked,      \* the packet of each request that waits for its answer
  answer      \* what the requests got

chat == <<sent, forgotten, handled>>
posts == <<delivered, reached>>
requests == <<asked, answer>>
ivars == <<chat, posts, accepted, requests>>

Init ==
  /\ sent = 0
  /\ forgotten = 0
  /\ handled = {}
  /\ delivered = [w \in Path |-> {}]
  /\ reached = {}
  /\ accepted = {}
  /\ asked = [r \in Request |-> NoPacket]
  /\ answer = [r \in Request |-> "none"]

Send ==
  /\ sent' = sent + 1
  /\ UNCHANGED <<forgotten, handled, posts, accepted, requests>>

Handle(i) ==
  /\ i \in 1 .. sent
  /\ handled' = handled \cup {i}
  /\ UNCHANGED <<sent, forgotten, posts, accepted, requests>>

\* What is forgotten never comes back.
Forget ==
  /\ forgotten' \in forgotten .. sent
  /\ 1 .. forgotten' \subseteq handled
  /\ UNCHANGED <<sent, handled, posts, accepted, requests>>

Deliver(w, id) ==
  /\ id \notin delivered[w]
  /\ delivered' = [delivered EXCEPT ![w] = @ \cup {id}]
  /\ reached' = reached \cup {id}
  /\ UNCHANGED <<chat, accepted, requests>>

Tell(p) ==
  /\ p \in Command => IdOf[p] \in reached
  /\ accepted' = accepted \cup {p}
  /\ UNCHANGED <<chat, posts, requests>>

Ask(r, p) ==
  /\ asked[r] = NoPacket /\ answer[r] = "none"
  /\ asked' = [asked EXCEPT ![r] = p]
  /\ UNCHANGED <<chat, posts, accepted, answer>>

Answer(r, a) ==
  /\ asked[r] # NoPacket /\ answer[r] = "none"
  /\ a = "ok" => asked[r] \in accepted
  /\ answer' = [answer EXCEPT ![r] = a]
  /\ asked' = [asked EXCEPT ![r] = NoPacket]
  /\ UNCHANGED <<chat, posts, accepted>>

Restart ==
  /\ delivered' = [w \in Path |-> {}]
  /\ answer' = [r \in Request |-> IF asked[r] = NoPacket THEN answer[r] ELSE "lost"]
  /\ asked' = [r \in Request |-> NoPacket]
  /\ UNCHANGED <<chat, reached, accepted>>

Next ==
  \/ Send \/ Forget \/ Restart
  \/ \E i \in 1 .. sent : Handle(i)
  \/ \E w \in Path, id \in Id : Deliver(w, id)
  \/ \E p \in Packet : Tell(p) \/ \E r \in Request : Ask(r, p)
  \/ \E r \in Request, a \in {"ok", "refused", "crashed"} : Answer(r, a)

Spec == Init /\ [][Next]_ivars
=============================================================================
