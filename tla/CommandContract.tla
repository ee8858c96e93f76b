---------------------------- MODULE CommandContract ----------------------------
(***************************************************************************)
(* What the command queue promises to the app and to the devices, whatever *)
(* the bridge does in between: a command goes to a device at most once for *)
(* each time it was asked for, "done" is reported for a command that was   *)
(* sent only, a command leaves the open queue only when its result is on   *)
(* record, and a result on record never goes away.                         *)
(***************************************************************************)
EXTENDS Naturals

CONSTANTS
  Node,       \* the places a command document can be in
  Addr,       \* the place a document reports to
  Simulated   \* nothing is sent to devices

VARIABLES
  asked,      \* how often the app wrote the command
  open,       \* commands in the active queue
  posts,      \* how often a device received the command
  result      \* the result on record, or "absent"

cvars == <<asked, open, posts, result>>

Results == {"done", "error", "expired"}

Init ==
  /\ asked = [n \in Node |-> 0]
  /\ open = {}
  /\ posts = [n \in Node |-> 0]
  /\ result = [n \in Node |-> "absent"]

Ask(n) ==
  /\ asked' = [asked EXCEPT ![n] = @ + 1]
  /\ open' = open \cup {n}
  /\ UNCHANGED <<posts, result>>

Post(n) ==
  /\ ~Simulated
  /\ posts[n] < asked[n]
  /\ posts' = [posts EXCEPT ![n] = @ + 1]
  /\ UNCHANGED <<asked, open, result>>

Record(n, r) ==
  /\ n \in open \/ result[n] # "absent"
  /\ r = "done" => Simulated \/ \E m \in Node : Addr[m] = n /\ posts[m] > 0
  /\ result' = [result EXCEPT ![n] = r]
  /\ UNCHANGED <<asked, open, posts>>

Close(n) ==
  /\ result[n] # "absent"
  /\ open' = open \ {n}
  /\ UNCHANGED <<asked, posts, result>>

Next ==
  \E n \in Node :
    \/ Ask(n)
    \/ Post(n)
    \/ \E r \in Results : Record(n, r)
    \/ Close(n)

Spec == Init /\ [][Next]_cvars
=============================================================================
