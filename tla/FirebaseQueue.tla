---------------------------- MODULE FirebaseQueue ----------------------------
(***************************************************************************)
(* The Firebase command queue of the greenhouse bridge: the app writes a   *)
(* command document under a queue's "pending" path, the bridge's command   *)
(* worker claims it, sends it to an ESP32 and moves the document to the    *)
(* "history" path.                                                         *)
(*                                                                         *)
(* Every call to the database is one step of the worker, so whatever       *)
(* happens between two calls (the app, another bridge, a crash) can happen *)
(* here.  A call may fail before or after its write took effect.  A crash  *)
(* loses the worker's place and the command guard's memory.                *)
(*                                                                         *)
(* Time is abstracted to what the code compares: a command's two deadlines *)
(* (the queue's and the guard's) and the age of a claim marker pass at any *)
(* moment.                                                                 *)
(***************************************************************************)
EXTENDS Naturals, FiniteSets

CONSTANTS
  Node,         \* document keys under the pending and history paths
  QueueOf,      \* the queue ("g1" or "g2") a node is in
  Addr,         \* the node that the document's own target and command_id name
  Id,           \* command ids
  IdOf,         \* the id part of a node
  Kind,         \* what the payload of a node's document is worth
  Rank,         \* the document's place in the order of _command_sort_key
  Bridge,       \* bridge processes
  Name,         \* the processing_by of each bridge
  Nobody,       \* "no bridge": an unclaimed document
  NoNode,       \* "no node": an idle worker
  DryRun,       \* config.dry_run
  MaxSubmits,   \* bound: writes of the app to one node
  MaxFaults,    \* bound: database calls that fail
  MaxCrashes    \* bound: crashes

Queues == {"g1", "g2"}
Kinds == {"valid", "invalid", "refused", "undated"}

ASSUME ConstantsAssumption ==
  /\ NoNode \notin Node
  /\ QueueOf \in [Node -> Queues]
  /\ Addr \in [Node -> Node]
  /\ IdOf \in [Node -> Id]
  /\ Kind \in [Node -> Kinds]
  /\ Rank \in [Node -> Nat]
  /\ \A m, n \in Node : m # n => Rank[m] # Rank[n]
  /\ IsFiniteSet(Bridge)
  /\ \A b \in Bridge : Name[b] # Nobody
  /\ DryRun \in BOOLEAN
  /\ {MaxSubmits, MaxFaults, MaxCrashes} \subseteq Nat

\* Two bridges never share a processing_by: a rule of deployment, which the code
\* does not check.
DistinctNames == \A b, c \in Bridge : Name[b] = Name[c] => b = c

-----------------------------------------------------------------------------
(* Documents and worker states                                             *)

InFlight == {"processing", "sent_to_esp", "esp_ack"}
Active == {"pending"} \cup InFlight
Terminal == {"done", "error", "expired"}

Names == {Name[b] : b \in Bridge}
Doc == [status : Active \cup {"absent"}, by : Names \cup {Nobody}, stale : BOOLEAN]

NoDoc == [status |-> "absent", by |-> Nobody, stale |-> FALSE]
Fresh == [status |-> "pending", by |-> Nobody, stale |-> FALSE]

Steps == {"poll", "scan", "drop", "claim", "validate", "sent", "dispatch",
          "ack", "read", "set", "del"}
Verdicts == {"none", "leave", "claim", "expired", "error"}
Origins == {"scan", "try", "end"}

Worker == [pc : Steps,                    \* the next call of the worker
           queue : Queues,                \* the queue being served
           plan : [Node -> Verdicts],     \* what is left of the snapshot
           node : Node \cup {NoNode},     \* the document in hand
           dest : Node \cup {NoNode},     \* complete_command: which node,
           goal : Terminal,               \*   with which status,
           origin : Origins]              \*   called from where

VARIABLES
  pending,    \* the documents under the pending paths
  history,    \* the status of the documents under the history paths
  queueDue,   \* nodes whose expires_at has come for FirebaseSync._is_expired
  guardDue,   \* nodes whose ts + ttl has passed for CommandGuard._is_expired
  worker,     \* the command worker of each bridge
  seen,       \* CommandGuard._seen_command_ids of each bridge
  subs,       \* how often the app wrote a node
  posts,      \* how often an ESP32 received the command of a node
  posted,     \* the ids each bridge sent to an ESP32 since its start
  faults,     \* failed calls so far
  crashes     \* crashes so far

db == <<pending, history>>
clock == <<queueDue, guardDue>>
device == <<posts, posted>>
env == <<subs, faults, crashes>>
vars == <<db, clock, worker, seen, device, env>>

NoPlan == [n \in Node |-> "none"]
AtQueue(q) == [pc |-> "poll", queue |-> q, plan |-> NoPlan, node |-> NoNode,
               dest |-> NoNode, goal |-> "error", origin |-> "end"]
\* Mutant of Other: the rotation leaves the two queues.
OtherOffTheEnd(q) == IF q = "g1" THEN "g2" ELSE "g3"
Other(q) == IF q = "g1" THEN "g2" ELSE "g1"

TypeOK ==
  /\ pending \in [Node -> Doc]
  /\ history \in [Node -> Terminal \cup {"absent"}]
  /\ queueDue \subseteq Node
  /\ guardDue \subseteq Node
  /\ worker \in [Bridge -> Worker]
  /\ seen \in [Bridge -> SUBSET Id]
  /\ subs \in [Node -> Nat]
  /\ posts \in [Node -> Nat]
  /\ posted \in [Bridge -> SUBSET Id]
  /\ faults \in Nat
  /\ crashes \in Nat

Init ==
  /\ pending = [n \in Node |-> NoDoc]
  /\ history = [n \in Node |-> "absent"]
  /\ queueDue = {}
  /\ guardDue = {}
  /\ worker = [b \in Bridge |-> AtQueue("g1")]
  /\ seen = [b \in Bridge |-> {}]
  /\ subs = [n \in Node |-> 0]
  /\ posts = [n \in Node |-> 0]
  /\ posted = [b \in Bridge |-> {}]
  /\ faults = 0
  /\ crashes = 0

-----------------------------------------------------------------------------
(* The app and the clock                                                   *)

Exists(n) == pending[n].status # "absent"

\* The app writes the command document, or writes it again.
Submit(n) ==
  /\ subs[n] < MaxSubmits
  /\ pending' = [pending EXCEPT ![n] = Fresh]
  /\ subs' = [subs EXCEPT ![n] = @ + 1]
  /\ UNCHANGED <<history, clock, worker, seen, device, faults, crashes>>

QueueDeadline(n) ==
  /\ n \notin queueDue
  /\ queueDue' = queueDue \cup {n}
  /\ UNCHANGED <<db, guardDue, worker, seen, device, env>>

GuardDeadline(n) ==
  /\ n \notin guardDue
  /\ guardDue' = guardDue \cup {n}
  /\ UNCHANGED <<db, queueDue, worker, seen, device, env>>

\* The claim marker of an active document gets as old as _is_processing_stale
\* allows.
GoStale(n) ==
  /\ pending[n].status \in InFlight
  /\ ~pending[n].stale
  /\ pending' = [pending EXCEPT ![n].stale = TRUE]
  /\ UNCHANGED <<history, clock, worker, seen, device, env>>

-----------------------------------------------------------------------------
(* The worker's control flow                                               *)

Todo(b) == {n \in Node : worker[b].plan[n] # "none"}
First(b, n) == n \in Todo(b) /\ \A m \in Todo(b) : Rank[n] <= Rank[m]

At(b, step) == worker[b].pc = step
InHand(b) == worker[b].node
Target(b) == Addr[InHand(b)]
CmdId(b) == IdOf[Target(b)]

Goto(b, step) == worker' = [worker EXCEPT ![b].pc = step]

\* claim_next_command goes on to the next document of its snapshot.
NextDocument(b, n) ==
  worker' = [worker EXCEPT ![b].pc = "scan", ![b].plan[n] = "none"]

\* The worker is done with this queue for this cycle.
NextQueue(b) == worker' = [worker EXCEPT ![b] = AtQueue(Other(@.queue))]

\* An exception reaches _firebase_command_worker: the cycle is abandoned.
Raise(b) == worker' = [worker EXCEPT ![b] = AtQueue("g1")]

\* complete_command(n, status) is called from origin.
Complete(b, n, status, origin) ==
  worker' = [worker EXCEPT ![b].pc = "read", ![b].dest = n,
                           ![b].goal = status, ![b].origin = origin]

\* complete_command returns to where it was called.
Return(b) ==
  \/ worker[b].origin = "scan" /\ NextDocument(b, InHand(b))
  \/ worker[b].origin # "scan" /\ NextQueue(b)

-----------------------------------------------------------------------------
(* The writes                                                              *)

Erased(n) == [pending EXCEPT ![n] = NoDoc]

\* update_active_command: a missing document stays missing; any other takes the
\* status.  Its age is renewed only while it has no processing_at.
Updated(n, status) ==
  IF Exists(n)
  THEN [pending EXCEPT ![n].status = status,
                       ![n].stale = @ /\ pending[n].by # Nobody]
  ELSE pending

\* The transaction of _claim_command changes a pending document only.
Claimed(n, name) ==
  IF pending[n].status = "pending"
  THEN [pending EXCEPT ![n] = [status |-> "processing", by |-> name, stale |-> FALSE]]
  ELSE pending

-----------------------------------------------------------------------------
(* claim_next_command                                                      *)

\* Mutants of Verdict: a stale claim counts as an expired command, or stays.
VerdictStaleExpires(n) ==
  CASE ~Exists(n) -> "none"
    [] pending[n].status = "pending" /\ n \in queueDue -> "expired"
    [] pending[n].status = "pending" /\ n \notin queueDue -> "claim"
    [] pending[n].status \in InFlight /\ pending[n].stale -> "expired"
    [] pending[n].status \in InFlight /\ ~pending[n].stale -> "leave"

VerdictStaleStays(n) ==
  CASE ~Exists(n) -> "none"
    [] pending[n].status = "pending" /\ n \in queueDue -> "expired"
    [] pending[n].status = "pending" /\ n \notin queueDue -> "claim"
    [] pending[n].status \in InFlight -> "leave"

\* What one document of the snapshot asks for, judged at the snapshot's time.
Verdict(n) ==
  CASE ~Exists(n) -> "none"
    [] pending[n].status = "pending" /\ n \in queueDue -> "expired"
    [] pending[n].status = "pending" /\ n \notin queueDue -> "claim"
    [] pending[n].status \in InFlight /\ pending[n].stale -> "error"
    [] pending[n].status \in InFlight /\ ~pending[n].stale -> "leave"

\* pending_ref.get(): the whole queue at once.
Poll(b) ==
  /\ At(b, "poll")
  /\ worker' = [worker EXCEPT ![b].pc = "scan",
                  ![b].plan = [n \in Node |-> IF QueueOf[n] = worker[b].queue
                                              THEN Verdict(n) ELSE "none"]]
  /\ UNCHANGED <<db, clock, seen, device, env>>

\* Nothing left in the snapshot: claim_next_command returns None.
ScanEnd(b) ==
  /\ At(b, "scan")
  /\ Todo(b) = {}
  /\ NextQueue(b)
  /\ UNCHANGED <<db, clock, seen, device, env>>

\* history_ref.child(n).get() finds a document: n is a duplicate.
ScanDuplicate(b) ==
  /\ At(b, "scan")
  /\ \E n \in Node :
       /\ First(b, n)
       /\ history[n] # "absent"
       /\ worker' = [worker EXCEPT ![b].pc = "drop", ![b].node = n]
  /\ UNCHANGED <<db, clock, seen, device, env>>

\* Mutant of ScanDocument: history is not consulted.
ScanDocumentBlindly(b) ==
  /\ At(b, "scan")
  /\ \E n \in Node :
       /\ First(b, n)
       /\ \/ /\ worker[b].plan[n] = "claim"
             /\ worker' = [worker EXCEPT ![b].pc = "claim", ![b].node = n]
          \/ /\ worker[b].plan[n] = "leave"
             /\ NextDocument(b, n)
  /\ UNCHANGED <<db, clock, seen, device, env>>

\* history_ref.child(n).get() finds nothing: the document's verdict is followed.
ScanDocument(b) ==
  /\ At(b, "scan")
  /\ \E n \in Node :
       /\ First(b, n)
       /\ history[n] = "absent"
       /\ \/ /\ worker[b].plan[n] = "claim"
             /\ worker' = [worker EXCEPT ![b].pc = "claim", ![b].node = n]
          \/ /\ worker[b].plan[n] \in {"expired", "error"}
             /\ worker' = [worker EXCEPT ![b].pc = "read", ![b].node = n,
                             ![b].dest = n, ![b].goal = worker[b].plan[n],
                             ![b].origin = "scan"]
          \/ /\ worker[b].plan[n] = "leave"
             /\ NextDocument(b, n)
  /\ UNCHANGED <<db, clock, seen, device, env>>

DeleteDuplicate(b) ==
  /\ At(b, "drop")
  /\ pending' = Erased(InHand(b))
  /\ NextDocument(b, InHand(b))
  /\ UNCHANGED <<history, clock, seen, device, env>>

\* Mutant of Mine: any claimed document will do.
MineWhoever(b, n, sameSecond) == pending[n].status \in {"pending", "processing"}

\* After its transaction a bridge takes the command for its own if the document
\* says "processing" under its processing_by and its now_iso, which has whole
\* seconds.
Mine(b, n, sameSecond) ==
  \/ pending[n].status = "pending"
  \/ pending[n].status = "processing" /\ pending[n].by = Name[b] /\ sameSecond

Claim(b) ==
  /\ At(b, "claim")
  /\ \E sameSecond \in BOOLEAN :
       \/ /\ Mine(b, InHand(b), sameSecond)
          /\ worker' = [worker EXCEPT ![b].pc = "validate", ![b].plan = NoPlan]
       \/ ~Mine(b, InHand(b), sameSecond) /\ NextDocument(b, InHand(b))
  /\ pending' = Claimed(InHand(b), Name[b])
  /\ UNCHANGED <<history, clock, seen, device, env>>

-----------------------------------------------------------------------------
(* _execute_firebase_command                                               *)

\* Mutant of Rejected: the guard forgets the ids it has seen.
RejectedForgetful(b) == Kind[InHand(b)] \in {"invalid", "refused"}

\* _build_firebase_command_request raises, or the guard refuses the command.
Rejected(b) ==
  \/ Kind[InHand(b)] \in {"invalid", "refused"}
  \/ CmdId(b) \in seen[b]

\* Building and validating the command make no call to the database.  A
\* timestamp without a time zone makes the guard raise.
Validate(b) ==
  /\ At(b, "validate")
  /\ \/ /\ Rejected(b)
        /\ Complete(b, Target(b), "error", "end")
        /\ UNCHANGED seen
     \/ /\ ~Rejected(b)
        /\ Kind[InHand(b)] = "undated"
        /\ Raise(b)
        /\ UNCHANGED seen
     \/ /\ ~Rejected(b)
        /\ Kind[InHand(b)] = "valid"
        /\ InHand(b) \in guardDue
        /\ Complete(b, Target(b), "expired", "end")
        /\ UNCHANGED seen
     \/ /\ ~Rejected(b)
        /\ Kind[InHand(b)] = "valid"
        /\ InHand(b) \notin guardDue
        /\ Goto(b, "sent")
        /\ seen' = [seen EXCEPT ![b] = @ \cup {CmdId(b)}]
  /\ UNCHANGED <<db, clock, device, env>>

\* Mutant of RecordSent: dry_run is not looked at.
RecordSentWet(b) ==
  /\ At(b, "sent")
  /\ pending' = Updated(Target(b), "sent_to_esp")
  /\ Goto(b, "dispatch")
  /\ UNCHANGED <<history, clock, seen, device, env>>

\* update_active_command("sent_to_esp"), before anything is sent.
RecordSent(b) ==
  /\ At(b, "sent")
  /\ pending' = Updated(Target(b), "sent_to_esp")
  /\ Goto(b, IF DryRun THEN "ack" ELSE "dispatch")
  /\ UNCHANGED <<history, clock, seen, device, env>>

Reach(b) ==
  /\ posts' = [posts EXCEPT ![InHand(b)] = @ + 1]
  /\ posted' = [posted EXCEPT ![b] = @ \cup {CmdId(b)}]

\* controller_http.dispatch returns a receipt.
Dispatch(b) ==
  /\ At(b, "dispatch")
  /\ Reach(b)
  /\ Goto(b, "ack")
  /\ UNCHANGED <<db, clock, seen, env>>

\* Mutant of DispatchFails: a failed dispatch is acknowledged.
DispatchFailsUnnoticed(b) ==
  /\ At(b, "dispatch")
  /\ Goto(b, "ack")
  /\ UNCHANGED <<db, clock, seen, device, env>>

\* controller_http.dispatch raises: nothing was sent, or the answer was lost or
\* bad.
DispatchFails(b) ==
  /\ At(b, "dispatch")
  /\ \/ UNCHANGED device
     \/ Reach(b)
  /\ Complete(b, Target(b), "error", "end")
  /\ UNCHANGED <<db, clock, seen, env>>

RecordAck(b) ==
  /\ At(b, "ack")
  /\ pending' = Updated(Target(b), "esp_ack")
  /\ Complete(b, Target(b), "done", IF DryRun THEN "end" ELSE "try")
  /\ UNCHANGED <<history, clock, seen, device, env>>

-----------------------------------------------------------------------------
(* complete_command                                                        *)

\* Mutant of ReadFinal: the document is deleted without a copy in history.
ReadFinalSkipsHistory(b) ==
  /\ At(b, "read")
  /\ Goto(b, "del")
  /\ UNCHANGED <<db, clock, seen, device, env>>

\* The document is looked for under pending, then under history.
ReadFinal(b) ==
  /\ At(b, "read")
  /\ LET n == worker[b].dest IN
       \/ ~Exists(n) /\ history[n] = "absent" /\ Return(b)
       \/ (Exists(n) \/ history[n] # "absent") /\ Goto(b, "set")
  /\ UNCHANGED <<db, clock, seen, device, env>>

SetHistory(b) ==
  /\ At(b, "set")
  /\ history' = [history EXCEPT ![worker[b].dest] = worker[b].goal]
  /\ Goto(b, "del")
  /\ UNCHANGED <<pending, clock, seen, device, env>>

DeletePending(b) ==
  /\ At(b, "del")
  /\ pending' = Erased(worker[b].dest)
  /\ Return(b)
  /\ UNCHANGED <<history, clock, seen, device, env>>

-----------------------------------------------------------------------------
(* Failures                                                                *)

\* The write of the call at hand takes effect.
WriteLands(b) ==
  \/ /\ At(b, "drop")
     /\ pending' = Erased(InHand(b)) /\ UNCHANGED history
  \/ /\ At(b, "claim")
     /\ pending' = Claimed(InHand(b), Name[b]) /\ UNCHANGED history
  \/ /\ At(b, "sent")
     /\ pending' = Updated(Target(b), "sent_to_esp") /\ UNCHANGED history
  \/ /\ At(b, "ack")
     /\ pending' = Updated(Target(b), "esp_ack") /\ UNCHANGED history
  \/ /\ At(b, "set")
     /\ history' = [history EXCEPT ![worker[b].dest] = worker[b].goal]
     /\ UNCHANGED pending
  \/ /\ At(b, "del")
     /\ pending' = Erased(worker[b].dest) /\ UNCHANGED history

\* Inside the try of _execute_firebase_command.
InTry(b) ==
  \/ At(b, "ack") /\ ~DryRun
  \/ worker[b].pc \in {"read", "set", "del"} /\ worker[b].origin = "try"

\* A call to the database raises, with or without its write.  In the try the
\* command is completed as an error, anywhere else the cycle is abandoned.
CallFails(b) ==
  /\ worker[b].pc \notin {"validate", "dispatch"}
  /\ worker[b].pc = "scan" => Todo(b) # {}
  /\ faults < MaxFaults
  /\ UNCHANGED db \/ WriteLands(b)
  /\ \/ InTry(b) /\ Complete(b, Target(b), "error", "end")
     \/ ~InTry(b) /\ Raise(b)
  /\ faults' = faults + 1
  /\ UNCHANGED <<clock, seen, device, subs, crashes>>

\* The process dies and systemd starts it again: its worker starts over and its
\* guard has forgotten every command.
Crash(b) ==
  /\ crashes < MaxCrashes
  /\ Raise(b)
  /\ seen' = [seen EXCEPT ![b] = {}]
  /\ posted' = [posted EXCEPT ![b] = {}]
  /\ crashes' = crashes + 1
  /\ UNCHANGED <<db, clock, posts, subs, faults>>

-----------------------------------------------------------------------------
(* The specification                                                       *)

Proceed(b) ==
  \/ Poll(b)
  \/ ScanEnd(b)
  \/ ScanDuplicate(b)
  \/ ScanDocument(b)
  \/ DeleteDuplicate(b)
  \/ Claim(b)
  \/ Validate(b)
  \/ RecordSent(b)
  \/ Dispatch(b)
  \/ DispatchFails(b)
  \/ RecordAck(b)
  \/ ReadFinal(b)
  \/ SetHistory(b)
  \/ DeletePending(b)

Next ==
  \/ \E n \in Node : Submit(n) \/ QueueDeadline(n) \/ GuardDeadline(n) \/ GoStale(n)
  \/ \E b \in Bridge : Proceed(b) \/ CallFails(b) \/ Crash(b)

Spec == Init /\ [][Next]_vars

\* The worker thread keeps running and claim markers keep ageing.
Fairness ==
  /\ \A b \in Bridge : WF_vars(Proceed(b))
  /\ \A n \in Node : WF_vars(GoStale(n))

FairSpec == Spec /\ Fairness

-----------------------------------------------------------------------------
(* Properties                                                              *)

Addressed(n) == {m \in Node : Addr[m] = n}

\* Whatever fails, crashes or is written again, an ESP32 receives a command at
\* most once for each time the app asked for it: the claim transaction hands one
\* submission to one execution, which posts once.
PostsWithinSubmissions == \A n \in Node : posts[n] <= subs[n]

\* Between two starts of a bridge no command id is posted twice, even when the
\* app writes a half-finished command again: the guard remembers what it let
\* through.
OncePerRun == \A b \in Bridge : At(b, "dispatch") => CmdId(b) \notin posted[b]

\* A command the app wrote is always in pending or in history: complete_command
\* writes history before it deletes, and only a recorded command is dropped as a
\* duplicate.
NeverLost == \A n \in Node : subs[n] > 0 => Exists(n) \/ history[n] # "absent"

\* "esp_ack" and "done" are never shown for a command that no ESP32 received.
AcknowledgedMeansPosted ==
  \A n \in Node :
    pending[n].status = "esp_ack" \/ history[n] = "done"
      => DryRun \/ \E m \in Addressed(n) : posts[m] > 0

\* One bridge, documents in the queue they name: a command written once and
\* recorded as "expired" was never posted.
ExpiredMeansUntouched ==
  \A n \in Node : history[n] = "expired" /\ subs[n] = 1 => posts[n] = 0

\* One bridge: a command whose result is in history is not posted any more,
\* however often it is written again.
NoPostAfterResult ==
  [][\A n \in Node : posts'[n] # posts[n] => history[n] = "absent"]_vars

\* One bridge, documents in the queue they name: a result in history is final,
\* but for "done" that turns into "error" when a call after it fails.
ResultsOnlyDowngrade ==
  [][\A n \in Node :
       history[n] # "absent" /\ history'[n] # history[n]
         => history[n] = "done" /\ history'[n] = "error"]_vars

\* config.dry_run: no command reaches an ESP32.
DryRunPostsNothing == DryRun => \A n \in Node : posts[n] = 0

\* The bridge keeps the promise of CommandContract: what the app and the devices
\* can see of the queue.
Contract == INSTANCE CommandContract WITH
              asked <- subs,
              open <- {n \in Node : Exists(n)},
              result <- history,
              Simulated <- DryRun

KeepsContract == Contract!Spec

\* Once failures and crashes stop, every document leaves the pending queue,
\* also one whose execution was cut short or that names another node.
Settles == \A n \in Node : Exists(n) ~> ~Exists(n)

-----------------------------------------------------------------------------
(* The inductive invariant behind the safety properties                    *)

\* A worker that has a document in hand, or completes one, knows which.
HandOK ==
  \A b \in Bridge :
    /\ worker[b].pc \notin {"poll", "scan"} => InHand(b) \in Node
    /\ worker[b].pc \in {"read", "set", "del"} => worker[b].dest \in Node

\* Nothing is deleted from pending before its result is in history.
RecordedFirst ==
  \A b \in Bridge :
    /\ At(b, "drop") => history[InHand(b)] # "absent"
    /\ At(b, "del") => history[worker[b].dest] # "absent"

\* Documents come from the app.
AskedFor ==
  /\ \A n \in Node : Exists(n) \/ history[n] # "absent" => subs[n] > 0
  /\ \A b \in Bridge : At(b, "set") => subs[worker[b].dest] > 0

\* "esp_ack" and "done" are on their way for a posted command only.
PostedFirst ==
  \A b \in Bridge :
    /\ At(b, "ack") => DryRun \/ posts[InHand(b)] > 0
    /\ worker[b].pc \in {"read", "set", "del"} /\ worker[b].goal = "done"
         => DryRun \/ \E m \in Addressed(worker[b].dest) : posts[m] > 0

\* The guard knows every id that was posted, and lets no posted id through.
GuardKnows ==
  \A b \in Bridge :
    /\ posted[b] \subseteq seen[b]
    /\ worker[b].pc \in {"sent", "dispatch"} => CmdId(b) \in seen[b] \ posted[b]

\* A bridge that still means to claim a document did not claim it before.
ClaimOpen ==
  \A b \in Bridge :
    /\ At(b, "claim") => worker[b].plan[InHand(b)] = "claim"
    /\ \A n \in Node :
         worker[b].plan[n] = "claim" /\ pending[n].status = "processing"
           => pending[n].by # Name[b]

\* Each submission is one ticket: it waits in the pending document, then a bridge
\* holds it, then it is spent by a post.
Holders(n) ==
  {b \in Bridge : InHand(b) = n /\ worker[b].pc \in {"validate", "sent", "dispatch"}}
Waiting(n) == IF pending[n].status = "pending" THEN 1 ELSE 0
Tickets ==
  \A n \in Node : posts[n] + Cardinality(Holders(n)) + Waiting(n) <= subs[n]

\* No bridge reaches the dispatch in a dry run.
DryRunStopsShort ==
  DryRun => \A b \in Bridge : ~At(b, "dispatch")

QueueInv ==
  /\ TypeOK
  /\ HandOK
  /\ RecordedFirst
  /\ AskedFor
  /\ NeverLost
  /\ PostedFirst
  /\ AcknowledgedMeansPosted
  /\ GuardKnows
  /\ DryRunStopsShort
  /\ DryRunPostsNothing

TicketInv == ClaimOpen /\ Tickets
=============================================================================
