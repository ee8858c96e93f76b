# A TLA+ model of the greenhouse edge runtime

`logline-greenhouse-edge` is a Raspberry Pi process that sits between a phone app and a handful of
ESP32 controllers. It takes commands from a queue in a Firebase Realtime Database (and, when
enabled, from Telegram or a local HTTP endpoint), checks them, posts them to the controllers and
reports what happened; it collects telemetry and publishes snapshots; and small loggers beside it
keep files of device status and events. This directory holds TLA+ modules of the parts of it whose
behaviour over time can go wrong, the TLC configurations that check them on small instances, and
proofs, checked by TLAPS, of what holds for every instance.

Paths below are relative to the repository.

## 1. The system

| Part | Where | State it keeps | Operations | Talks to |
| --- | --- | --- | --- | --- |
| Firebase queue | `edge/greenhouse_bridge/firebase_sync.py` | documents under `pending` and `history`, per greenhouse, in the remote database | claim, update, complete a command; publish state | command worker, the app |
| Command worker | `main.py` 172-180, 280-503 | the command in hand | poll g1 then g2, validate, dispatch, record | queue, guard, HTTP controller |
| Command guard | `command_guard.py` | ids it let through since the start | validate | both command paths |
| HTTP controller | `controller_http.py` | none | map a command to firmware commands and post them | ESP32 `/control`, `/config` |
| Main loop | `main.py` 73-148 | times of the next snapshots, whether polling is on | send snapshots, poll Telegram, handle packets | Telegram, state store |
| Legacy ingress | `main.py` 259-278, 538-783, `direct_command_http.py`, `telegram_transport.py` | Telegram offset | open, validate, dispatch a packet, report statuses | crypto, guard, controller |
| Crypto envelopes | `crypto.py` | outgoing counter, incoming numbers seen | seal, open, replay check | main loop, HTTP threads |
| State store | `state_store.py` | latest telemetry, snapshot counter | update from a topic, replace a greenhouse, take a snapshot | MQTT thread, snapshot threads |
| MQTT bridge | `mqtt_bridge.py` | connection | subscribe, hand messages to the store | state store, main app |
| Status clients | `greenhouse1_http.py`, `temperature_node_http.py`, `device_config_http.py` | resolved address of the temperature node | fetch status | snapshot threads |
| Dual-zone logger | `loggers/dualzone_web_logger.py` | `state.json`, daily files | append new events, statuses, transitions | ESP32 `/status`, `/events` |
| Single-zone logger | `loggers/singlezone_web_logger.py` | `state.json`, daily files | append statuses, transitions, failures | ESP32 `/status` |
| Summaries | `loggers/summarize_*.py` | none | find movement starts in recorded statuses | log files |
| Start-up | `config.py`, `main.py` 857-939 | configuration | read and validate settings, build the parts | environment |

How they interact. One process runs a main thread (snapshots and Telegram), a Firebase worker
thread, a status thread for greenhouse 1, the MQTT client's thread, one thread per HTTP request and
one per background snapshot. `_runtime_lock` covers the legacy command path, the assembly of a
snapshot and the replacement of the greenhouse 1 state; it covers neither the Firebase worker nor
what is done with a snapshot after it is assembled. systemd restarts the process when it fails
(`Restart=on-failure`); nothing but the database, Telegram's update queue and the loggers' files
survives.

What makes it hard, and the properties each part owes:

* *Queue.* Two remote documents stand for one command and every step is a call of its own that may
  fail on either side of its effect. A command must not be lost, must not be executed more often
  than it was asked for, must be reported as done only if it was sent, must get one result, and must
  leave the queue some day.
* *Guard.* An id goes through once per run; the guard forgets everything in a crash, so the queue
  (or a deadline) has to cover for it.
* *Legacy ingress.* Telegram redelivers what was not confirmed; a status message that cannot be sent
  can end the process in the middle of a command; the HTTP path runs at the same time.
* *Snapshots.* Taken under a lock, delivered without it: the newest must win in the end.
* *Loggers.* Files are appended before the position is saved: a crash may repeat a line, it must not
  lose one; a device restart resets the numbers.
* *HTTP controller.* Every command the guard lets through must have a firmware command; a compound
  command is two requests, of which the second may fail.
* *Summaries.* A movement is reported once, at its first record.

`PROJECT.json` lists the hazards line by line, with the properties that cover each.

## 2. The modules

| Module | What it is |
| --- | --- |
| `CommandContract` | What a command queue promises to the app and the devices: an abstract specification of four actions |
| `FirebaseQueue` | The queue, the worker and the guard, call by call; its properties; its inductive invariant |
| `MCFirebaseQueue` | Instances of `FirebaseQueue` for TLC |
| `FirebaseQueueProofs` | Theorems about `FirebaseQueue` and their proofs |
| `OneBridgeProofs` | Theorems about `FirebaseQueue` with one bridge and their proofs |
| `CommandIngress` | The legacy ingress: polling, the HTTP threads, the handler under the lock, reports, restarts |
| `IngressContract` | What the legacy ingress promises to the app: an abstract specification without threads and failures |
| `MCCommandIngress` | Instances of `CommandIngress` for TLC |
| `CommandIngressProofs` | Theorems about `CommandIngress` and their proofs |
| `EventLogger` | The dual-zone logger: polls, appends, the position file, restarts on both sides |
| `EventLoggerProofs` | Theorems about `EventLogger` and their proofs |
| `SnapshotRuntime` | The state store, the threads that write it, and the snapshots they seal and publish |
| `SnapshotContract` | What the app may take the packets for: an abstract specification with one snapshot at a time |
| `MCSnapshotRuntime` | Instances of `SnapshotRuntime` for TLC |
| `SnapshotRuntimeProofs` | Theorems about `SnapshotRuntime` and their proofs |
| `CommandDispatch` | The two tables of commands, the requests to the controllers, and the configuration that is read back |
| `MCCommandDispatch` | The instance of `CommandDispatch` for TLC |
| `CommandDispatchProofs` | Theorems about `CommandDispatch` and their proofs |
| `MovementSummary` | The two summaries' search for the beginnings of movements, as functions of a log |
| `StatusLogger` | The status and transitions logs of both loggers, and what the summaries make of them |
| `MCStatusLogger` | The instance of `StatusLogger` for TLC |
| `StatusLoggerProofs` | Theorems about `StatusLogger` and their proofs |
| `NodeDiscovery` | How the bridge finds the temperature node on the network |
| `MCNodeDiscovery` | The instance of `NodeDiscovery` for TLC |
| `NodeDiscoveryProofs` | Theorems about `NodeDiscovery` and their proofs |

### FirebaseQueue

*State.* `pending[n]` and `history[n]` are the two documents of a command at database key `n`;
`QueueOf[n]` says in which greenhouse's queue the key is. Of a document the model keeps the status,
who claimed it and whether its claim marker is old enough for `_is_processing_stale`. `worker[b]` is
where the worker thread of bridge `b` stands: the database call it makes next, the rest of the
snapshot it is scanning with a verdict per document (`plan`), the document in hand, and the arguments
of a running `complete_command`. `seen[b]` is the guard's memory. `subs`, `posts` and `posted` only
record what happened, for the properties.

*Actions.* One per call that leaves the process: `Poll` (the `get` of a whole queue),
`ScanDocument` and `ScanDuplicate` (the `get` on history), `DeleteDuplicate`, `Claim` (the
transaction and the test after it), `RecordSent` and `RecordAck` (update transactions), `Dispatch` and
`DispatchFails` (the HTTP request), `ReadFinal`, `SetHistory` and `DeletePending` (the three calls of
`complete_command`). `Validate` is the code between two calls that builds and checks the command.
`CallFails` lets any database call raise, with or without its effect, and follows the exception to
where it is caught: inside the `try` of `_execute_firebase_command` the command is completed as an
error, anywhere else the worker's cycle ends. `Crash` is the death of the process and its restart.
`Submit`, `QueueDeadline`, `GuardDeadline` and `GoStale` are the app and the clock.

*Data.* A deadline is a set of nodes it has passed for, and it passes at any moment; the queue's own
deadline and the guard's are independent, because the code computes them differently
(`firebase_sync.py` 390-403, `main.py` 484-493). `Kind` says what a payload is worth: `valid`, unfit to
be built (`invalid`), refused by the guard's tables (`refused`), or with a time stamp that makes the
guard raise (`undated`). `Addr[n]` is the key that a document's own `target` and `command_id` lead
to: `n` itself, unless the document contradicts its place. `Rank` is the order of
`_command_sort_key`. Two bridges may or may not share a second; they may or may not share a name
(`Name`).

*Left out.* Details and audit trail inside a document; documents with a status outside the known
seven, which no code touches; the configuration snapshot and the background snapshot after a
command, which do not touch the queue.

### CommandContract

`Ask`, `Post`, `Record` and `Close`: a command is sent at most once for each time it was asked for,
"done" is on record only for a command that was sent, a command leaves the open queue only with a
result on record, and a result never goes away. `FirebaseQueue!KeepsContract` states that the queue
implements it, with `asked` as the submissions, `open` as the keys under `pending` and `result` as
`history`.

### CommandIngress

*State.* `updates` is the service chat's list of messages and `confirmed` how many of them Telegram
has forgotten; `offset` and `batch` are the main loop's; `thread[t]` is where the main thread or the
thread of an HTTP request stands in `_handle_command_packet`, `lock` the holder of `_runtime_lock`,
`firebase` the place of the Firebase worker between the guard and its dispatch. `seenSeqs` is the
replay check, `seenIds` the guard. `handled`, `posted`, `reached`, `accepted` and `answer` record what
happened.

*Actions.* `Poll`, `PollConflict` (the 409 answer) and `PollFails` are `poll_packets`; `TakePacket` and
`TakeRequest` start the handler, `Acquire`, `Open`, `Check`, `Admit`, `Dispatch`, `Report` and `Return`
follow it. `CommandGuard.validate` is two actions, because the Firebase worker runs it without the
lock (`FirebaseCheck`, `FirebaseAdmit`): the look at the ids and the addition. `ReportFails` is a status
message that cannot be sent. After the dispatch it is caught and turns into a "failed" report;
anywhere else the exception leaves the handler, which answers an HTTP request with a bridge error and
ends the main loop. `Restart` is systemd's, `Crash` any other death; both lose everything but
Telegram's list.

*Data.* A packet is a model value with an envelope number (`SeqOf`; old-style envelopes may have none),
a command id (`IdOf`) and a `Kind`: a command, a request for the configuration, a command the guard's
tables refuse, one whose time stamp makes the guard raise (`undated`), one that cannot be opened
(`garbled`) or is not a command once opened (`malformed`). Envelopes and commands expire at any moment.

*Left out.* Messages that are not packets; the snapshots sent by the same loop; the answer "disabled"
of the HTTP endpoint when the legacy ingress is off, in which case nothing of this module happens.

### IngressContract

`Send`, `Handle`, `Forget`, `Deliver`, `Tell`, `Ask`, `Answer` and `Restart`: a message is forgotten only after it
was handled and forgetting never goes back, a path delivers an id once in a life of the process, the
app is told of a command that reached a device, and a request gets one answer, "ok" only for a packet of which
the app was told; a restart loses exactly the requests under way. There are no threads, no lock and no
guard in it, and a failure is a step that does not happen. `CommandIngress!KeepsIngressContract` states that the
ingress implements it, with `confirmed` for what is forgotten, `posted` for what was delivered and the packet a
request's thread holds for what it asks. What the contract adds to the invariants is the order of steps:
each of its actions looks at what came before it.

### EventLogger

*State.* `run`, `newest` and `status` are the controller's; `last` and `snapshot` are `LoggerState` in
memory and `file` is `state.json`, which is `NoState` when it is missing or half written. `batch` is the
response in hand. `copies` counts the lines of each event in the daily files, `written` is what this
process appended.

*Actions.* One per request and per write to a file: `FetchStatus`, `LogTransition`; `FetchEvents`,
`MarkReset`, `AppendEvent` for one line, `BatchEnds`; `OpenState` and `WriteState` for the two halves of
`write_text`. `FetchFails` and `WriteFails` raise, a write with or without its effect; `ReportError` is
`log_fetch_error`, whose own failure ends the process (`ReportErrorFails`), as do failures that the two
handlers do not name. `Start` reads the file. The two intervals are left open: at rest either poll may
come.

### SnapshotRuntime

*State.* `store`, `seq` and `envelope` are the state store and its two counters, `lock` the holder of
`_runtime_lock`. `thread[t]` is where the main thread or a background thread stands in
`_send_snapshot`, with what it fetched and the snapshot it copied; `worker` is the status worker and the
answer it holds, `mqtt` the MQTT thread and the message it works on. `device` is what the devices
really have, `db` the three state documents. `last` records the snapshot sealed last, what is in it and
what its alerts saw; `reactive` counts the snapshots that telemetry changes started.

*Actions.* `FetchG1` and `FetchNode` are the two requests before the lock, `Enter` takes it, stores the
answers and draws the number, `CopyG1` and `CopyRest` copy part after part, `Seal` builds the alerts,
seals the packet and lets go. `Publish` is one `set()`; `PublishFails` may have had its effect and leaves
out the parts after it. `PollStatus`, `Compare` and `ReplaceG1` are one round of the status worker, the
comparison before the lock and the replacement under it. A message about greenhouse 1 takes hold of the
object (`TakeG1`) and writes to it (`SetG1`), and the object may be replaced in between (`Replaced`).
A message about greenhouse 2 (`SetG2`) may ask for a snapshot, which `React` starts or drops once it has
the lock. `HandlerEnters`, `HandlerSeals` and `HandlerLeaves` are all that a command handler does here,
`WorkerSeals` all that the queue's worker does: it seals a configuration without the lock.

What a thread has published, and the fields of an idle thread, are reset: nothing looks at them again,
and the states that differ in them only are one.

*Data.* Of each part one value stands for all, the number of times its device has changed it, and for
the temperature node also whether it was reached. Messages about greenhouse 1 may be late, those about
greenhouse 2 come in order and may be lost. A part that is replaced is replaced as a whole, so that one
value shows what many would.

*Left out.* When the next snapshot of the main loop is due: it may be at any time, and a main thread in
a snapshot is not kept from handling a packet. Telegram's part after the seal, whose failures are
caught and change nothing. Where the temperature node is looked for, which is `NodeDiscovery`. The texts of the alerts. The case
that one of the two clients is not configured. A step that starts a background thread waits here while
there is no slot, where the code starts one more.

### SnapshotContract

`Report`, `Take`, `Seal`, `SealOther` and `Restart`: a snapshot is taken, with what is known of the node, and sealed
before another is taken; in between nothing changes of what is in it but greenhouse 2, and greenhouse 1, which the
contract does not speak of. Numbers and envelopes count on by one. `SnapshotRuntime!TakenInTurn` states that
any number of threads around the lock implement it: `Enter` is `Take`, `Seal` is `Seal`, the envelopes of handlers and
of the queue's worker are `SealOther`, and `open` is the lock in the hand of a snapshot's thread.

### CommandDispatch

*State.* `call[c]` is where a caller stands with its command: the queue's worker, which takes no lock,
and the handler of packets, which has the runtime lock and therefore is one caller however many
threads there are. `told` is the movement each zone of greenhouse 1 was told last and `config` how often
each controller's settings were changed, both in the controllers; `shown` is what the app was sent last
of the settings. `late` holds the requests that were given up without an answer and may be executed
yet. `known` says which greenhouses' `router_url` is in the store. In `call`, `accepted`, `alone`, `mine`
and `read` record what happened, for the properties.

*Actions.* `Take` builds the queue's command (`Internal`), asks the guard's table (`Allowed`) and the
controller's (`Mapped`), and finds the address. `Accept` and `Fail` are one request each; without an
answer it was executed, or not, or will be (`ExecuteLate`). `ReadBack` and `SendConfig` are
`fetch_snapshot` and the publish after a change of settings, `ConfigFails` its failures, which count
only for a command that asked for nothing else. `Learn` is a controller reporting its address or an
empty one. `Crash` forgets the callers and the store.

*Data.* A firmware command is a pair of what it is for and what it does; the texts in
`_DIRECT_COMMANDS` correspond to these pairs one to one. Of the parameters the model keeps what the
code asks of them: whether there are any, whether they name a mode, whether they name a setting of the
target.

*Left out.* The guard's memory and deadlines, which are in the modules of the two paths, and the
parsing of the configuration form.

### StatusLogger and MovementSummary

*State.* One module for both loggers: `house` says whose it is. `step` is where `main()` stands, `got` the
status in hand and `line` its place in the log; `snapshot` and `failures` are `LoggerState`, `file` is
`state.json`. `log` is the sequence of the readable lines of the status log and `tail` how the file
ends: with a whole line, with one that lacks its end, or with a part of one. `moved` is the transitions
log; each line also says how long the log was then. `complete` and `failed` record which polls went
through to the save and how many have failed since, for the properties.

*Actions.* `FetchStatus`, `AppendStatus`, `WriteLatest`, `LogTransition`, `OpenState` and `WriteState` are one
poll, write by write; `PollEvents` is the other poll of greenhouse 1's logger, which saves too.
`FetchFails` and `WriteFails` lead to `ReportError`, which for greenhouse 2 counts the failure and saves the
count, and whose own failure ends the process (`ReportErrorFails`). A write that fails may have had all of
its effect or a part of it: a line that is glued to the next makes both unreadable. `Midnight` starts
the next file. `Crash` and `Start` are the restart, which reads `state.json` back.

*Summaries.* `SingleStarts` and `DualStarts` are the loops of the two scripts over the lines of a log, as
recursive functions: the direction of a line is asked of its state, its message and its level (one
zone) or of the active command and the state (two zones), and what is remembered of the line before
decides whether a movement begins. They are checked over every log the logger can produce within the
bounds, against definitions that speak of whole stretches of lines.

*Data.* A status is reduced to what the transitions log compares and the summaries read. A text stands
for its class: what the scripts look for in it.

### NodeDiscovery

*State.* `nodeAt` and `houseAt` are where the devices are on the network, `lived` the addresses the node
has had, `reading` what it measures. `resolved` is the one address that the client remembers, `base` the
configured one, `reported` the greenhouses' addresses in the store, `store` the node's part of it.
`thread[t]` is where a snapshot thread stands in `refresh`; the client is shared and has no lock.

*Actions.* `Refresh` starts with the remembered address, `Ask` fetches there and takes any answer for the
node's. Without one, `Search` collects the candidates, `Probe` asks one of them and goes on unless
it answers with sensors, `Confirm` fetches again from the one found, now without looking what
answers, and `NotFound` gives up. `Adopt` remembers the address after the fetch, when another thread
may have remembered another one; `Store` is the assignment under the runtime lock. An answer may also
be useless after the address was remembered (`Garbled`). `Move` puts a device at another address or
switches it off; a device may get an address that another one had.

*What the code makes unreachable.* `_resolved_base_url` is set at the start if there is a configured
address, and is never cleared: so `refresh` comes to the other fallbacks, `base_url` and the node's own
`router_url`, never with an address that would be asked, and the module has no step for them.

*Data.* `Net` is the first three numbers of an address and `Common` the addresses with a common
suffix. What the kernel knows of its neighbours is any set of addresses. The order in which candidates
are asked is left open. A device has at most one address, and no two share one.

## 3. The runs

| Run | Instance | Checks |
| --- | --- | --- |
| `queue_one_bridge` | one bridge, two commands in g1, two submissions each, one failing call, one crash | `TypeOK`, `OncePerRun`, `NeverLost`, `AcknowledgedMeansPosted`, `ExpiredMeansUntouched`, `NoPostAfterResult`, `ResultsOnlyDowngrade` |
| `queue_two_bridges` | two bridges with names of their own, one command, two submissions, one failing call, one crash | `PostsWithinSubmissions`, `KeepsContract` |
| `queue_dry_run` | one bridge, three commands in both queues, one of them invalid, dry run | `DryRunPostsNothing` |
| `queue_settles` | one bridge, an undated document, and one in g2 with the same id that names g1, fairness | `Settles` |
| `ingress_twins` | one command in two envelopes and three other kinds of packets, some with numbers that repeat, one message, an HTTP request and the Firebase worker, one failing call, one crash | `ConfirmedMeansHandled`, `OncePerPath`, `AcceptedMeansPosted`, `HandlesAlone`, `KeepsIngressContract` |
| `ingress_answers` | a command and an undated packet, two messages, one request, one failing call, fairness | `EveryMessageHandled`, `EveryRequestAnswered` |
| `logger` | two runs of the controller of up to three events, requests of two, a status that changes once, one failure, reported or not, one crash, fairness | `TypeOK`, `NoHole`, `CopiesBounded`, `StoredIsLogged`, `CatchesUp` |
| `snapshot_lock` | the main thread and one background thread, one change of the node and of greenhouse 2, two messages of the latter, one tick, numbers up to 2 | `AlertsFitCopy`, `ChangeIsShown`, `ReactiveRate`, `SealedInOrder`, `TakenInTurn` |
| `snapshot_converges` | one change of greenhouse 1, one MQTT message of either greenhouse, one failing call or crash, fairness | `Converges` |
| `dispatch` | every command there is in one packet, two of five commands from the queue, greenhouse 1 configured, one failing call, one crash | `TablesAgree`, `SuccessIsComplete`, `ZonesTogether`, `OwnChangeIsSent` |
| `status_log` | either logger, seven statuses of greenhouse 2 and six of greenhouse 1, three polls, two failures or crashes | `StartIsTransition`, `CountIsHonest`, `SingleReported`, `DualReported`, `OptionsOnlySelect` |
| `node_discovery` | the node and one greenhouse, three addresses in two networks, with and without a configured one, the main thread and one background thread, two events, fairness | `AdoptedWasNode`, `FoundAgain` |

The type invariants of the ingress, of the snapshots, of the dispatch, of the status logs and of the
discovery are theorems and are not checked again by a run; `KeepsContract` is checked with documents at their own places and proved for
every `Addr`.

*Bounds.* `MaxSubmits`, `MaxFaults` and `MaxCrashes` cap how often the app writes a key, how many
calls fail and how many crashes there are. Two submissions are what it takes to write a command again
while it is executed, after it was recorded and after its guard was lost; one failure and one crash
can fall between any two calls, together they reach a document that is in both places and a worker
that starts over it. Two bridges are what a race needs. The theorems below do not depend on the
bounds.

*Where a property is checked on one bridge only.* `ExpiredMeansUntouched`, `NoPostAfterResult` and
`ResultsOnlyDowngrade` speak of one bridge and of documents at their own address: with two bridges a
stalled one may dispatch a command that the other has closed as stale, because
`update_active_command` ignores that the document is gone, and a misaddressed document is reported
elsewhere. Both are listed as hazards; what still holds then is the contract.

*Fairness* (`queue_settles`). The worker thread is a loop that polls every
`firebase_poll_interval_sec`, so a worker that can go on does (`WF` on `Proceed`), and time passes, so
a claim marker left alone gets stale (`WF` on `GoStale`). Nothing is assumed of the app, of failures
or of crashes; they are bounded. With this, every document leaves the pending queue, also one whose
execution was cut off and is only ever closed by the stale test.

*Ingress.* Two messages are a batch in which the first can end the process before the second is
handled, and a command that is sent again. A failing call causes a restart by itself, so
`ingress_answers` needs no crash beside it; `ingress_twins` has one, and one message, beside which the
HTTP request is the second. `OncePerPath` speaks of each path on its
own: the Firebase worker validates without the lock, and the two paths may both let one id through.
It also speaks of one life of the process: after a restart the guard is empty, and a batch that was not
confirmed is executed again until its envelopes expire. Both are listed as hazards.
*Fairness:* the threads run (`WF` per thread), systemd restarts (`WF`), and time passes
(`WF` on `EnvelopeExpires`), which is what ends the restarts over an undated packet.

*Logger.* Three events per run with requests of two let the window move past an event, and let a new
run stop below, at or above the old position. `NoHole` holds within one life of the process: with an
old position read back after a crash, a reset that was already noticed may be missed the second time.
*Fairness:* the thread runs and is restarted (`WF` on `Work`), and since both intervals are finite both
polls come again and again (`SF` on each).

*Snapshots.* Two threads are what it takes to publish two snapshots in the wrong order or to draw two
numbers at once. Numbers stop at `MaxNumber`; `SealedInOrder` compares them below it, and a bound of 2 lets
every thread seal between any two steps of another. Snapshots come due for ever, so nothing else caps
how many are sent. The clock starts a second after the start and ticks once, so that of two messages
the second is dropped or starts a snapshot of its own. `snapshot_lock` has messages of greenhouse 2
only (`Telling`), for those of greenhouse 1 disturb none of its properties. In `snapshot_converges` one fault is
a failing call or a crash, and the numbers, of which `Converges` does not speak, are left out
(`MaxNumber` is 0).
*Fairness:* the main loop's snapshots come due (`WF` on `SnapshotDue`, `telemetry_period_sec` is finite),
threads run (`WF` on `Proceed`), handlers leave (`WF`), and a thread that waits for the lock gets it some
day (`SF` on `Enter`): a `threading.Lock` promises no order, but every holder makes network calls
before it wants the lock again. The status worker and the MQTT thread need no fairness.

*Dispatch.* The packet may carry every command in `Command`, so that the two tables are compared entry
by entry; a packet's command and two of the queue's are what it takes for a foreign request between
two of a compound command, or for two changes of settings with the read-backs interleaved. One failing
call leaves a request that is executed late. The instance has greenhouse 2 without a configured
address, which the store may learn and lose again.

*Status log.* Three lines are a movement, a turn and what follows; with two failures a line is glued to
another, a save is cut off, and the report of one failure fails itself. The statuses cover each
trigger, each direction, an unreadable level, commands that follow each other and a zone that moves
without a command. `StartIsTransition` asks for both polls to have gone through, for a poll that was cut off
may have either line and not the other. `DualReported` follows the code in what it calls one movement: of
a zone that moves without a command the code compares the empty command with itself, so a turn is
not reported (`summarize_dualzone_movements.py` 160-166).

*Discovery.* Two networks and three addresses let the node move within the greenhouse's network and out
of it, and take over, or leave behind, a remembered address. Two events are a move and what goes wrong
beside it; they are shared by moves, measurements, failing requests and deaths of the process. Every device is on at
first (`StartSpec`), and may be switched off. `FoundAgain` assumes from some time on what discovery needs
(`Findable`): that the node is at the configured address or at a common one of a known network, that no
greenhouse reports its address, and that no greenhouse has the address that is remembered. Without the
last condition TLC shows a greenhouse at the remembered address being taken for the node for ever: only
a discovered candidate is looked at, a remembered address is not (`temperature_node_http.py` 48-60).
*Fairness:* the main loop's snapshots come due (`WF` on `Refresh(Main)`), greenhouses that are on report
(`WF`), threads run (`WF` on `Proceed`). Background threads need not start.

The instances of the ingress, of the loggers and of the dispatch may stop, when every bound is used up;
there deadlock is not checked. It is checked in all runs of the queue, of the snapshots and of the
discovery.

## 4. The proofs

`FirebaseQueueProofs` proves, for every set of documents, bridges, payload kinds, addresses and
bounds that satisfies `ConstantsAssumption`:

| Theorem | States |
| --- | --- |
| `TypeCorrect` | `Spec => [](TypeOK /\ HandOK)` |
| `CommandNeverLost` | `Spec => []NeverLost` |
| `AcknowledgementIsTrue` | `Spec => []AcknowledgedMeansPosted` |
| `PostedOncePerRun` | `Spec => []OncePerRun` |
| `DryRunIsDry` | `Spec => []DryRunPostsNothing` |
| `PostedOncePerSubmission` | `DistinctNames` implies `Spec => []PostsWithinSubmissions` |
| `ContractKept` | `DistinctNames` implies `Spec => KeepsContract` |

*Argument.* None of the properties is inductive: what a worker is about to do matters as much as
what the database says. `QueueInv` adds, for each property, what must be true of a worker on its
way there: before a deletion the result is on record (`RecordedFirst`), before "esp_ack" or "done" a
post happened (`PostedFirst`), between the guard and the dispatch the id is remembered and not posted
(`GuardKnows`), and no worker of a dry run stands before a dispatch (`DryRunStopsShort`).
`QueueInvariant` shows that `QueueInv` is inductive, one step per action.

`PostsWithinSubmissions` is a counting argument. A submission is one ticket: it waits in the
document while its status is "pending", a bridge holds it from its claim to its dispatch, and a post
spends it. `Tickets` says that posts, holders and the waiting ticket together never exceed the
submissions. It needs that no bridge wins a document twice with one claim, which is `ClaimOpen`: a
bridge whose plan still says "claim" has not claimed the document before. Both need
`DistinctNames`: with a shared `processing_by` two bridges can take one claim for their own within
one second (`firebase_sync.py` 347-351). It is a hypothesis of these two theorems and of no other.

`OneBridgeProofs` proves what takes a bridge without company (`OneBridge`) and, where it says so, documents that
name their own node (`OwnPlaces`), for any number of commands, submissions, failures and crashes:

| Theorem | States |
| --- | --- |
| `ResultEndsPosts` | `OneBridge` implies `Spec => NoPostAfterResult` |
| `ResultsFinal` | `OneBridge`, `OwnPlaces` imply `Spec => ResultsOnlyDowngrade` |
| `ExpiredIsUntouched` | `OneBridge`, `OwnPlaces` imply `Spec => []ExpiredMeansUntouched` |

*Argument.* `FreshInHand`: from the scan, which drops what is in history, to the answer of the ESP32 there is
no result of the command in hand. It holds because nobody else writes history, which is where two
bridges break it. `CompletesOwn` follows a completion from there: it finds no result, or the "done" of the
first attempt whose delete failed. `ExpiringUntouched` says that what is to be recorded as expired was not
posted; an age is only judged of a document that waits in "pending", and then `Tickets`
says that a first submission is still unspent.

`CommandIngressProofs` proves, under `IngressAssumption`:

| Theorem | States |
| --- | --- |
| `IngressInvariant` | `Spec => []IngressInv` |
| `IngressTypes` | `Spec => []TypeOK` |
| `Alone` | `Spec => []HandlesAlone` |
| `NothingConfirmedUnhandled` | `Spec => []ConfirmedMeansHandled` |
| `PostedOncePerPath` | `Spec => []OncePerPath` |
| `ToldOnlyAfterPost` | `Spec => []AcceptedMeansPosted` |
| `IngressContractKept` | `Spec => KeepsIngressContract` |

*Argument.* `HandlerMoves` reduces every step of the handler to three moves of one thread: it takes
the lock, it goes on to a place in `Follows`, or it lets go. With the lock (`HandlesAlone`) this is
enough to follow one packet: `LegacyOK` says that from the look at the guard's memory to the post the
id in hand has not been posted, and that from the guard's answer on it is remembered; `ReportOK` that
every place from which an accepted command is reported lies behind the post. The Firebase worker
enters no lock and may let the same id through in between: this is why `FirebaseOK` speaks of its own
posts only, and why the theorem is about each path and not about both together. `PollOK` ties the
batch to the offset: what precedes the batch was handled, and an offset that a poll can confirm is the
end of a batch that has been used up.

The refinement needs more than the invariants say, for a step of the contract has conditions of its own.
`ContractInv` adds that an offset never lies behind what was confirmed (`ForgetOK`), so that forgetting does
not go back; that the main loop works at a packet of its batch (`BatchOK`), so that what it has handled was
sent; that a handler which is about to answer "ok" has told the app of its packet (`SuccessOK`); and that
a request holds a packet from when it asks to when it is answered and has no answer in between
(`AnswerOK`). `ContractHandler` and `ContractStep` map the steps: a return of the main thread is `Handle`, one of a
request is `Answer`, as is an exception; a report of an accepted command is `Tell`, also when
it fails after the message went out; either poll is `Forget`.

`EventLoggerProofs` proves, under `LoggerAssumption`:

| Theorem | States |
| --- | --- |
| `LoggerInvariant` | `Spec => []LoggerInv` |
| `LoggerTypes` | `Spec => []TypeOK` |
| `NoHoleLeft` | `Spec => []NoHole` |
| `CopiesAreBounded` | `Spec => []CopiesBounded` |
| `PositionIsTrue` | `Spec => []StoredIsLogged` |

*Argument.* The controller's answer is a window of its events, and the logger works through it with
calls in between at which the controller may lose its memory. `BatchOK` says what is in hand of the
run under way: no number above the newest, and nothing missing that the controller still has.
`WrittenOK` and `LastIsLogged` say what each append leaves behind, `ResetOK` what the position means
after the controller started again, and `CopiesOK` is the accounting for the copies: every copy of
an event but one is owed to a failed call or a crash, and a passed position never comes back without
one.

`SnapshotRuntimeProofs` proves, under `SnapshotAssumption`:

| Theorem | States |
| --- | --- |
| `SnapshotInvariant` | `Spec => []SnapshotInv` |
| `SnapshotTypes` | `Spec => []TypeOK` |
| `AlertsAlwaysFit` | `Spec => []AlertsFitCopy` |
| `ChangeAlwaysShown` | `Spec => []ChangeIsShown` |
| `ReactiveRateHolds` | `Spec => []ReactiveRate` |
| `AlwaysSealedInOrder` | `Spec => SealedInOrder` |
| `SnapshotsTakenInTurn` | `Spec => TakenInTurn` |

*Argument.* `ThreadOK` says that a thread between `Enter` and `Seal` holds the lock, that its number is the
last one drawn, and that its copy is of the node that is in the store and of no newer greenhouse 2 than the
store's: nobody else replaces the node under the lock, and greenhouse 2 only gets newer. `LastOK` bounds what
was sealed last by the two counters and by the store, so that whoever seals next seals more;
that the numbers only grow needs the lock for the snapshot's and nothing but one undivided step for
the envelope's. `PaceOK` ties the count of reactive snapshots to the time of the last one, which is in the past
however long the message waited.

`ContractStep` is the refinement, and `SnapshotInv` is enough for it: `Seal` is the contract's because the lock was held
from `Enter` on, so that the thread's number is the last one and its copy's node the store's; every other step of a
thread shows nothing, since what it fetched is stored under the lock and what it publishes is a
copy.

`CommandDispatchProofs` proves, under `DispatchAssumption`:

| Theorem | States |
| --- | --- |
| `DispatchTypes` | `Spec => []TypeOK` |
| `TablesAlwaysAgree` | `Spec => []TablesAgree` |
| `SuccessIsAlwaysComplete` | `Spec => []SuccessIsComplete` |
| `ZonesAlwaysTogether` | `Spec => []ZonesTogether` |
| `OwnChangeIsAlwaysSent` | `Spec => []OwnChangeIsSent` |

*Argument.* `DispatchInv` says of each caller which requests it has behind it: exactly the first ones of its
command (`accepted`), fewer than all before a post, all of them behind it. As long as nobody
disturbed it, the zones of the requests behind it are still told what they said, which for a compound
command is both. For the configuration it says that settings only get newer: what was read after the own change is no
older than it.

`StatusLoggerProofs` proves, under `StatusAssumption`:

| Theorem | States |
| --- | --- |
| `StatusTypes` | `Spec => []TypeOK` |
| `CountAlwaysHonest` | `Spec => []CountIsHonest` |
| `StartsAreTransitions` | `Spec => []StartIsTransition` |
| `SingleMovementsReported` | `Spec => []SingleReported` |
| `DualMovementsReported` | `Spec => []DualReported` |
| `OptionsSelectOnly` | `Spec => []OptionsOnlySelect` |

*Argument.* `StatusInv` ties the count to the polls that failed (`CountOK`) and the log to the polls that
were answered (`LogOK`). The summaries are functions of the log that go on from line to line. Such a function is
defined by a choice, so that one exists is proved first (`SingleScanDef`, `DualScanDef`, `ChosenScan`).
What is known after a line is then proved by induction on the lines, for logs of any length:
`SetInduction`, which comes from the library's theorem that `<` is well founded, by way of the least line at which
the claim fails. `SingleInv` and `DualInv` are those claims: what is remembered
is the direction of the last line, every line that moves so far is covered by a start, and every start is of a
line that differs from the one before. `DualTaken` adds that the scan for some zones remembers of them
what the full scan does, and that its starts are chosen from the full scan's; choosing commutes with each line
(`Commutes`), since a start that is left out is remembered all the same.

`TraceOK` is the invariant behind `StartIsTransition`. `Traced` says of the snapshot in memory and of that in
`state.json`: if the last line that stands by itself is of a poll that went through, the snapshot is its status or
one that the transitions log has told of since. The line in hand is not traced before its poll goes
through (`InHand`), for a failure may leave it in the log and the snapshot behind. `Told` is what
follows for each line of a poll that went through. A start is of a line that differs from the one before
(`StartsDiffer`), so the transitions log tells of it.

`NodeDiscoveryProofs` proves, under `DiscoveryAssumption`:

| Theorem | States |
| --- | --- |
| `DiscoveryTypes` | `Spec => []TypeOK` |
| `OnlyTheNodeIsAdopted` | `Spec => []AdoptedWasNode` |

*Argument.* `NodeInv` says that not only the remembered address but every address a thread is about to take is
the configured one or one the node has had: what is found is looked at before, what is remembered was
found before.

*Not proved.* `Converges`, `CatchesUp`, `Settles`, `EveryMessageHandled`, `EveryRequestAnswered` and
`FoundAgain` are liveness properties. They are out of the prover's reach, as is anything with `ENABLED`, and
stay with TLC. Every other property that a run checks is also proved.

## 5. What is left

Not modelled, though it could be:

* When the main loop's next snapshot is due (`main.py` 84-148). The models let it be due at any time and
  assume that it is, again and again; a clock that is set back delays it, and no property speaks of how long.
* Which settings a start requires, against what `docs/configuration.md` says of them: a pure function
  from the environment to a verdict, read once.

Not modelled, and not worth it: parsing and formatting of payloads, encryption and packing, the
configuration form, the performance log, the diagnostics under `scripts/`. They keep no state and none
of the properties is about them.
