----------------------------- MODULE CommandDispatch ----------------------------
(***************************************************************************)
(* How a command becomes requests to a controller.  The worker of the      *)
(* queue (without a lock) and the handler of command packets (one at a     *)
(* time, under the runtime lock) each check a command against the guard's  *)
(* table, translate it by the controller's own table, and post one request *)
(* or, to open or close greenhouse 1, two.  A request that got no answer   *)
(* may not have come, have been executed, or be executed yet.  After a     *)
(* change of the settings both controllers are read back and the app is    *)
(* sent what they say.                                                     *)
(*                                                                         *)
(* A firmware command is written as a pair of what it is for and what it   *)
(* does; the texts on the wire are in one-to-one correspondence with the   *)
(* pairs of a controller.                                                  *)
(***************************************************************************)
EXTENDS Naturals, Sequences

CONSTANTS
  Offer,       \* the commands that each caller may be given
  Configured,  \* the greenhouses with a base URL in the configuration
  NoCommand,
  MaxTaken,    \* bound: commands given to each caller
  MaxFaults,   \* bound: calls that fail
  MaxCrashes   \* bound: deaths of the process

Callers == {"firebase", "legacy"}
Houses == {"g1", "g2"}
Zones == {"g1.zone1", "g1.zone2"}
Modes == {"auto", "manual"}
Moves == {"step_open", "step_close", "full_open", "full_close", "extra_close"}
AuxMoves == {"aux_open", "aux_close", "aux_stop"}
Compound == {"full_open", "full_close"}

\* "g9" stands for a target and "dance" for an action that no table has.
Targets == {"bridge", "g1", "g1.aux", "g1.system", "g1.service_motor", "g2", "g9"} \cup Zones
Actions == Moves \cup AuxMoves \cup Modes \cup
  {"set_mode", "update_config", "refresh_configs", "stop", "reset_alarm", "clear_wifi",
   "open_step", "close_step", "dance"}

\* What the parameters are good for: a mode, a setting the target has, something else, nothing.
Params == Modes \cup {"setting", "useless", "none"}
Command == [target : Targets, action : Actions, params : Params]

ASSUME DispatchAssumption ==
  /\ Offer \in [Callers -> SUBSET Command]
  /\ Configured \subseteq Houses
  /\ NoCommand \notin Command
  /\ MaxTaken \in [Callers -> Nat]
  /\ {MaxFaults, MaxCrashes} \subseteq Nat

-----------------------------------------------------------------------------
(* The tables                                                              *)

\* CommandGuard._ALLOWED_TARGET_ACTIONS
AllowedActions(target) ==
  CASE target = "bridge" -> {"refresh_configs"}
    [] target = "g1" -> Compound \cup {"set_mode", "stop", "reset_alarm", "clear_wifi"}
    [] target \in Zones -> Moves \cup {"update_config"}
    [] target = "g1.aux" -> AuxMoves
    [] target \in {"g1.system", "g1.service_motor"} -> {"update_config"}
    [] target = "g2" -> Moves \cup {"set_mode", "stop", "clear_wifi", "update_config"}
    [] OTHER -> {}

Allowed(m) ==
  /\ m.action \in AllowedActions(m.target)
  /\ m.action = "set_mode" => m.params \in Modes
  /\ m.action = "update_config" => m.params # "none"

\* Mutant of DirectActions: network settings cannot be cleared.
DirectWithoutWifi(target) ==
  CASE target = "g1" -> {"stop", "reset_alarm"}
    [] target \in Zones -> Moves
    [] target = "g1.aux" -> AuxMoves
    [] target = "g2" -> Moves \cup {"stop"}
    [] OTHER -> {}

\* HttpController._DIRECT_COMMANDS
DirectActions(target) ==
  CASE target = "g1" -> {"stop", "reset_alarm", "clear_wifi"}
    [] target \in Zones -> Moves
    [] target = "g1.aux" -> AuxMoves
    [] target = "g2" -> Moves \cup {"stop", "clear_wifi"}
    [] OTHER -> {}

\* The targets whose settings can be changed.
ConfigTargets == Zones \cup {"g1.system", "g1.service_motor", "g2"}

House(target) == IF target = "g2" THEN "g2" ELSE "g1"

Mapped(m) ==
  CASE m.action = "update_config" -> m.target \in ConfigTargets /\ m.params = "setting"
    [] m.action = "set_mode" -> m.target \in Houses /\ m.params \in Modes
    [] OTHER -> m.action \in DirectActions(m.target) \/ (m.target = "g1" /\ m.action \in Compound)

\* What the firmware is told, in this order.
Requests(m) ==
  CASE m.action = "update_config" -> <<<<m.target, "config">>>>
    [] m.action = "set_mode" -> <<<<m.target, m.params>>>>
    [] m.target = "g1" /\ m.action \in Compound ->
         <<<<"g1.zone1", m.action>>, <<"g1.zone2", m.action>>>>
    [] OTHER -> <<<<m.target, m.action>>>>

\* _build_firebase_command_request: the queue's names for modes and steps.
Internal(m) ==
  CASE m.action \in Modes -> [m EXCEPT !.action = "set_mode", !.params = m.action]
    [] m.action = "open_step" -> [m EXCEPT !.action = "step_open"]
    [] m.action = "close_step" -> [m EXCEPT !.action = "step_close"]
    [] OTHER -> m

Buildable(m) == m.target \notin {"bridge", "g9"}

-----------------------------------------------------------------------------
(* The state                                                               *)

VARIABLES
  call,     \* where each caller stands with its command
  told,     \* the movement each zone of greenhouse 1 was told last
  config,   \* how often each controller's settings were changed
  shown,    \* what the configuration sent to the app last says of that
  late,     \* requests without an answer that are executed yet
  known,    \* the greenhouses whose router_url is in the store
  taken,
  faults,
  crashes

bounds == <<taken, faults, crashes>>
vars == <<call, told, config, shown, late, known, bounds>>

Firmware == (Targets \X (Moves \cup AuxMoves \cup Modes \cup
              {"stop", "reset_alarm", "clear_wifi", "config"}))
Ended == {"none", "refused", "unmapped", "unreachable", "failed", "ok"}
Steps == {"post", "fetchG1", "fetchG2", "send"} \cup Ended

\* accepted is what the controllers executed for the caller; alone says that nobody
\* else's request moved a zone since the command was taken; mine are the settings after
\* its own change, and read what it read back.
Settings == [Houses -> Nat]
NoSettings == [g \in Houses |-> 0]
Call == [pc : Steps, cmd : Command \cup {NoCommand}, accepted : Seq(Firmware),
         alone : BOOLEAN, mine : Settings, read : Settings]
Started(step, m) == [pc |-> step, cmd |-> m, accepted |-> <<>>, alone |-> TRUE,
                     mine |-> NoSettings, read |-> NoSettings]
NoCall == Started("none", NoCommand)

TypeOK ==
  /\ call \in [Callers -> Call]
  /\ told \in [Zones -> Moves \cup {"stop", "nothing"}]
  /\ config \in Settings
  /\ shown \in Settings
  /\ late \subseteq Firmware
  /\ known \subseteq Houses
  /\ taken \in [Callers -> Nat]
  /\ faults \in Nat
  /\ crashes \in Nat

Init ==
  /\ call = [c \in Callers |-> NoCall]
  /\ told = [z \in Zones |-> "nothing"]
  /\ config = NoSettings
  /\ shown = NoSettings
  /\ late = {}
  /\ known = {}
  /\ taken = [c \in Callers |-> 0]
  /\ faults = 0
  /\ crashes = 0

Fault ==
  /\ faults < MaxFaults
  /\ faults' = faults + 1
  /\ UNCHANGED <<taken, crashes>>

\* The controller reported its own address, or an empty one.
Learn(g) ==
  /\ known' \in {known \cup {g}, known \ {g}}
  /\ known' # known
  /\ UNCHANGED <<call, told, config, shown, late, bounds>>

-----------------------------------------------------------------------------
(* The controllers                                                         *)

Moving(r) == (r[1] \in Zones /\ r[2] \in Moves) \/ r = <<"g1", "stop">>

\* A controller executes request r.
Execute(r) ==
  /\ told' = [z \in Zones |-> IF Moving(r) /\ r[1] \in {z, "g1"} THEN r[2] ELSE told[z]]
  /\ config' = IF r[2] = "config" THEN [config EXCEPT ![House(r[1])] = @ + 1] ELSE config

\* To the callers it did not come from.
Disturbed(k, r) == [call[k] EXCEPT !.alone = @ /\ ~Moving(r)]

\* A request that its caller has given up is executed nevertheless.
ExecuteLate(r) ==
  /\ r \in late
  /\ late' = late \ {r}
  /\ Execute(r)
  /\ call' = [k \in Callers |-> Disturbed(k, r)]
  /\ UNCHANGED <<shown, known, bounds>>

-----------------------------------------------------------------------------
(* The callers                                                             *)

At(c, step) == call[c].pc = step
Step(c, step) == call' = [call EXCEPT ![c].pc = step]

\* Where the dispatch of command m starts.
Entry(m) ==
  IF m.action = "refresh_configs" THEN "fetchG1"
  ELSE IF ~Mapped(m) THEN "unmapped"
  ELSE IF House(m.target) \in known \cup Configured THEN "post"
  ELSE "unreachable"

\* The queue's command is built, a packet's is taken as it is; the guard is asked.
Take(c, offered) ==
  LET m == IF c = "firebase" THEN Internal(offered) ELSE offered
      passes == Allowed(m) /\ (c = "firebase" => Buildable(offered))
  IN  /\ call[c].pc \in Ended
      /\ taken[c] < MaxTaken[c]
      /\ taken' = [taken EXCEPT ![c] = @ + 1]
      /\ call' = [call EXCEPT ![c] =
           IF passes THEN Started(Entry(m), m) ELSE Started("refused", NoCommand)]
      /\ UNCHANGED <<told, config, shown, late, known, faults, crashes>>

\* The request that is next.
Due(c) == Requests(call[c].cmd)[Len(call[c].accepted) + 1]
Last(c) == Len(call[c].accepted) + 1 = Len(Requests(call[c].cmd))

AfterPosts(c) == IF call[c].cmd.action = "update_config" THEN "fetchG1" ELSE "ok"

\* Mutant of Accept: the first answer ends a command of two requests.
AcceptOne(c) ==
  /\ At(c, "post")
  /\ Execute(Due(c))
  /\ call' = [k \in Callers |->
       IF k # c THEN Disturbed(k, Due(c))
       ELSE [call[c] EXCEPT !.accepted = Append(@, Due(c)), !.pc = AfterPosts(c), !.mine = config']]
  /\ UNCHANGED <<shown, late, known, bounds>>

\* The controller answers with success or with a redirect to its home page.
Accept(c) ==
  /\ At(c, "post")
  /\ Execute(Due(c))
  /\ call' = [k \in Callers |->
       IF k # c THEN Disturbed(k, Due(c))
       ELSE [call[c] EXCEPT !.accepted = Append(@, Due(c)), !.mine = config',
                            !.pc = IF Last(c) THEN AfterPosts(c) ELSE "post"]]
  /\ UNCHANGED <<shown, late, known, bounds>>

\* Mutant of Fail: any answer is a success.
FailOnward(c) ==
  /\ At(c, "post")
  /\ Fault
  /\ Step(c, AfterPosts(c))
  /\ UNCHANGED <<told, config, late, shown, known>>

\* Any other answer or none: the dispatch raises.  Without an answer the request may have
\* been executed or may be executed yet.
Fail(c) ==
  /\ At(c, "post")
  /\ Fault
  /\ \/ Step(c, "failed") /\ UNCHANGED <<told, config, late>>
     \/ Step(c, "failed") /\ late' = late \cup {Due(c)} /\ UNCHANGED <<told, config>>
     \/ /\ Execute(Due(c))
        /\ call' = [k \in Callers |->
             IF k = c THEN [call[c] EXCEPT !.pc = "failed"] ELSE Disturbed(k, Due(c))]
        /\ UNCHANGED late
  /\ UNCHANGED <<shown, known>>

\* Mutant of ReadBack: greenhouse 1 is read as it was when it was sent last.
ReadBackOld(c) ==
  \/ /\ At(c, "fetchG1")
     /\ call' = [call EXCEPT ![c].pc = "fetchG2", ![c].read["g1"] = shown["g1"]]
     /\ UNCHANGED <<told, config, shown, late, known, bounds>>
  \/ /\ At(c, "fetchG2")
     /\ call' = [call EXCEPT ![c].pc = "send", ![c].read["g2"] = config["g2"]]
     /\ UNCHANGED <<told, config, shown, late, known, bounds>>

\* fetch_snapshot, one controller after the other.
ReadBack(c) ==
  \/ /\ At(c, "fetchG1")
     /\ call' = [call EXCEPT ![c].pc = "fetchG2", ![c].read["g1"] = config["g1"]]
     /\ UNCHANGED <<told, config, shown, late, known, bounds>>
  \/ /\ At(c, "fetchG2")
     /\ call' = [call EXCEPT ![c].pc = "send", ![c].read["g2"] = config["g2"]]
     /\ UNCHANGED <<told, config, shown, late, known, bounds>>

SendConfig(c) ==
  /\ At(c, "send")
  /\ shown' = call[c].read
  /\ Step(c, "ok")
  /\ UNCHANGED <<told, config, late, known, bounds>>

\* Reading back or sending fails: of no consequence after a change, a failure of a
\* command that asked for nothing else.
ConfigFails(c) ==
  /\ call[c].pc \in {"fetchG1", "fetchG2", "send"}
  /\ \/ Fault
     \/ At(c, "fetchG1") /\ "g1" \notin known \cup Configured /\ UNCHANGED bounds
     \/ At(c, "fetchG2") /\ "g2" \notin known \cup Configured /\ UNCHANGED bounds
  /\ Step(c, IF call[c].cmd.action = "update_config" THEN "ok" ELSE "failed")
  /\ UNCHANGED <<told, config, shown, late, known>>

Crash ==
  /\ crashes < MaxCrashes
  /\ crashes' = crashes + 1
  /\ call' = [c \in Callers |-> NoCall]
  /\ known' = {}
  /\ UNCHANGED <<told, config, shown, late, taken, faults>>

Next ==
  \/ \E g \in Houses : Learn(g)
  \/ \E r \in late : ExecuteLate(r)
  \/ \E c \in Callers :
       \/ \E m \in Offer[c] : Take(c, m)
       \/ Accept(c) \/ Fail(c)
       \/ ReadBack(c) \/ SendConfig(c) \/ ConfigFails(c)
  \/ Crash

Spec == Init /\ [][Next]_vars

-----------------------------------------------------------------------------
(* Properties                                                              *)

\* The guard's table and the controller's are kept in two files.  A command that the
\* guard lets through fails to be translated only if it changes settings and names none
\* that its target has: the guard looks no further than that there are parameters.
TablesAgree ==
  \A c \in Callers : At(c, "unmapped") =>
    call[c].cmd.action = "update_config" /\ call[c].cmd.params # "setting"

\* A dispatch that succeeds had every request of its command executed, in order; one that
\* fails had no more than the requests before the one that failed confirmed.
SuccessIsComplete ==
  \A c \in Callers : call[c].cmd # NoCommand =>
    LET requests == Requests(call[c].cmd)
        accepted == call[c].accepted
    IN  /\ \/ call[c].cmd.action = "refresh_configs" /\ accepted = <<>>
           \/ Len(accepted) <= Len(requests) /\ accepted = SubSeq(requests, 1, Len(accepted))
        /\ call[c].pc \in {"ok", "send", "fetchG1", "fetchG2"}
             /\ call[c].cmd.action # "refresh_configs" => accepted = requests

\* Opening or closing greenhouse 1 as a whole is two requests, and nothing keeps the
\* queue's worker and the handler of packets apart there.  When it succeeds and nobody
\* else's request came in between or since, an abandoned one that is executed late
\* included, both zones were told the same last.
ZonesTogether ==
  \A c \in Callers :
    /\ At(c, "ok")
    /\ call[c].cmd.target = "g1" /\ call[c].cmd.action \in Compound
    /\ call[c].alone
    => \A z \in Zones : told[z] = call[c].cmd.action

\* The configuration a caller sends after its change has that change in it, whatever the
\* other caller changes and sends meanwhile.
OwnChangeIsSent ==
  \A c \in Callers : At(c, "send") => \A g \in Houses : call[c].read[g] >= call[c].mine[g]
=============================================================================
