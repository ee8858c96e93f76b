------------------------ MODULE CommandDispatchProofs ------------------------
(* Proofs about CommandDispatch, for every instance of its constants.         *)
EXTENDS CommandDispatch, TLAPS

-----------------------------------------------------------------------------
(* The tables                                                              *)

\* A command that the guard lets through, and that does not ask for the settings only,
\* can be translated, but for a change of settings that its target does not have.
LEMMA TablesFit ==
  ASSUME NEW m \in Command, Allowed(m), m.action # "refresh_configs", ~Mapped(m)
  PROVE  m.action = "update_config" /\ m.params # "setting"
<1> USE DEF Command, Targets, Zones, Allowed, AllowedActions, Mapped
<1>1. CASE m.target = "bridge"
  BY <1>1
<1>2. CASE m.target = "g1"
  BY <1>2 DEF DirectActions, ConfigTargets, Houses, Compound, Modes
<1>3. CASE m.target \in Zones
  BY <1>3 DEF DirectActions, ConfigTargets, Houses, Moves, Modes
<1>4. CASE m.target = "g1.aux"
  BY <1>4 DEF DirectActions, ConfigTargets, Houses, AuxMoves, Modes
<1>5. CASE m.target \in {"g1.system", "g1.service_motor"}
  BY <1>5 DEF ConfigTargets
<1>6. CASE m.target = "g2"
  BY <1>6 DEF DirectActions, ConfigTargets, Houses, Moves, Modes
<1>7. CASE m.target = "g9"
  BY <1>7
<1> QED
  BY <1>1, <1>2, <1>3, <1>4, <1>5, <1>6, <1>7

\* Opening or closing greenhouse 1 is one request for each zone.
LEMMA CompoundRequests ==
  ASSUME NEW m, m.target = "g1", m.action \in Compound
  PROVE  Requests(m) = <<<<"g1.zone1", m.action>>, <<"g1.zone2", m.action>>>>
BY DEF Requests, Compound

\* Two requests are a sequence of requests.
LEMMA TwoOf ==
  ASSUME NEW S, NEW a \in S, NEW b \in S
  PROVE  <<a, b>> \in Seq(S) /\ Len(<<a, b>>) = 2
OBVIOUS

\* A translated command is one firmware request or two.
LEMMA RequestsType ==
  ASSUME NEW m \in Command, Mapped(m), m.action # "refresh_configs"
  PROVE  Requests(m) \in Seq(Firmware) /\ Len(Requests(m)) \in 1 .. 2
<1>1. m.target \in Targets
  BY DEF Command
<1>2. CASE m.target = "g1" /\ m.action \in Compound
  <2>1. <<"g1.zone1", m.action>> \in Firmware /\ <<"g1.zone2", m.action>> \in Firmware
    BY <1>2 DEF Firmware, Targets, Zones, Compound, Moves
  <2>2. Requests(m) = <<<<"g1.zone1", m.action>>, <<"g1.zone2", m.action>>>>
    BY <1>2, CompoundRequests
  <2> QED
    BY ONLY <2>1, <2>2, TwoOf
<1>3. CASE ~(m.target = "g1" /\ m.action \in Compound)
  <2> DEFINE does == CASE m.action = "update_config" -> "config"
                       [] m.action = "set_mode" -> m.params
                       [] OTHER -> m.action
  <2>1. Requests(m) = <<<<m.target, does>>>>
    BY <1>3 DEF Requests
  <2>2. does \in Moves \cup AuxMoves \cup Modes \cup {"stop", "reset_alarm", "clear_wifi", "config"}
    BY <1>3 DEF Mapped, DirectActions, Modes
  <2>3. <<m.target, does>> \in Firmware
    BY <1>1, <2>2 DEF Firmware
  <2> HIDE DEF does
  <2> QED
    BY <2>1, <2>3
<1> QED
  BY <1>2, <1>3

\* So it is, as a text, of every command.
LEMMA RequestsAny ==
  ASSUME NEW m \in Command
  PROVE  Len(Requests(m)) \in 1 .. 2 /\ <<>> = SubSeq(Requests(m), 1, 0)
<1> DEFINE Texts == Targets \X (Actions \cup Params \cup {"config"})
<1>1. m.target \in Targets /\ m.action \in Actions /\ m.params \in Params
  BY DEF Command
<1>2. CASE m.target = "g1" /\ m.action \in Compound
  <2>1. <<"g1.zone1", m.action>> \in Texts /\ <<"g1.zone2", m.action>> \in Texts
    BY <1>1 DEF Targets, Zones
  <2>2. Requests(m) = <<<<"g1.zone1", m.action>>, <<"g1.zone2", m.action>>>>
    BY <1>2, CompoundRequests
  <2> HIDE DEF Texts
  <2>3. Requests(m) \in Seq(Texts) /\ Len(Requests(m)) = 2
    BY ONLY <2>1, <2>2, TwoOf
  <2> QED
    BY <2>3
<1>3. CASE ~(m.target = "g1" /\ m.action \in Compound)
  <2> DEFINE does == CASE m.action = "update_config" -> "config"
                       [] m.action = "set_mode" -> m.params
                       [] OTHER -> m.action
  <2>1. Requests(m) = <<<<m.target, does>>>>
    BY <1>3 DEF Requests
  <2>2. does \in Actions \cup Params \cup {"config"}
    BY <1>1
  <2>3. <<m.target, does>> \in Texts
    BY <1>1, <2>2
  <2> HIDE DEF does, Texts
  <2> QED
    BY <2>1, <2>3
<1> QED
  BY <1>2, <1>3

-----------------------------------------------------------------------------
(* The inductive invariant                                                 *)

\* A caller's command passed the guard, and is as far as its confirmed requests say.
Progress(k) ==
  /\ k.pc \in {"none", "refused"} => k.cmd = NoCommand
  /\ k.pc \notin {"none", "refused"} => k.cmd \in Command /\ Allowed(k.cmd)
  /\ k.pc = "unmapped" => ~Mapped(k.cmd) /\ k.cmd.action # "refresh_configs"
  /\ k.pc = "post" =>
       /\ Mapped(k.cmd)
       /\ k.cmd.action # "refresh_configs"
       /\ Len(k.accepted) < Len(Requests(k.cmd))
  /\ k.pc \in {"fetchG1", "fetchG2", "send"} => k.cmd.action \in {"update_config", "refresh_configs"}
  /\ k.cmd # NoCommand =>
       IF k.cmd.action = "refresh_configs" THEN k.accepted = <<>>
       ELSE /\ Len(k.accepted) <= Len(Requests(k.cmd))
            /\ k.accepted = SubSeq(Requests(k.cmd), 1, Len(k.accepted))
            /\ k.pc \in {"ok", "send", "fetchG1", "fetchG2"} => k.accepted = Requests(k.cmd)

\* What a caller changed is in the settings, and in what it has read back so far.
Own(k, settings) ==
  /\ \A g \in Houses : k.mine[g] <= settings[g]
  /\ k.pc \in {"fetchG2", "send"} => k.read["g1"] >= k.mine["g1"]
  /\ k.pc = "send" => k.read["g2"] >= k.mine["g2"]

\* The zones that a caller has told to move, and nobody else since, do as it told.
Together(k, zones) ==
  /\ k.pc \in {"post", "ok"}
  /\ k.cmd # NoCommand
  /\ k.cmd.target = "g1" /\ k.cmd.action \in Compound
  /\ k.alone
  => /\ Len(k.accepted) >= 1 => zones["g1.zone1"] = k.cmd.action
     /\ Len(k.accepted) >= 2 => zones["g1.zone2"] = k.cmd.action

DispatchInv ==
  /\ TypeOK
  /\ \A c \in Callers : Progress(call[c]) /\ Own(call[c], config) /\ Together(call[c], told)

-----------------------------------------------------------------------------
(* What the actions do                                                     *)

\* A command that has just been taken.
LEMMA Fresh ==
  ASSUME NEW p \in Steps, NEW q \in Command \cup {NoCommand}
  PROVE  /\ Started(p, q) \in Call
         /\ Started(p, q).pc = p /\ Started(p, q).cmd = q /\ Started(p, q).accepted = <<>>
         /\ Started(p, q).mine = NoSettings /\ Started(p, q).read = NoSettings
<1>1. NoSettings \in Settings
  BY DEF NoSettings, Settings
<1>2. \A a \in Seq(Firmware) :
        [pc |-> p, cmd |-> q, accepted |-> a, alone |-> TRUE,
         mine |-> NoSettings, read |-> NoSettings] \in Call
  BY <1>1 DEF Call
<1>3. <<>> \in Seq(Firmware)
  OBVIOUS
<1> QED
  BY <1>2, <1>3 DEF Started

\* The invariant holds in the initial states.
LEMMA InvInit == Init => DispatchInv
<1> SUFFICES ASSUME Init PROVE DispatchInv
  OBVIOUS
<1> USE DEF Init
<1>1. /\ NoCall \in Call /\ NoCall.pc = "none" /\ NoCall.cmd = NoCommand
      /\ NoCall.mine = NoSettings
  BY Fresh DEF NoCall, Steps, Ended
<1>2. TypeOK
  BY <1>1 DEF TypeOK, NoSettings, Settings, Houses
<1>3. Progress(NoCall)
  BY <1>1 DEF Progress
<1>4. Own(NoCall, NoSettings)
  BY <1>1 DEF Own, NoSettings
<1>5. Together(NoCall, told)
  BY <1>1 DEF Together
<1> QED
  BY <1>2, <1>3, <1>4, <1>5 DEF DispatchInv

\* What a controller does for others leaves a caller's place and settings alone.
LEMMA DisturbedKeeps ==
  ASSUME NEW k \in Callers, NEW r, call[k] \in Call
  PROVE  /\ Disturbed(k, r) \in Call
         /\ Progress(call[k]) => Progress(Disturbed(k, r))
         /\ \A s : Own(call[k], s) => Own(Disturbed(k, r), s)
<1> DEFINE d == Disturbed(k, r)
<1>1. d \in Call
  BY DEF Disturbed, Call
<1>2. /\ d.pc = call[k].pc /\ d.cmd = call[k].cmd /\ d.accepted = call[k].accepted
      /\ d.mine = call[k].mine /\ d.read = call[k].read
  BY DEF Disturbed, Call
<1> HIDE DEF d
<1>3. Progress(call[k]) => Progress(d)
  BY <1>2 DEF Progress
<1>4. ASSUME NEW s, Own(call[k], s) PROVE Own(d, s)
  BY <1>2, <1>4 DEF Own
<1> QED
  BY <1>1, <1>3, <1>4 DEF d

\* A request that is executed moves zones and counts changes, and the settings only grow.
LEMMA ExecuteKeeps ==
  ASSUME TypeOK, NEW r \in Firmware, Execute(r)
  PROVE  /\ told' \in [Zones -> Moves \cup {"stop", "nothing"}]
         /\ config' \in Settings
         /\ \A g \in Houses : config[g] <= config'[g]
         /\ ~Moving(r) => told' = told
<1>1. r = <<r[1], r[2]>> /\ r[1] \in Targets
  BY DEF Firmware
<1>2. told' \in [Zones -> Moves \cup {"stop", "nothing"}]
  <2>1. Moving(r) => r[2] \in Moves \cup {"stop"}
    BY DEF Moving
  <2> QED
    BY <2>1 DEF Execute, TypeOK
<1>3. House(r[1]) \in Houses
  BY DEF House, Houses
<1>4. config' \in Settings /\ \A g \in Houses : config[g] <= config'[g]
  BY <1>3 DEF Execute, TypeOK, Settings
<1>5. ~Moving(r) => told' = told
  BY DEF Execute, TypeOK
<1> QED
  BY <1>2, <1>4, <1>5

\* Together survives what is executed for others.
LEMMA DisturbedTogether ==
  ASSUME TypeOK, NEW k \in Callers, NEW r \in Firmware, Execute(r), Together(call[k], told)
  PROVE  Together(Disturbed(k, r), told')
<1> DEFINE d == Disturbed(k, r)
<1>1. /\ d.pc = call[k].pc /\ d.cmd = call[k].cmd /\ d.accepted = call[k].accepted
      /\ d.alone = (call[k].alone /\ ~Moving(r))
  BY DEF Disturbed, Call, TypeOK
<1>2. ~Moving(r) => told' = told
  BY ExecuteKeeps
<1> HIDE DEF d
<1>3. Together(d, told')
  BY <1>1, <1>2 DEF Together
<1> QED
  BY <1>3 DEF d

\* A caller for whom nothing was executed.
LEMMA OthersKeep ==
  ASSUME DispatchInv, NEW b \in Callers, NEW r \in Firmware, Execute(r),
         call'[b] = Disturbed(b, r)
  PROVE  call'[b] \in Call /\ Progress(call'[b]) /\ Own(call'[b], config') /\ Together(call'[b], told')
<1>1. TypeOK /\ call[b] \in Call /\ Progress(call[b]) /\ Own(call[b], config) /\ Together(call[b], told)
  BY DEF DispatchInv, TypeOK
<1>2. config' \in Settings /\ \A g \in Houses : config[g] <= config'[g]
  BY <1>1, ExecuteKeeps
<1>3. Own(call[b], config')
  <2>1. \A g \in Houses : call[b].mine[g] \in Nat /\ config[g] \in Nat /\ config'[g] \in Nat
    BY <1>1, <1>2 DEF TypeOK, Call, Settings
  <2> QED
    BY <1>1, <1>2, <2>1 DEF Own
<1>4. Together(Disturbed(b, r), told')
  BY <1>1, DisturbedTogether
<1> QED
  BY <1>1, <1>3, <1>4, DisturbedKeeps

\* A request of the caller's own, which is the one that is due.
LEMMA DueIsFirmware ==
  ASSUME NEW c \in Callers, TypeOK, Progress(call[c]), At(c, "post")
  PROVE  /\ call[c].cmd \in Command
         /\ Requests(call[c].cmd) \in Seq(Firmware)
         /\ Len(Requests(call[c].cmd)) \in 1 .. 2
         /\ Len(call[c].accepted) \in Nat
         /\ Len(call[c].accepted) + 1 \in 1 .. Len(Requests(call[c].cmd))
         /\ Due(c) \in Firmware
<1>1. call[c].cmd \in Command /\ Mapped(call[c].cmd) /\ call[c].cmd.action # "refresh_configs"
  BY DEF Progress, At
<1>2. Requests(call[c].cmd) \in Seq(Firmware) /\ Len(Requests(call[c].cmd)) \in 1 .. 2
  BY <1>1, RequestsType
<1>3. call[c].accepted \in Seq(Firmware)
  BY DEF TypeOK, Call
<1>4. Len(call[c].accepted) < Len(Requests(call[c].cmd))
  BY DEF Progress, At
<1>5. Len(call[c].accepted) + 1 \in 1 .. Len(Requests(call[c].cmd)) /\ Len(call[c].accepted) \in Nat
  BY <1>2, <1>3, <1>4
<1> QED
  BY <1>1, <1>2, <1>5 DEF Due

\* A caller whose command is as far as another's: only the step differs.
LEMMA MovesOn ==
  ASSUME NEW c \in Callers, NEW step \in Steps, call[c] \in Call
  PROVE  [call[c] EXCEPT !.pc = step] \in Call
BY DEF Call

-----------------------------------------------------------------------------
(* The steps                                                               *)

\* What has to be shown of an action that changes one caller's record only.
LEMMA OneCaller ==
  ASSUME DispatchInv, NEW c \in Callers, NEW k \in Call,
         call' = [call EXCEPT ![c] = k], UNCHANGED <<told, config, late>>,
         shown' \in Settings, known' \subseteq Houses,
         taken' \in [Callers -> Nat], faults' \in Nat, crashes' \in Nat,
         Progress(k), Own(k, config), Together(k, told)
  PROVE  DispatchInv'
<1>1. TypeOK'
  BY DEF DispatchInv, TypeOK
<1>2. ASSUME NEW b \in Callers
      PROVE  Progress(call'[b]) /\ Own(call'[b], config') /\ Together(call'[b], told')
  <2>1. call'[b] = IF b = c THEN k ELSE call[b]
    BY DEF DispatchInv, TypeOK
  <2> QED
    BY <2>1 DEF DispatchInv
<1> QED
  BY <1>1, <1>2 DEF DispatchInv

\* Bounds that grow are numbers still.
LEMMA FaultType ==
  ASSUME TypeOK, Fault
  PROVE  taken' \in [Callers -> Nat] /\ faults' \in Nat /\ crashes' \in Nat
BY DEF TypeOK, Fault

\* What is left of OneCaller when a caller only comes to another step.
LEMMA OnlyStep ==
  ASSUME NEW c \in Callers, NEW s \in Steps, NEW k, k = [call[c] EXCEPT !.pc = s], call[c] \in Call
  PROVE  /\ k \in Call /\ k.pc = s /\ k.cmd = call[c].cmd /\ k.accepted = call[c].accepted
         /\ k.alone = call[c].alone /\ k.mine = call[c].mine /\ k.read = call[c].read
BY DEF Call

LEMMA UpToTwo == \A l \in 1 .. 2, n \in Nat : n + 1 \in 1 .. l => n \in {0, 1}
OBVIOUS

\* A sequence's prefix and the element after it.
LEMMA NextOfPrefix ==
  ASSUME NEW S, NEW R \in Seq(S), NEW n \in Nat, n + 1 <= Len(R)
  PROVE  /\ Append(SubSeq(R, 1, n), R[n + 1]) = SubSeq(R, 1, n + 1)
         /\ Len(SubSeq(R, 1, n + 1)) = n + 1
         /\ n + 1 = Len(R) => SubSeq(R, 1, n + 1) = R
OBVIOUS

LEMMA LearnStep ==
  ASSUME DispatchInv, NEW g \in Houses, Learn(g)
  PROVE  DispatchInv'
<1>1. known' \subseteq Houses
  BY DEF Learn, DispatchInv, TypeOK
<1> QED
  BY <1>1 DEF Learn, DispatchInv, TypeOK, bounds

LEMMA TakeStep ==
  ASSUME DispatchInv, NEW c \in Callers, NEW offered \in Command, Take(c, offered)
  PROVE  DispatchInv'
<1> DEFINE m == IF c = "firebase" THEN Internal(offered) ELSE offered
           passes == Allowed(m) /\ (c = "firebase" => Buildable(offered))
           k == IF passes THEN Started(Entry(m), m)
                ELSE Started("refused", NoCommand)
<1>1. m \in Command
  <2>1. Internal(offered) \in Command
    BY DEF Internal, Command, Actions, Params, Modes, Moves
  <2> QED
    BY <2>1
<1>2. /\ call' = [call EXCEPT ![c] = k]
      /\ UNCHANGED <<told, config, shown, late, known, faults, crashes>>
      /\ taken' = [taken EXCEPT ![c] = @ + 1]
  BY DEF Take
<1>3. CASE passes
  <2> DEFINE j == Started(Entry(m), m)
  <2>1. k = j
    BY <1>3
  <2> HIDE DEF m, k, passes
  <2>2. Entry(m) \in {"fetchG1", "unmapped", "post", "unreachable"}
    BY DEF Entry
  <2>3. j \in Call /\ j.pc = Entry(m) /\ j.cmd = m /\ j.accepted = <<>> /\ j.mine = NoSettings /\ j.read = NoSettings
    <3>1. Entry(m) \in Steps /\ m \in Command \cup {NoCommand}
      BY <1>1, <2>2 DEF Steps, Ended
    <3> HIDE DEF m
    <3> QED
      BY ONLY <3>1, Fresh
  <2>4. Allowed(m) /\ m # NoCommand
    BY <1>3, <1>1, DispatchAssumption DEF passes
  <2>5. Entry(m) = "fetchG1" <=> m.action = "refresh_configs"
    BY DEF Entry
  <2>6. Entry(m) = "unmapped" => ~Mapped(m)
    BY DEF Entry
  <2>7. Entry(m) = "post" => Mapped(m)
    BY DEF Entry
  <2> HIDE DEF j
  <2>8. Progress(j)
    <3>1. CASE m.action = "refresh_configs"
      BY <1>1, <2>2, <2>3, <2>4, <2>5, <3>1 DEF Progress
    <3>2. CASE m.action # "refresh_configs"
      <4>1. Len(Requests(m)) \in 1 .. 2 /\ <<>> = SubSeq(Requests(m), 1, 0)
        BY <1>1, RequestsAny
      <4>2. Len(j.accepted) = 0
        BY <2>3
      <4>3. j.accepted = SubSeq(Requests(m), 1, Len(j.accepted))
        BY <2>3, <4>1, <4>2
      <4>4. j.pc \in {"unmapped", "post", "unreachable"}
        BY <2>2, <2>3, <2>5, <3>2
      <4>5. j.cmd = m
        BY <2>3
      <4>7. Len(j.accepted) <= Len(Requests(m)) /\ Len(j.accepted) < Len(Requests(m))
        BY ONLY <4>1, <4>2
      <4>6. (j.pc = "unmapped" => ~Mapped(m)) /\ (j.pc = "post" => Mapped(m))
        BY <2>3, <2>6, <2>7
      <4> QED
        BY ONLY <1>1, <2>4, <3>2, <4>1, <4>2, <4>3, <4>4, <4>5, <4>6, <4>7 DEF Progress
    <3> QED
      BY <3>1, <3>2
  <2>9. Own(j, config)
    BY <2>2, <2>3 DEF Own, NoSettings, DispatchInv, TypeOK, Settings
  <2>10. Together(j, told)
    BY <2>3 DEF Together
  <2> QED
    BY <1>2, <2>1, <2>3, <2>8, <2>9, <2>10, OneCaller DEF DispatchInv, TypeOK
<1>4. CASE ~passes
  <2> DEFINE j == Started("refused", NoCommand)
  <2>1. k = j
    BY <1>4
  <2> HIDE DEF m, k, passes
  <2>2. j \in Call /\ j.pc = "refused" /\ j.cmd = NoCommand /\ j.mine = NoSettings
    <3>1. "refused" \in Steps /\ NoCommand \in Command \cup {NoCommand}
      BY DEF Steps, Ended
    <3> QED
      BY ONLY <3>1, Fresh
  <2> HIDE DEF j
  <2>3. Progress(j) /\ Own(j, config) /\ Together(j, told)
    BY <2>2 DEF Progress, Own, Together, NoSettings, DispatchInv, TypeOK, Settings
  <2> QED
    BY <1>2, <2>1, <2>2, <2>3, OneCaller DEF DispatchInv, TypeOK
<1> QED
  BY <1>3, <1>4

LEMMA AcceptStep ==
  ASSUME DispatchInv, NEW c \in Callers, Accept(c)
  PROVE  DispatchInv'
<1> DEFINE r == Due(c)
           m == call[c].cmd
           n == Len(call[c].accepted)
           j == [call[c] EXCEPT !.accepted = Append(@, Due(c)), !.mine = config',
                                !.pc = IF Last(c) THEN AfterPosts(c) ELSE "post"]
<1>1. /\ TypeOK /\ call[c] \in Call /\ At(c, "post")
      /\ Progress(call[c]) /\ Own(call[c], config) /\ Together(call[c], told)
  BY DEF DispatchInv, TypeOK, Accept
<1>2. /\ m \in Command /\ Requests(m) \in Seq(Firmware) /\ Len(Requests(m)) \in 1 .. 2
      /\ n \in Nat /\ n + 1 \in 1 .. Len(Requests(m)) /\ r \in Firmware
  BY <1>1, DueIsFirmware
<1>3. Execute(r) /\ UNCHANGED <<shown, late, known, bounds>>
  BY DEF Accept
<1>4. /\ told' \in [Zones -> Moves \cup {"stop", "nothing"}] /\ config' \in Settings
      /\ \A g \in Houses : config[g] <= config'[g]
  BY <1>1, <1>2, <1>3, ExecuteKeeps
<1>5. /\ call[c].pc = "post" /\ Mapped(m) /\ m.action # "refresh_configs" /\ m # NoCommand /\ Allowed(m)
      /\ call[c].accepted = SubSeq(Requests(m), 1, n)
  BY <1>1, <1>2, DispatchAssumption DEF Progress, At
<1>6. r = Requests(m)[n + 1]
  BY DEF Due
<1>7. j.accepted = SubSeq(Requests(m), 1, n + 1) /\ Len(j.accepted) = n + 1
  <2>1. j.accepted = Append(call[c].accepted, r)
    BY <1>1 DEF Call
  <2> HIDE DEF j, r, m, n
  <2> QED
    BY <1>2, <1>5, <1>6, <2>1, NextOfPrefix
<1>8. Last(c) <=> n + 1 = Len(Requests(m))
  BY DEF Last
<1>9. /\ j.pc = IF Last(c) THEN AfterPosts(c) ELSE "post"
      /\ j.cmd = m /\ j.alone = call[c].alone /\ j.mine = config' /\ j.read = call[c].read
  BY <1>1 DEF Call
<1>10. /\ AfterPosts(c) \in {"fetchG1", "ok"}
       /\ AfterPosts(c) = "fetchG1" => m.action = "update_config"
  BY DEF AfterPosts
<1>11. j \in Call
  <2>1. Append(call[c].accepted, r) \in Seq(Firmware)
    BY <1>1, <1>2 DEF Call
  <2>2. (IF Last(c) THEN AfterPosts(c) ELSE "post") \in Steps
    BY <1>10 DEF Steps, Ended
  <2> QED
    BY <1>1, <1>4, <2>1, <2>2 DEF Call
<1>12. call' = [k \in Callers |-> IF k = c THEN j ELSE Disturbed(k, r)]
  BY DEF Accept
<1> HIDE DEF j, r
<1>13. Progress(j)
  <2>1. n + 1 = Len(Requests(m)) => j.accepted = Requests(m)
    BY <1>2, <1>7, NextOfPrefix
  <2>2. Len(j.accepted) <= Len(Requests(m)) /\ j.accepted = SubSeq(Requests(m), 1, Len(j.accepted))
    BY <1>2, <1>7
  <2>3. j.pc = "post" => Len(j.accepted) < Len(Requests(m))
    BY <1>2, <1>7, <1>8, <1>9, <1>10
  <2>4. j.pc \in {"post", "fetchG1", "ok"} /\ (j.pc # "post" => j.accepted = Requests(m))
    BY <2>1, <1>8, <1>9, <1>10
  <2>5. j.pc = "fetchG1" => m.action = "update_config"
    BY <1>9, <1>10
  <2> QED
    BY <1>2, <1>5, <1>9, <2>2, <2>3, <2>4, <2>5 DEF Progress
<1>14. Own(j, config')
  BY <1>4, <1>9, <1>10 DEF Own, Settings, Houses
<1>15. Together(j, told')
  <2> SUFFICES ASSUME m.target = "g1", m.action \in Compound, call[c].alone
               PROVE  /\ Len(j.accepted) >= 1 => told'["g1.zone1"] = m.action
                      /\ Len(j.accepted) >= 2 => told'["g1.zone2"] = m.action
    BY <1>9 DEF Together
  <2>1. Requests(m) = <<<<"g1.zone1", m.action>>, <<"g1.zone2", m.action>>>>
    BY CompoundRequests
  <2>2. n \in {0, 1}
    <3> HIDE DEF m, n
    <3> QED
      BY ONLY <1>2, UpToTwo
  <2>3. n = 0 => r = <<"g1.zone1", m.action>>
    BY <1>6, <2>1
  <2>4. n = 1 => r = <<"g1.zone2", m.action>>
    BY <1>6, <2>1
  <2>5. m.action \in Moves
    BY DEF Compound, Moves
  <2>6. n = 0 => told'["g1.zone1"] = m.action
    BY <1>3, <2>3, <2>5 DEF Execute, Moving, Zones
  <2>7. n = 1 => told["g1.zone1"] = m.action
    BY <1>1, <1>5 DEF Together
  <2>8. n = 1 => told'["g1.zone1"] = told["g1.zone1"] /\ told'["g1.zone2"] = m.action
    BY <1>1, <1>3, <2>4, <2>5 DEF Execute, Moving, Zones, TypeOK
  <2> QED
    BY <1>7, <2>2, <2>6, <2>7, <2>8
<1>16. ASSUME NEW b \in Callers
       PROVE  call'[b] \in Call /\ Progress(call'[b]) /\ Own(call'[b], config') /\ Together(call'[b], told')
  <2>1. CASE b = c
    BY <1>11, <1>12, <1>13, <1>14, <1>15, <2>1
  <2>2. CASE b # c
    BY <1>2, <1>3, <1>4, <1>12, <2>2, OthersKeep
  <2> QED
    BY <2>1, <2>2
<1> QED
  <2>1. TypeOK'
    BY <1>1, <1>3, <1>4, <1>12, <1>16 DEF TypeOK, bounds
  <2> QED
    BY <2>1, <1>16 DEF DispatchInv

LEMMA FailStep ==
  ASSUME DispatchInv, NEW c \in Callers, Fail(c)
  PROVE  DispatchInv'
<1> DEFINE j == [call[c] EXCEPT !.pc = "failed"]
<1>1. /\ TypeOK /\ call[c] \in Call /\ At(c, "post")
      /\ Progress(call[c]) /\ Own(call[c], config)
  BY DEF DispatchInv, TypeOK, Fail
<1>2. Due(c) \in Firmware
  BY <1>1, DueIsFirmware
<1>3. /\ taken' \in [Callers -> Nat] /\ faults' \in Nat /\ crashes' \in Nat
      /\ UNCHANGED <<shown, known>>
  BY <1>1, FaultType DEF Fail
<1>4. "failed" \in Steps /\ call[c].pc = "post"
  BY <1>1 DEF Steps, Ended, At
<1>5. /\ j \in Call /\ j.pc = "failed" /\ j.cmd = call[c].cmd /\ j.accepted = call[c].accepted
      /\ j.mine = call[c].mine /\ j.read = call[c].read
  BY <1>1, <1>4, OnlyStep
<1>6. Progress(j) /\ Together(j, told) /\ Together(j, told') /\ Own(j, config)
  <2> HIDE DEF j
  <2> QED
    BY <1>1, <1>4, <1>5 DEF Progress, Together, Own
<1>7. CASE Step(c, "failed") /\ UNCHANGED <<told, config>> /\ late' \in {late, late \cup {Due(c)}}
  <2>1. call' = [call EXCEPT ![c] = j]
    BY <1>1, <1>7 DEF Step, TypeOK
  <2>2. ASSUME NEW b \in Callers
        PROVE  call'[b] \in Call /\ Progress(call'[b]) /\ Own(call'[b], config') /\ Together(call'[b], told')
    <3> HIDE DEF j
    <3>1. call'[b] = IF b = c THEN j ELSE call[b]
      BY <1>1, <2>1 DEF TypeOK
    <3> QED
      BY <1>1, <1>5, <1>6, <1>7, <3>1 DEF DispatchInv, TypeOK
  <2>3. late' \subseteq Firmware
    BY <1>1, <1>2, <1>7 DEF TypeOK
  <2>4. TypeOK'
    <3>1. call' \in [Callers -> Call]
      BY <1>1, <2>1, <2>2 DEF TypeOK
    <3> QED
      BY <1>1, <1>3, <1>7, <2>3, <3>1 DEF TypeOK
  <2> QED
    BY <2>2, <2>4 DEF DispatchInv
<1>8. CASE /\ Execute(Due(c))
           /\ call' = [k \in Callers |-> IF k = c THEN j ELSE Disturbed(k, Due(c))]
           /\ UNCHANGED late
  <2> HIDE DEF j
  <2>1. /\ told' \in [Zones -> Moves \cup {"stop", "nothing"}] /\ config' \in Settings
        /\ \A g \in Houses : config[g] <= config'[g]
    BY <1>1, <1>2, <1>8, ExecuteKeeps
  <2>2. Own(j, config')
    <3>1. \A g \in Houses : j.mine[g] \in Nat /\ config[g] \in Nat /\ config'[g] \in Nat
      BY <1>1, <1>5, <2>1 DEF TypeOK, Call, Settings
    <3> QED
      BY <1>6, <2>1, <3>1 DEF Own
  <2>3. ASSUME NEW b \in Callers
        PROVE  call'[b] \in Call /\ Progress(call'[b]) /\ Own(call'[b], config') /\ Together(call'[b], told')
    <3>1. CASE b = c
      BY <1>5, <1>6, <1>8, <2>2, <3>1
    <3>2. CASE b # c
      BY <1>2, <1>8, <3>2, OthersKeep
    <3> QED
      BY <3>1, <3>2
  <2>4. TypeOK'
    BY <1>1, <1>3, <1>8, <2>1, <2>3 DEF TypeOK
  <2> QED
    BY <2>3, <2>4 DEF DispatchInv
<1> QED
  BY <1>7, <1>8 DEF Fail

LEMMA ExecuteLateStep ==
  ASSUME DispatchInv, NEW r \in late, ExecuteLate(r)
  PROVE  DispatchInv'
<1>1. TypeOK /\ r \in Firmware /\ Execute(r)
  BY DEF DispatchInv, TypeOK, ExecuteLate
<1>2. /\ told' \in [Zones -> Moves \cup {"stop", "nothing"}] /\ config' \in Settings
  BY <1>1, ExecuteKeeps
<1>3. call' = [k \in Callers |-> Disturbed(k, r)]
  BY DEF ExecuteLate
<1>4. ASSUME NEW b \in Callers
      PROVE  call'[b] \in Call /\ Progress(call'[b]) /\ Own(call'[b], config') /\ Together(call'[b], told')
  BY <1>1, <1>3, OthersKeep
<1>5. TypeOK'
  BY <1>1, <1>2, <1>3, <1>4 DEF TypeOK, ExecuteLate, bounds
<1> QED
  BY <1>4, <1>5 DEF DispatchInv

\* A command whose requests were all confirmed, or that needs none, may come to any
\* later step.
LEMMA ConfirmedOn ==
  ASSUME DispatchInv, NEW c \in Callers, call[c].pc \in {"fetchG1", "fetchG2", "send"},
         NEW j \in Call, j.pc \in {"fetchG2", "send", "ok", "failed"},
         j.cmd = call[c].cmd, j.accepted = call[c].accepted
  PROVE  Progress(j) /\ Together(j, told)
<1>1. Progress(call[c])
  BY DEF DispatchInv
<1>2. Progress(j)
  BY <1>1 DEF Progress
<1>3. j.cmd.action \notin Compound
  BY <1>1 DEF Progress, Compound
<1> QED
  BY <1>2, <1>3 DEF Together

LEMMA ReadBackStep ==
  ASSUME DispatchInv, NEW c \in Callers, ReadBack(c)
  PROVE  DispatchInv'
<1>1. TypeOK /\ call[c] \in Call /\ Own(call[c], config)
  BY DEF DispatchInv, TypeOK
<1>2. /\ call[c].read \in Settings /\ call[c].mine \in Settings /\ config \in Settings
      /\ {"g1", "g2"} = Houses /\ {"fetchG2", "send"} \subseteq Steps
  BY <1>1 DEF Call, TypeOK, Houses, Steps
<1>3. UNCHANGED <<told, config, shown, late, known, bounds>>
  BY DEF ReadBack
<1>4. CASE /\ At(c, "fetchG1")
           /\ call' = [call EXCEPT ![c].pc = "fetchG2", ![c].read["g1"] = config["g1"]]
  <2> DEFINE j == [call[c] EXCEPT !.pc = "fetchG2", !.read = [call[c].read EXCEPT !["g1"] = config["g1"]]]
  <2>1. call' = [call EXCEPT ![c] = j]
    BY <1>1, <1>4 DEF TypeOK, Call
  <2>2. [call[c].read EXCEPT !["g1"] = config["g1"]] \in Settings
    BY <1>2 DEF Settings
  <2>3. /\ j \in Call /\ j.pc = "fetchG2" /\ j.cmd = call[c].cmd /\ j.accepted = call[c].accepted
        /\ j.mine = call[c].mine /\ j.read["g1"] = config["g1"]
    BY <1>1, <1>2, <2>2 DEF Call, Settings
  <2> HIDE DEF j
  <2>4. Progress(j) /\ Together(j, told)
    BY <1>4, <2>3, ConfirmedOn DEF At
  <2>5. Own(j, config)
    BY <1>1, <1>2, <2>3 DEF Own, Settings
  <2> QED
    BY <1>1, <1>3, <2>1, <2>3, <2>4, <2>5, OneCaller DEF TypeOK, bounds
<1>5. CASE /\ At(c, "fetchG2")
           /\ call' = [call EXCEPT ![c].pc = "send", ![c].read["g2"] = config["g2"]]
  <2> DEFINE j == [call[c] EXCEPT !.pc = "send", !.read = [call[c].read EXCEPT !["g2"] = config["g2"]]]
  <2>1. call' = [call EXCEPT ![c] = j]
    BY <1>1, <1>5 DEF TypeOK, Call
  <2>2. [call[c].read EXCEPT !["g2"] = config["g2"]] \in Settings
    BY <1>2 DEF Settings
  <2>3. /\ j \in Call /\ j.pc = "send" /\ j.cmd = call[c].cmd /\ j.accepted = call[c].accepted
        /\ j.mine = call[c].mine /\ j.read["g2"] = config["g2"] /\ j.read["g1"] = call[c].read["g1"]
    BY <1>1, <1>2, <2>2 DEF Call, Settings
  <2> HIDE DEF j
  <2>4. Progress(j) /\ Together(j, told)
    BY <1>5, <2>3, ConfirmedOn DEF At
  <2>5. Own(j, config)
    BY <1>1, <1>2, <1>5, <2>3 DEF Own, Settings, At
  <2> QED
    BY <1>1, <1>3, <2>1, <2>3, <2>4, <2>5, OneCaller DEF TypeOK, bounds
<1> QED
  BY <1>4, <1>5 DEF ReadBack

LEMMA SendConfigStep ==
  ASSUME DispatchInv, NEW c \in Callers, SendConfig(c)
  PROVE  DispatchInv'
<1> DEFINE j == [call[c] EXCEPT !.pc = "ok"]
<1>1. /\ TypeOK /\ call[c] \in Call /\ Own(call[c], config) /\ At(c, "send") /\ "ok" \in Steps
      /\ call[c].read \in Settings
  BY DEF DispatchInv, TypeOK, SendConfig, Steps, Ended, Call
<1>2. call' = [call EXCEPT ![c] = j]
  BY <1>1 DEF SendConfig, Step, TypeOK
<1>3. /\ j \in Call /\ j.pc = "ok" /\ j.cmd = call[c].cmd /\ j.accepted = call[c].accepted
      /\ j.mine = call[c].mine /\ j.read = call[c].read
  BY <1>1, OnlyStep
<1> HIDE DEF j
<1>4. Progress(j) /\ Together(j, told)
  BY <1>1, <1>3, ConfirmedOn DEF At
<1>5. Own(j, config)
  BY <1>1, <1>3 DEF Own
<1> QED
  BY <1>1, <1>2, <1>3, <1>4, <1>5, OneCaller DEF TypeOK, SendConfig, bounds

LEMMA ConfigFailsStep ==
  ASSUME DispatchInv, NEW c \in Callers, ConfigFails(c)
  PROVE  DispatchInv'
<1> DEFINE s == IF call[c].cmd.action = "update_config" THEN "ok" ELSE "failed"
           j == [call[c] EXCEPT !.pc = s]
<1>1. TypeOK /\ call[c] \in Call /\ Own(call[c], config) /\ s \in Steps /\ s \in {"ok", "failed"}
  BY DEF DispatchInv, TypeOK, Steps, Ended
<1>2. call' = [call EXCEPT ![c] = j] /\ UNCHANGED <<told, config, shown, late, known>>
  BY <1>1 DEF ConfigFails, Step, TypeOK
<1>3. /\ j \in Call /\ j.pc = s /\ j.cmd = call[c].cmd /\ j.accepted = call[c].accepted
      /\ j.mine = call[c].mine /\ j.read = call[c].read
  BY <1>1, OnlyStep
<1> HIDE DEF j, s
<1>4. Progress(j) /\ Together(j, told)
  BY <1>1, <1>3, ConfirmedOn DEF ConfigFails
<1>5. Own(j, config)
  BY <1>1, <1>3 DEF Own
<1>6. taken' \in [Callers -> Nat] /\ faults' \in Nat /\ crashes' \in Nat
  BY <1>1, FaultType DEF ConfigFails, TypeOK, bounds
<1> QED
  BY <1>1, <1>2, <1>3, <1>4, <1>5, <1>6, OneCaller DEF TypeOK

LEMMA CrashStep ==
  ASSUME DispatchInv, Crash
  PROVE  DispatchInv'
<1>1. /\ NoCall \in Call /\ NoCall.pc = "none" /\ NoCall.cmd = NoCommand
      /\ NoCall.mine = NoSettings
  BY Fresh DEF NoCall, Steps, Ended
<1>2. Progress(NoCall) /\ Together(NoCall, told) /\ Own(NoCall, config)
  BY <1>1 DEF Progress, Together, Own, NoSettings, DispatchInv, TypeOK, Settings
<1>3. TypeOK'
  BY <1>1 DEF DispatchInv, TypeOK, Crash
<1>4. \A b \in Callers : call'[b] = NoCall /\ UNCHANGED <<told, config>>
  BY DEF Crash
<1> QED
  BY <1>2, <1>3, <1>4 DEF DispatchInv

-----------------------------------------------------------------------------
(* The theorems                                                            *)

\* The invariant is inductive.
THEOREM DispatchInvariant == Spec => []DispatchInv
<1>1. Init => DispatchInv
  BY InvInit
<1>2. DispatchInv /\ [Next]_vars => DispatchInv'
  <2> SUFFICES ASSUME DispatchInv, [Next]_vars PROVE DispatchInv'
    OBVIOUS
  <2>1. CASE \E g \in Houses : Learn(g)
    BY <2>1, LearnStep
  <2>2. CASE \E r \in late : ExecuteLate(r)
    BY <2>2, ExecuteLateStep
  <2>3. ASSUME NEW c \in Callers, NEW m \in Offer[c], Take(c, m) PROVE DispatchInv'
    <3>1. m \in Command
      BY DispatchAssumption
    <3> QED
      BY <2>3, <3>1, TakeStep
  <2>4. ASSUME NEW c \in Callers, Accept(c) \/ Fail(c) PROVE DispatchInv'
    BY <2>4, AcceptStep, FailStep
  <2>5. ASSUME NEW c \in Callers, ReadBack(c) \/ SendConfig(c) \/ ConfigFails(c) PROVE DispatchInv'
    BY <2>5, ReadBackStep, SendConfigStep, ConfigFailsStep
  <2>6. CASE Crash
    BY <2>6, CrashStep
  <2>7. CASE UNCHANGED vars
    BY <2>7 DEF DispatchInv, TypeOK, vars, bounds
  <2> QED
    BY <2>1, <2>2, <2>3, <2>4, <2>5, <2>6, <2>7 DEF Next
<1> QED
  BY <1>1, <1>2, PTL DEF Spec

\* Every state is well typed.
THEOREM DispatchTypes == Spec => []TypeOK
<1>1. DispatchInv => TypeOK
  BY DEF DispatchInv
<1> QED
  BY <1>1, DispatchInvariant, PTL

\* Of the commands that CommandGuard lets through, _map_command refuses only changes of
\* settings that name none.
THEOREM TablesAlwaysAgree == Spec => []TablesAgree
<1>1. DispatchInv => TablesAgree
  BY TablesFit DEF DispatchInv, Progress, TablesAgree, At
<1> QED
  BY <1>1, DispatchInvariant, PTL

\* HttpController.dispatch succeeds only with all requests of the command confirmed.
THEOREM SuccessIsAlwaysComplete == Spec => []SuccessIsComplete
<1>1. DispatchInv => SuccessIsComplete
  BY DEF DispatchInv, Progress, SuccessIsComplete
<1> QED
  BY <1>1, DispatchInvariant, PTL

\* full_open and full_close of greenhouse 1 leave both zones told the same, unless
\* another request came in between.
THEOREM ZonesAlwaysTogether == Spec => []ZonesTogether
<1>1. DispatchInv => ZonesTogether
  <2> SUFFICES ASSUME DispatchInv, NEW c \in Callers, At(c, "ok"),
                      call[c].cmd.target = "g1", call[c].cmd.action \in Compound, call[c].alone,
                      NEW z \in Zones
               PROVE  told[z] = call[c].cmd.action
    BY DEF ZonesTogether
  <2>1. Progress(call[c]) /\ Together(call[c], told) /\ call[c].cmd \in Command /\ call[c].cmd # NoCommand
    BY DispatchAssumption DEF DispatchInv, Progress, At
  <2>2. call[c].cmd.action # "refresh_configs"
    BY DEF Compound
  <2>3. call[c].accepted = Requests(call[c].cmd)
    BY <2>1, <2>2 DEF Progress, At
  <2>4. Len(call[c].accepted) = 2
    BY <2>3, CompoundRequests
  <2> QED
    BY <2>1, <2>4 DEF Together, At, Zones
<1> QED
  BY <1>1, DispatchInvariant, PTL

\* What _send_config_snapshot sends after a change contains the change.
THEOREM OwnChangeIsAlwaysSent == Spec => []OwnChangeIsSent
<1>1. DispatchInv => OwnChangeIsSent
  BY DEF DispatchInv, Own, OwnChangeIsSent, At, Houses
<1> QED
  BY <1>1, DispatchInvariant, PTL
=============================================================================
