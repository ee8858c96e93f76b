--------------------------- MODULE MCCommandDispatch ---------------------------
(* Instances of CommandDispatch for TLC.                                       *)
EXTENDS CommandDispatch

\* Every command there is comes in a packet; meanwhile the queue hands out a few that
\* touch the zones and the settings, in the queue's words.
Some ==
  {[target |-> "g1", action |-> "full_close", params |-> "none"],
   [target |-> "g1.zone2", action |-> "open_step", params |-> "none"],
   [target |-> "g2", action |-> "update_config", params |-> "setting"],
   [target |-> "g1", action |-> "auto", params |-> "useless"],
   [target |-> "g9", action |-> "stop", params |-> "none"]}
\* Parameters matter to two actions only.
All == {m \in Command : m.action \in {"set_mode", "update_config"} \/ m.params = "none"}
MCOffer == [c \in Callers |-> IF c = "legacy" THEN All ELSE Some]
MCTaken == [c \in Callers |-> IF c = "legacy" THEN 1 ELSE 2]
=============================================================================
