---------------------------- MODULE MCBotSwitch ----------------------------
(* Small instances of BotSwitch: a start and what two further requests     *)
(* make of it.                                                             *)
EXTENDS BotSwitch

ThreeRequests == 1..3
AllKinds == [r \in ThreeRequests |-> {"start", "off", "cancel", "restart"}]
SomeOverlap == <<{}, {"start", "off", "cancel"}, {"off"}>>
RestartThenOff == <<{"start"}, {"restart"}, {"off"}>>
NoOverlap == [r \in ThreeRequests |-> {}]
============================================================================
