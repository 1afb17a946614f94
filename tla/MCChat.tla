------------------------------- MODULE MCChat -------------------------------
(* Chat with a scout, the scout's guardian and two leaders, in one channel:  *)
(* an event's families, its staff, or a patrol.                              *)
EXTENDS Chat, TLC

CONSTANTS scout, mother, ann, bob, channel, r1

Guards == [u \in Users |-> IF u = scout THEN {mother} ELSE {}]
Start  == [u \in Users |-> CASE u = scout -> "scout" [] u = mother -> "parent" [] OTHER -> "leader"]
Either == [Channels -> {"families", "staff", "patrol"}]
Posts  == [c \in Channels |-> "members"]
=============================================================================
