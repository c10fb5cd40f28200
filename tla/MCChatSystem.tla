---------------------------- MODULE MCChatSystem ----------------------------
(***************************************************************************)
(* Instances of ChatSystem for TLC.                                        *)
(***************************************************************************)
EXTENDS ChatSystem, TLC

CONSTANTS a, b

\* a decides whether to hear b or itself, and comes and goes; b talks.
Talk ==
    a :> {[type |-> "LOGOUT"]} \cup [type : {"BLOCK", "UNBLOCK"}, ip : {a, b}]
    @@ b :> {[type |-> "REFRESH"], [type |-> "BROADCAST", text |-> 1],
             [type |-> "SEND", to |-> a, text |-> 1]}
OnePort == a :> {1} @@ b :> {1}
ThreeTwo == a :> 3 @@ b :> 2
=============================================================================
