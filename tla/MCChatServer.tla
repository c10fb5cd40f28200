---------------------------- MODULE MCChatServer ----------------------------
(***************************************************************************)
(* Instances of ChatServer for TLC: which commands the clients and the     *)
(* operator may give, and the ports the clients listen on.                 *)
(***************************************************************************)
EXTENDS ChatServer, TLC

CONSTANTS a, b, z

Send(h, t) == [type |-> "SEND", to |-> h, text |-> t]
Broadcast(t) == [type |-> "BROADCAST", text |-> t]
Block(h) == [type |-> "BLOCK", ip |-> h]
Logout == [type |-> "LOGOUT"]
Refresh == [type |-> "REFRESH"]

\* b talks to a, who comes and goes.
Messaging == a :> {Logout} @@ b :> {Send(a, 1), Send(a, 2)}
\* a may block b as well.
Talking == a :> {Logout, Block(b)} @@ b :> {Send(a, 1), Send(a, 2)}
\* All that goes through the list, and z, whose address has no name.
Mixed == a :> {Logout, Refresh} @@ b :> {Send(a, 1), Broadcast(2)} @@ z :> {}
\* a looks at the list, b talks to all in it.
Listing == a :> {Refresh} @@ b :> {Broadcast(1)}
\* b says one thing to a, who comes and goes.
Saying == a :> {Logout} @@ b :> {Send(a, 1)}
\* a blocks b.
Blocking == a :> {Block(b)} @@ b :> {}
\* Nothing is said.
Leaving == a :> {Logout} @@ b :> {}

\* b listens below a; the port of a record that NEWCLIENT has not reached yet
\* reads as either.
TwoPorts == {1, 2}
CrossedPorts == a :> {2} @@ b :> {1}
ThreePorts == CrossedPorts @@ z :> {1}

\* Frames a host writes on a connection, NEWCLIENT included.
TwoThree == a :> 2 @@ b :> 3
TwoOne == a :> 2 @@ b :> 1
TwoTwo == a :> 2 @@ b :> 2
TwoTwoOne == TwoTwo @@ z :> 1
=============================================================================
