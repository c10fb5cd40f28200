------------------------------ MODULE Network ------------------------------
(***************************************************************************)
(* The TCP connections between the clients and the server, as the kernels  *)
(* keep them, and the frames written on them: what src/server.cpp and      *)
(* src/client.cpp share, and all they share.                               *)
(*                                                                         *)
(* Frames are records, one per call of sendOverSocket.  A read may return  *)
(* several of them (TCP has no message boundaries); how a frame is cut     *)
(* into bytes is the subject of module Framing.  What has been written is  *)
(* never removed: a reader has a cursor.                                   *)
(***************************************************************************)
EXTENDS Integers, Sequences, FiniteSets, SequencesExt

CONSTANTS
    IPs,          \* addresses of the client hosts
    NoIP,         \* the empty address: of an unused connection, and the ip
                  \* of a record that map::operator[] created
    Conns,        \* connections, numbered in the order they are opened
    NoConn,
    Ports,        \* values a record's port can have, initialised or not
    Texts,        \* message texts
    Commands,     \* frames the user at each host may cause to be sent
    ListenPorts,  \* ports a client of each host may be started with
    MaxTyped,     \* bound: frames each host writes on one connection
    Overlap       \* may a host log in before its last session was reaped?

VARIABLES
    peer,             \* host at the client end, NoIP while unused
    wrote,            \* frames the client has written, never removed
    got,              \* how many of them the server's reads have taken
    shut,             \* the client end is closed
    backlog,          \* connections waiting for accept()
    out,              \* frames the server has sent, never removed
    reset             \* the server has sent to a closed client end

netVars == <<peer, wrote, shut>>

ClientFrame ==
    [type : {"REFRESH", "LOGOUT"}]
        \cup [type : {"SEND"}, to : IPs, text : Texts]
        \cup [type : {"BROADCAST"}, text : Texts]
        \cup [type : {"BLOCK", "UNBLOCK"}, ip : IPs]

NewClient == [type : {"NEWCLIENT"}, port : Ports]
NewMessage == [type : {"NEWMESSAGE"}, from : IPs, text : Texts]

ServerFrame ==
    NewMessage
        \cup [type : {"BACKLOGGED_MESSAGES"}, msgs : Seq(NewMessage)]
        \cup [type : {"NEWLIST"}, ips : Seq(IPs)]

\* connect() opens the first connection that was never used.
Opens(c, ip) ==
    /\ peer[c] = NoIP
    /\ \A d \in Conns : d < c => peer[d] # NoIP
    /\ peer' = [peer EXCEPT ![c] = ip]
    /\ backlog' = Append(backlog, c)
=============================================================================
