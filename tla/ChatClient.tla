----------------------------- MODULE ChatClient -----------------------------
(***************************************************************************)
(* The client program (src/client.cpp), one at every host: a loop that     *)
(* waits in select() for a line of the user or data from the server, and   *)
(* handles the one or the other.  A command that fails a check of the      *)
(* client's is answered with ERROR and changes nothing: no step.           *)
(*                                                                         *)
(* Of the two forms in which the client keeps the list it was sent, the    *)
(* text clientList is only shown; clientIPVector is what the checks look   *)
(* into, and they ask only what is in it.                                  *)
(***************************************************************************)
EXTENDS Network

VARIABLES
    listening_port,   \* the port this process was started with
    sock,             \* its connection, NoConn while logged out
    clientIPVector,   \* addresses in the last NEWLIST it handled
    blockedClients,   \* addresses it has asked the server to block
    taken             \* frames of each connection that its reads have taken

clientVars == <<listening_port, sock, clientIPVector, blockedClients, taken>>

ClientInit ==
    /\ listening_port \in [IPs -> Ports]
    /\ \A h \in IPs : listening_port[h] \in ListenPorts[h]
    /\ sock = [h \in IPs |-> NoConn]
    /\ clientIPVector = [h \in IPs |-> {}]
    /\ blockedClients = [h \in IPs |-> {}]
    /\ taken = [c \in Conns |-> 0]

loggedin(h) == sock[h] # NoConn

-----------------------------------------------------------------------------
(* Commands of the user. *)

\* connect() succeeds, and NEWCLIENT is the first frame.
doLOGIN(h) ==
    /\ ~loggedin(h)
    /\ \E c \in Conns :
          /\ Opens(c, h)
          /\ sock' = [sock EXCEPT ![h] = c]
          /\ wrote' = [wrote EXCEPT ![c] =
                <<[type |-> "NEWCLIENT", port |-> listening_port[h]]>>]
    /\ UNCHANGED <<got, shut, out, reset, listening_port, clientIPVector,
                   blockedClients, taken>>

\* networkutil::sendOverSocket of what the user typed.
Write(h, f) ==
    /\ loggedin(h)
    /\ f \in Commands[h]
    /\ Len(wrote[sock[h]]) < MaxTyped[h]
    /\ wrote' = [wrote EXCEPT ![sock[h]] = Append(@, f)]
    /\ UNCHANGED <<peer, got, backlog, out, reset, listening_port, taken>>

ipExistsLocally(h, ip) == ip \in clientIPVector[h]

doREFRESH(h) ==
    /\ Write(h, [type |-> "REFRESH"])
    /\ UNCHANGED <<shut, sock, clientIPVector, blockedClients>>

\* Bug: the address is not looked up.
SENDUnchecked(h, ip, text) ==
    /\ Write(h, [type |-> "SEND", to |-> ip, text |-> text])
    /\ UNCHANGED <<shut, sock, clientIPVector, blockedClients>>

doSEND(h, ip, text) ==
    /\ ipExistsLocally(h, ip)
    /\ Write(h, [type |-> "SEND", to |-> ip, text |-> text])
    /\ UNCHANGED <<shut, sock, clientIPVector, blockedClients>>

doBROADCAST(h, text) ==
    /\ Write(h, [type |-> "BROADCAST", text |-> text])
    /\ UNCHANGED <<shut, sock, clientIPVector, blockedClients>>

doBLOCK(h, ip) ==
    /\ ip \notin blockedClients[h] /\ ipExistsLocally(h, ip)
    /\ Write(h, [type |-> "BLOCK", ip |-> ip])
    /\ blockedClients' = [blockedClients EXCEPT ![h] = @ \cup {ip}]
    /\ UNCHANGED <<shut, sock, clientIPVector>>

\* Bug: the address stays on the client's own list.
UNBLOCKRemembers(h, ip) ==
    /\ ip \in blockedClients[h] /\ ipExistsLocally(h, ip)
    /\ Write(h, [type |-> "UNBLOCK", ip |-> ip])
    /\ UNCHANGED <<shut, sock, clientIPVector, blockedClients>>

doUNBLOCK(h, ip) ==
    /\ ip \in blockedClients[h] /\ ipExistsLocally(h, ip)
    /\ Write(h, [type |-> "UNBLOCK", ip |-> ip])
    /\ blockedClients' = [blockedClients EXCEPT ![h] = @ \ {ip}]
    /\ UNCHANGED <<shut, sock, clientIPVector>>

\* The socket is closed with whatever is unread in it; the process keeps its
\* two lists for the next session.
doLOGOUT(h) ==
    /\ Write(h, [type |-> "LOGOUT"])
    /\ shut' = [shut EXCEPT ![sock[h]] = TRUE]
    /\ sock' = [sock EXCEPT ![h] = NoConn]
    /\ UNCHANGED <<clientIPVector, blockedClients>>

\* The process ends, or dies; the kernel closes its socket.  The host may
\* start another, which knows nothing.
doEXIT(h) ==
    /\ shut' = [c \in Conns |-> shut[c] \/ c = sock[h]]
    /\ sock' = [sock EXCEPT ![h] = NoConn]
    /\ clientIPVector' = [clientIPVector EXCEPT ![h] = {}]
    /\ blockedClients' = [blockedClients EXCEPT ![h] = {}]
    /\ \E p \in ListenPorts[h] :
          listening_port' = [listening_port EXCEPT ![h] = p]
    /\ UNCHANGED <<peer, wrote, got, backlog, out, reset, taken>>

-----------------------------------------------------------------------------
(* Data from the server. *)

\* parseNEWLIST replaces the list.  Bug: it adds to it.
ListedToo(known, f) ==
    IF f.type = "NEWLIST" THEN known \cup Range(f.ips) ELSE known
NowListed(known, f) ==
    IF f.type = "NEWLIST" THEN Range(f.ips) ELSE known

\* How many frames may have been taken when a read returns.  Bug: one more
\* than was sent.
ReadsPastEnd(c) == (taken[c] + 1) .. (Len(out[c]) + 1)
Reads(c) == (taken[c] + 1) .. Len(out[c])

\* One read, and the frame it starts with: a NEWLIST is kept, a NEWMESSAGE or
\* the messages of a backlog are shown.  Frames behind it in the same read
\* are gone.
HandleFrame(h) ==
    LET c == sock[h]
    IN  /\ loggedin(h)
        /\ taken[c] < Len(out[c])
        /\ \E k \in Reads(c) : taken' = [taken EXCEPT ![c] = k]
        /\ clientIPVector' = [clientIPVector EXCEPT ![h] =
              NowListed(@, out[c][taken[c] + 1])]
        /\ UNCHANGED <<peer, wrote, got, shut, backlog, out, reset,
                       listening_port, sock, blockedClients>>

UserStep(h) ==
    \/ doREFRESH(h) \/ doLOGOUT(h) \/ doEXIT(h)
    \/ \E ip \in IPs : \/ doBLOCK(h, ip) \/ doUNBLOCK(h, ip)
                       \/ \E t \in Texts : doSEND(h, ip, t)
    \/ \E t \in Texts : doBROADCAST(h, t)
=============================================================================
