----------------------------- MODULE ChatSystem -----------------------------
(***************************************************************************)
(* The whole system: the server of ChatServer and a client of ChatClient   *)
(* at every host, on the connections of Network.                           *)
(***************************************************************************)
EXTENDS ChatServer, ChatClient

VARIABLE apart   \* history: hosts at which something happened that can take
                 \* the client's block list and the server's apart

sysVars == <<vars, clientVars, apart>>

SysInit == Init /\ ClientInit /\ apart = {}

\* A read that takes several frames drops all but the first.
ServerSide ==
    /\ ServerStep \/ ConsoleStep
    /\ apart' = apart \cup {peer[c] : c \in {d \in Conns :
                                                got'[d] > got[d] + 1}}
    /\ UNCHANGED clientVars

\* The server listens as long as it lives.  What the clients do after its
\* death is not modelled.  A session that overlaps the last one of its host
\* may have that one's frames applied after its own.
LoginSide(h) ==
    /\ alive
    /\ MayConnect(h)
    /\ doLOGIN(h)
    /\ apart' = IF \A c \in Conns : peer[c] = h => Reaped(c)
                THEN apart ELSE apart \cup {h}
    /\ UNCHANGED <<file, alive, scan, ready, clients_sockets, clientMap>>

\* A client that ends while it is logged out tells nobody.
ClientSide(h) ==
    /\ alive
    /\ UserStep(h) \/ HandleFrame(h)
    /\ apart' = IF doEXIT(h) /\ ~loggedin(h) THEN apart \cup {h} ELSE apart
    /\ UNCHANGED <<file, alive, scan, ready, clients_sockets, clientMap>>

SysNext == ServerSide \/ \E h \in IPs : LoginSide(h) \/ ClientSide(h)

SysSpec == SysInit /\ [][SysNext]_sysVars

-----------------------------------------------------------------------------
(* Properties. *)

\* The types of the client's variables, and no read takes more than was sent.
ClientTypeOK ==
    /\ listening_port \in [IPs -> Ports]
    /\ sock \in [IPs -> Conns \cup {NoConn}]
    /\ clientIPVector \in [IPs -> SUBSET IPs]
    /\ blockedClients \in [IPs -> SUBSET IPs]
    /\ taken \in [Conns -> Nat]
    /\ \A c \in Conns : taken[c] <= Len(out[c])

\* Refinement: what ChatServer lets its clients do covers what src/client.cpp
\* does with the lists it keeps, so that every property of ChatServer holds
\* of the whole system.
ImplementsServer == Spec

\* The two ends agree on the sessions: the connection a logged-in client holds
\* is its own and open at its end, the server has it waiting for accept() or
\* at a descriptor, and no other connection of the host is open at this end.
\* In particular the server never closes a session whose client has not ended
\* it, however the sessions of a host overlap and descriptors are reused.
SessionsAgree ==
    /\ \A h \in IPs : loggedin(h) => /\ peer[sock[h]] = h
                                     /\ ~Reaped(sock[h])
    /\ \A c \in Conns : (peer[c] # NoIP /\ ~shut[c]) <=>
                           \E h \in IPs : sock[h] = c

\* What doBLOCK and doUNBLOCK keep is what the server keeps.  Once the server
\* has read all that a host wrote and has seen the end of a session that
\* ended, the record's block list is the client's, unless frames were lost
\* behind another in one read, the client's process ended while it was logged
\* out, or its sessions overlapped.
BlockListsAgree ==
    \A h \in IPs \ apart :
        (\A c \in Conns : peer[c] = h =>
            got[c] = Len(wrote[c]) /\ (shut[c] => Reaped(c)))
        => blockedClients[h] = IF h \in DOMAIN clientMap
                               THEN clientMap[h].blockedClients ELSE {}

-----------------------------------------------------------------------------
(* What the repository says of the clients and the code does not keep. *)

\* README.md:12 "Update client with list of clients upon successful login": a
\* client that has read all it was sent in its session, a list among it, has a
\* list of this session.
ListOnLogin ==
    \A h \in IPs :
        LET sent == out[sock[h]]
            lists == {k \in DOMAIN sent : sent[k].type = "NEWLIST"}
        IN  loggedin(h) /\ taken[sock[h]] = Len(sent) /\ lists # {} =>
                \E k \in lists : clientIPVector[h] = Range(sent[k].ips)

\* README.md:63 "EXIT - Exits program - server will remove information for
\* client": the server has none, or a session whose end it will see.
EXITIsNoticed ==
    [][\A h \in IPs : doEXIT(h) /\ h \in DOMAIN clientMap =>
           \E c \in Conns : peer[c] = h /\ ~Reaped(c)]_sysVars
=============================================================================
