----------------------------- MODULE ChatServer -----------------------------
(***************************************************************************)
(* The relay server (src/server.cpp): one thread that waits in select() on *)
(* the listening socket, the console and the sockets of the logged-in      *)
(* clients, and handles what is ready.  Its state is the descriptor table  *)
(* the kernel keeps for it (file) and what the process holds: alive, scan, *)
(* ready, clients_sockets, clientMap.  It has no variable of the clients:  *)
(* what the program in src/client.cpp can do to a connection is an action, *)
(* here without its local checks, which are in ChatClient; ChatSystem      *)
(* composes the two.                                                       *)
(*                                                                         *)
(* A value that the code reads before it has written it is Indet until a   *)
(* reader resolves it nondeterministically.                                *)
(***************************************************************************)
EXTENDS Network, SelectionSort

CONSTANTS
    Fds,          \* descriptors the server can have for clients
    Indet,        \* content of a field the code never initialised
    Console,      \* commands the operator types at the server
    Resolvable    \* hosts whose address has a name in the DNS

ASSUME ConstantsAssumption ==
    /\ NoIP \notin IPs
    /\ Conns \subseteq Nat /\ NoConn \notin Conns
    /\ Fds \subseteq Nat /\ Ports \subseteq Int
    /\ Indet \notin Fds \cup Ports /\ Indet \notin BOOLEAN
    /\ Commands \in [IPs -> SUBSET ClientFrame]
    /\ Console \subseteq {"LIST", "STATISTICS", "BLOCKED"}
    /\ ListenPorts \in [IPs -> SUBSET Ports]
    /\ MaxTyped \in [IPs -> Nat]
    /\ Overlap \in BOOLEAN

VARIABLES
    file,             \* the server's descriptors
    alive,            \* the server process runs
    scan,             \* 0 in select(), else next index of the loop over
                      \* clients_sockets
    ready,            \* the client descriptors left set in master_list
    clients_sockets,
    clientMap

vars == <<peer, wrote, got, shut, backlog, out, reset, file,
          alive, scan, ready, clients_sockets, clientMap>>

Keys == IPs \cup {NoIP}

clientobj ==
    [sock : Fds \cup {Indet},
     ip : Keys,
     online : BOOLEAN \cup {Indet},
     port : Ports \cup {Indet},
     storedMessages : Seq(NewMessage),
     blockedClients : SUBSET IPs,
     msgsrecvd : Nat,
     msgssent : Nat]

\* The pairs in clients_sockets.
Entry == [sock : Fds, ip : IPs]

\* A record as the constructor leaves it: only the two counters are set.
DefaultClient ==
    [sock |-> Indet, ip |-> NoIP, online |-> Indet, port |-> Indet,
     storedMessages |-> <<>>, blockedClients |-> {},
     msgsrecvd |-> 0, msgssent |-> 0]

\* clientMap[k], used as an expression, inserts a default record for a key
\* that is not there.
Touch(m, K) ==
    [k \in DOMAIN m \cup K |-> IF k \in DOMAIN m THEN m[k] ELSE DefaultClient]

Init ==
    /\ peer = [c \in Conns |-> NoIP]
    /\ wrote = [c \in Conns |-> <<>>]
    /\ got = [c \in Conns |-> 0]
    /\ shut = [c \in Conns |-> FALSE]
    /\ backlog = <<>>
    /\ out = [c \in Conns |-> <<>>]
    /\ reset = [c \in Conns |-> FALSE]
    /\ file = [fd \in Fds |-> NoConn]
    /\ alive = TRUE
    /\ scan = 0
    /\ ready = {}
    /\ clients_sockets = <<>>
    /\ clientMap = [k \in {} |-> DefaultClient]

-----------------------------------------------------------------------------
(* The clients' ends of the connections. *)

\* The server has closed its end of d (or d was never used).
Reaped(d) == /\ \A k \in DOMAIN backlog : backlog[k] # d
             /\ \A fd \in Fds : file[fd] # d

\* A host runs one client, which has one socket.  With Overlap = FALSE its
\* user also waits until the server has dealt with the last session.
MayConnect(ip) ==
    \A d \in Conns : peer[d] = ip => shut[d] /\ (Overlap \/ Reaped(d))

\* client::doLOGIN: connect and announce the listening port.
ClientLogin(c, ip) ==
    /\ alive
    /\ MayConnect(ip)
    /\ Opens(c, ip)
    /\ \E p \in ListenPorts[ip] :
          wrote' = [wrote EXCEPT ![c] = <<[type |-> "NEWCLIENT", port |-> p]>>]
    /\ UNCHANGED <<got, shut, out, reset, file, alive, scan, ready,
                   clients_sockets, clientMap>>

\* doSEND, doBLOCK and doUNBLOCK want the address in the list the client was
\* last sent; it is at least in a list that some session of the host was sent.
Known(c, ip) ==
    \E d \in Conns : /\ peer[d] = peer[c]
                     /\ \E k \in DOMAIN out[d] :
                           /\ out[d][k].type = "NEWLIST"
                           /\ ip \in Range(out[d][k].ips)

\* doREFRESH, doSEND, doBROADCAST, doBLOCK and doUNBLOCK write one frame;
\* doLOGOUT writes LOGOUT and closes the socket.
ClientCommand(c, f) ==
    /\ alive
    /\ peer[c] # NoIP /\ ~shut[c]
    /\ f \in Commands[peer[c]]
    /\ f.type = "SEND" => Known(c, f.to)
    /\ f.type \in {"BLOCK", "UNBLOCK"} => Known(c, f.ip)
    /\ Len(wrote[c]) < MaxTyped[peer[c]]
    /\ wrote' = [wrote EXCEPT ![c] = Append(@, f)]
    /\ shut' = [shut EXCEPT ![c] = f.type = "LOGOUT"]
    /\ UNCHANGED <<peer, got, backlog, out, reset, file, alive, scan, ready,
                   clients_sockets, clientMap>>

\* client::doEXIT, or the end of the client process for any other reason:
\* nothing is written, the kernel closes the socket.
ClientExit(c) ==
    /\ alive
    /\ peer[c] # NoIP /\ ~shut[c]
    /\ shut' = [shut EXCEPT ![c] = TRUE]
    /\ UNCHANGED <<peer, wrote, got, backlog, out, reset, file, alive, scan,
                   ready, clients_sockets, clientMap>>

-----------------------------------------------------------------------------
(* Writing to sockets. *)

ConnAt(fd) == IF fd \in Fds THEN file[fd] ELSE NoConn

Repeat(x, k) == [d \in 1 .. k |-> x]

\* networkutil::sendOverSocket for every frame of mail[c], on each c.  What
\* is sent to a closed client end is lost and draws a RST, if closing it with
\* frames still unread has not drawn one already; a send after the RST raises
\* SIGPIPE, which nothing catches.  A send on a descriptor that is not open
\* fails, unnoticed: the -1 compares as a large unsigned number and ends the
\* loop.
Transmit(mail) ==
    /\ out' = [c \in Conns |-> IF shut[c] THEN out[c] ELSE out[c] \o mail[c]]
    /\ reset' = [c \in Conns |-> reset[c] \/ (shut[c] /\ mail[c] # <<>>)]
    /\ alive' \in IF \E c \in Conns : /\ shut[c]
                                      /\ mail[c] # <<>>
                                      /\ \/ reset[c] \/ Len(mail[c]) > 1
                                         \/ out[c] # <<>>
                  THEN BOOLEAN ELSE {TRUE}

Frames(fd, fs) == [c \in Conns |-> IF ConnAt(fd) = c THEN fs ELSE <<>>]
NoMail == [c \in Conns |-> <<>>]

\* What a read of a field that may be uninitialised can return.
Readings(x, Values) == IF x = Indet THEN Values ELSE {x}

-----------------------------------------------------------------------------
(* select() and the loop over clients_sockets.  The listening socket and   *)
(* the console have priority: clients are looked at only when neither is   *)
(* ready.                                                                  *)

Waiting == alive /\ scan = 0 /\ backlog = <<>>

\* Bug: the end of a connection does not wake select() up.
ReadableNoEOF(c) == got[c] < Len(wrote[c])

Readable(c) == got[c] < Len(wrote[c]) \/ shut[c]

\* Bug: select() is not told to look at the descriptor with the largest number.
ActiveBelowMax ==
    {fd \in Fds : /\ \E j, k \in DOMAIN clients_sockets :
                        /\ clients_sockets[j].sock = fd
                        /\ clients_sockets[k].sock > fd
                  /\ file[fd] # NoConn
                  /\ Readable(file[fd])}

Active == {fd \in Fds : /\ \E k \in DOMAIN clients_sockets :
                              clients_sockets[k].sock = fd
                        /\ file[fd] # NoConn
                        /\ Readable(file[fd])}

Select ==
    /\ Waiting
    /\ Active # {}
    /\ ready' = Active
    /\ scan' = 1
    /\ UNCHANGED <<netVars, got, backlog, out, reset, file, alive,
                   clients_sockets, clientMap>>

\* The next index of the loop whose descriptor is set in master_list.
Scanned(i) ==
    /\ alive /\ scan > 0
    /\ i >= scan
    /\ clients_sockets[i].sock \in ready
    /\ \A k \in scan .. (i - 1) : clients_sockets[k].sock \notin ready

ScanDone ==
    /\ alive /\ scan > 0
    /\ \A i \in scan .. Len(clients_sockets) :
          clients_sockets[i].sock \notin ready
    /\ scan' = 0
    /\ ready' = {}
    /\ UNCHANGED <<netVars, got, backlog, out, reset, file, alive,
                   clients_sockets, clientMap>>

\* activeClient, its connection, and the frame the next read starts with.
Client(i) == clients_sockets[i]
Sender(i) == clients_sockets[i].ip
Wire(i) == file[clients_sockets[i].sock]
Received(i) == wrote[Wire(i)][got[Wire(i)] + 1]

\* clientMap after getLeftOverMessage() at the head of the loop's body.
Fetched(i) == Touch(clientMap, {Sender(i)})

\* How many frames of c may have been taken when a read of it returns.
\* Bug: one more than was written.
TakenPastEnd(c) == (got[c] + 1) .. (Len(wrote[c]) + 1)
Taken(c) == (got[c] + 1) .. Len(wrote[c])

\* readFromSocket returns a frame of this type.  The read may have brought
\* more frames than that one: they are cut off and never looked at again.
\* With nothing to read it blocks, and the server with it: no step.
ReadFrame(i, type) ==
    /\ Scanned(i)
    /\ got[Wire(i)] < Len(wrote[Wire(i)])
    /\ Received(i).type = type
    /\ \E k \in Taken(Wire(i)) : got' = [got EXCEPT ![Wire(i)] = k]
    /\ scan' = i + 1

\* readFromSocket returns nothing: read() saw the end of the connection.
ReadEOF(i) ==
    /\ Scanned(i)
    /\ got[Wire(i)] = Len(wrote[Wire(i)])
    /\ shut[Wire(i)]
    /\ scan' = i + 1
    /\ UNCHANGED got

-----------------------------------------------------------------------------
(* A client's session begins and ends.                                     *)

\* The record of a host that logs in again.
\* Bug: setSocket is forgotten.
LoggedInStale(r, fd) ==
    [r EXCEPT !.online = TRUE, !.msgsrecvd = @ + Len(r.storedMessages)]
LoggedIn(r, fd) ==
    [r EXCEPT !.online = TRUE, !.sock = fd,
              !.msgsrecvd = @ + Len(r.storedMessages)]

\* The listening socket is ready: accept() and addClient.  A host that has a
\* record is put online on the new socket and is sent its stored messages,
\* which stay stored; another gets a record, whose port is not set.
Accept ==
    /\ alive /\ scan = 0 /\ backlog # <<>>
    /\ peer[Head(backlog)] \in Resolvable
    /\ \E fd \in Fds :
          /\ file[fd] = NoConn
          /\ \A d \in Fds : d < fd => file[d] # NoConn
          /\ LET c  == Head(backlog)
                 ip == peer[c]
             IN  /\ file' = [file EXCEPT ![fd] = c]
                 /\ clients_sockets' = Append(clients_sockets,
                                              [sock |-> fd, ip |-> ip])
                 /\ \/ /\ ip \in DOMAIN clientMap
                       /\ clientMap' = [clientMap EXCEPT
                                            ![ip] = LoggedIn(@, fd)]
                       /\ Transmit([NoMail EXCEPT ![c] =
                              <<[type |-> "BACKLOGGED_MESSAGES",
                                 msgs |-> clientMap[ip].storedMessages]>>])
                    \/ /\ ip \notin DOMAIN clientMap
                       /\ clientMap' = [k \in DOMAIN clientMap \cup {ip} |->
                              IF k = ip
                              THEN [DefaultClient EXCEPT !.sock = fd,
                                                         !.ip = ip,
                                                         !.online = TRUE]
                              ELSE clientMap[k]]
                       /\ UNCHANGED <<out, reset, alive>>
    /\ backlog' = Tail(backlog)
    /\ UNCHANGED <<netVars, got, scan, ready>>

\* gethostbyaddr() finds no name and the server reads through a null pointer.
AcceptUnresolved ==
    /\ alive /\ scan = 0 /\ backlog # <<>>
    /\ peer[Head(backlog)] \notin Resolvable
    /\ \E fd \in Fds : file[fd] = NoConn
    /\ alive' = FALSE
    /\ UNCHANGED <<netVars, got, backlog, out, reset, file, scan, ready,
                   clients_sockets, clientMap>>

\* setOnlineStatus(false).  Bug: it is forgotten.
LeftOnline(r) == r
LoggedOut(r) == [r EXCEPT !.online = FALSE]

\* close().  Bug: it is forgotten.
LeftOpen(fd) == file
Closed(fd) == [file EXCEPT ![fd] = NoConn]

\* FD_CLR and logClientOut: the first entry with the descriptor leaves the
\* list, the host of that entry goes offline and the descriptor is closed.
\* m is clientMap on entry, K the keys erased from it afterwards.
logClientOut(fd, m, K) ==
    \E k \in DOMAIN clients_sockets :
        /\ clients_sockets[k].sock = fd
        /\ \A l \in 1 .. (k - 1) : clients_sockets[l].sock # fd
        /\ LET ip == clients_sockets[k].ip
               n  == Touch(m, {ip})
           IN  clientMap' = [h \in DOMAIN n \ K |->
                     IF h = ip THEN LoggedOut(n[h]) ELSE n[h]]
        /\ clients_sockets' = RemoveAt(clients_sockets, k)
        /\ file' = Closed(fd)
        /\ ready' = ready \ {fd}
        /\ UNCHANGED <<netVars, backlog, out, reset, alive>>

\* Bug: the socket is taken from the record, which a later session may own.
LOGOUTByRecord(i) ==
    /\ ReadFrame(i, "LOGOUT")
    /\ logClientOut(Fetched(i)[Sender(i)].sock, Fetched(i), {})

\* The record stays, offline.
parseLOGOUT(i) ==
    /\ ReadFrame(i, "LOGOUT")
    /\ logClientOut(Client(i).sock, Fetched(i), {})

\* Bug: the record is erased first, and logClientOut creates another.
EXITErasesFirst(i) ==
    /\ ReadEOF(i)
    /\ logClientOut(Client(i).sock,
                    [k \in DOMAIN Fetched(i) \ {Sender(i)} |-> Fetched(i)[k]],
                    {})

\* The end of the connection: the record goes too.
parseEXIT(i) ==
    /\ ReadEOF(i)
    /\ logClientOut(Client(i).sock, Fetched(i), {Sender(i)})

-----------------------------------------------------------------------------
(* The client list.                                                        *)

Listed == {clients_sockets[k].ip : k \in DOMAIN clients_sockets}

\* getListOfClients puts clients_sockets itself in the order of the ports
\* (what a port not yet announced by NEWCLIENT holds is anything), and every
\* clientMap[...] on the way leaves a record.  m is clientMap on entry.
getListOfClients(m) ==
    /\ clientMap' = Touch(m, Listed)
    /\ \E port \in [Listed -> Ports] :
          /\ \A h \in Listed : port[h] \in Readings(clientMap'[h].port, Ports)
          /\ LET n     == Len(clients_sockets)
                 order == selectionSortArray(
                              [k \in 1 .. n |-> port[clients_sockets[k].ip]])
             IN  clients_sockets' = [k \in 1 .. n |->
                                        clients_sockets[order[k]]]

\* The client that asks gets the list and the addresses, in that order.
sendListAndIPs(i, m) ==
    /\ getListOfClients(m)
    /\ Transmit(Frames(Client(i).sock,
                       <<[type |-> "NEWLIST",
                          ips |-> [k \in DOMAIN clients_sockets' |->
                                      clients_sockets'[k].ip]]>>))
    /\ UNCHANGED <<netVars, backlog, file, ready>>

parseREFRESH(i) ==
    /\ ReadFrame(i, "REFRESH")
    /\ sendListAndIPs(i, Fetched(i))

\* parseNEWCLIENT saves the port the client listens on; the list goes out
\* in the same turn of the loop.
parseNEWCLIENT(i) ==
    /\ ReadFrame(i, "NEWCLIENT")
    /\ sendListAndIPs(i, [Fetched(i) EXCEPT ![Sender(i)].port =
                             Received(i).port])

-----------------------------------------------------------------------------
(* Messages.                                                               *)

\* isClientBlocked(x) == false.  Bug: nobody looks.
HearsAll(r, x) == TRUE
Hears(r, x) == x \notin r.blockedClients

\* addMessages.  Bug: what comes last is put first.
StoredFirst(r, msgs) == [r EXCEPT !.storedMessages = msgs \o @]
Stored(r, msgs) == [r EXCEPT !.storedMessages = @ \o msgs]

\* Relay to each destination in dests, one for every index, that has a record
\* and does not block the sender.  One whose record says online is sent the
\* message at the socket the record names, another has it stored.
Relay(i, dests) ==
    LET m == [Fetched(i) EXCEPT ![Sender(i)].msgssent = @ + 1]
        message == [type |-> "NEWMESSAGE", from |-> Sender(i),
                    text |-> Received(i).text]
        hearers == {y \in Range(dests) \cap DOMAIN m : Hears(m[y], Sender(i))}
        times(y) == Cardinality({k \in DOMAIN dests : dests[k] = y})
    IN  \E up \in SUBSET hearers, via \in [hearers -> Fds \cup {Indet}] :
          /\ \A y \in hearers :
                /\ (y \in up) \in Readings(m[y].online, BOOLEAN)
                /\ via[y] \in Readings(m[y].sock, Fds \cup {Indet})
          /\ clientMap' = [y \in DOMAIN m |->
                IF y \in up
                THEN [m[y] EXCEPT !.msgsrecvd = @ + times(y)]
                ELSE IF y \in hearers
                THEN Stored(m[y], Repeat(message, times(y)))
                ELSE m[y]]
          /\ Transmit([c \in Conns |-> Repeat(message, Cardinality(
                {k \in DOMAIN dests : /\ dests[k] \in up
                                      /\ ConnAt(via[dests[k]]) = c}))])

\* Bug: the message is counted and not sent.
SENDUnsent(i) ==
    /\ ReadFrame(i, "SEND")
    /\ clientMap' = [Fetched(i) EXCEPT ![Sender(i)].msgssent = @ + 1]
    /\ UNCHANGED <<netVars, backlog, out, reset, file, alive, ready,
                   clients_sockets>>

parseSEND(i) ==
    /\ ReadFrame(i, "SEND")
    /\ Relay(i, <<Received(i).to>>)
    /\ UNCHANGED <<netVars, backlog, file, ready, clients_sockets>>

\* To every entry of the list but the sender's own: a host that is listed
\* twice is told twice, one that is logged out is not told at all.
parseBROADCAST(i) ==
    /\ ReadFrame(i, "BROADCAST")
    /\ Relay(i, [k \in {l \in DOMAIN clients_sockets :
                           clients_sockets[l].ip # Sender(i)} |->
                    clients_sockets[k].ip])
    /\ UNCHANGED <<netVars, backlog, file, ready, clients_sockets>>

parseBLOCK(i) ==
    /\ ReadFrame(i, "BLOCK")
    /\ clientMap' = [Fetched(i) EXCEPT ![Sender(i)].blockedClients =
                        @ \cup {Received(i).ip}]
    /\ UNCHANGED <<netVars, backlog, out, reset, file, alive, ready,
                   clients_sockets>>

parseUNBLOCK(i) ==
    /\ ReadFrame(i, "UNBLOCK")
    /\ clientMap' = [Fetched(i) EXCEPT ![Sender(i)].blockedClients =
                        @ \ {Received(i).ip}]
    /\ UNCHANGED <<netVars, backlog, out, reset, file, alive, ready,
                   clients_sockets>>

-----------------------------------------------------------------------------
(* The console.  AUTHOR, IP and PORT change nothing.                       *)

doLIST ==
    /\ "LIST" \in Console
    /\ Waiting
    /\ getListOfClients(clientMap)
    /\ UNCHANGED <<netVars, got, backlog, out, reset, file, alive, scan,
                   ready>>

\* getStatistics looks the records up again by the address they hold.
doSTATISTICS ==
    /\ "STATISTICS" \in Console
    /\ Waiting
    /\ clientMap' = Touch(clientMap, {clientMap[k].ip : k \in DOMAIN clientMap})
    /\ UNCHANGED <<netVars, got, backlog, out, reset, file, alive, scan,
                   ready, clients_sockets>>

\* getListOfBlockedClients looks up every blocked address, then the address
\* that record holds.
doBLOCKED(ip) ==
    /\ "BLOCKED" \in Console
    /\ Waiting
    /\ ip \in DOMAIN clientMap
    /\ LET blocked == clientMap[ip].blockedClients
           m == Touch(clientMap, blocked)
       IN  clientMap' = Touch(m, {m[k].ip : k \in blocked})
    /\ UNCHANGED <<netVars, got, backlog, out, reset, file, alive, scan,
                   ready, clients_sockets>>

-----------------------------------------------------------------------------
\* One turn of the loop over clients_sockets.
Serve(i) == \/ parseREFRESH(i) \/ parseNEWCLIENT(i)
            \/ parseLOGOUT(i)  \/ parseEXIT(i)
            \/ parseSEND(i)    \/ parseBROADCAST(i)
            \/ parseBLOCK(i)   \/ parseUNBLOCK(i)

ServerStep == \/ Accept \/ AcceptUnresolved
              \/ Select \/ ScanDone
              \/ \E i \in DOMAIN clients_sockets : Serve(i)

ConsoleStep == doLIST \/ doSTATISTICS \/ \E ip \in IPs : doBLOCKED(ip)

ClientStep ==
    \E c \in Conns : \/ \E ip \in IPs : ClientLogin(c, ip)
                     \/ \E f \in UNION Range(Commands) : ClientCommand(c, f)
                     \/ ClientExit(c)

Next == ServerStep \/ ConsoleStep \/ ClientStep

Spec == Init /\ [][Next]_vars

\* The server's thread runs whenever it can.  Nothing makes a client act.
LiveSpec == Spec /\ WF_vars(ServerStep)

-----------------------------------------------------------------------------
(* Properties.                                                             *)

IsClientMap(m) == /\ DOMAIN m \subseteq Keys
                  /\ \A k \in DOMAIN m : m[k] \in clientobj

\* The variables have their types, and no read takes more than was written.
TypeOK ==
    /\ peer \in [Conns -> Keys]
    /\ wrote \in [Conns -> Seq(ClientFrame \cup NewClient)]
    /\ got \in [Conns -> Nat] /\ \A c \in Conns : got[c] <= Len(wrote[c])
    /\ shut \in [Conns -> BOOLEAN]
    /\ backlog \in Seq(Conns)
    /\ out \in [Conns -> Seq(ServerFrame)]
    /\ reset \in [Conns -> BOOLEAN]
    /\ file \in [Fds -> Conns \cup {NoConn}]
    /\ alive \in BOOLEAN
    /\ scan \in Nat
    /\ ready \subseteq Fds
    /\ clients_sockets \in Seq(Entry)
    /\ IsClientMap(clientMap)

\* clients_sockets and the kernel agree through every login, logout, exit and
\* reordering of the list: each entry has an open descriptor of its own, no
\* open descriptor is forgotten (one that were would never be selected or
\* closed again), and the address in the entry is that of the host at the
\* other end.
SocketsAreOpenDescriptors ==
    /\ \A i, k \in DOMAIN clients_sockets :
          clients_sockets[i].sock = clients_sockets[k].sock => i = k
    /\ {clients_sockets[k].sock : k \in DOMAIN clients_sockets}
          = {fd \in Fds : file[fd] # NoConn}
    /\ \A k \in DOMAIN clients_sockets :
          peer[Wire(k)] = clients_sockets[k].ip

\* A record that says online names a socket that is open and leads to that
\* host, also while two sessions of the host overlap and after descriptors
\* were used again: parseSEND and parseBROADCAST write to it unchecked.
OnlineHasLiveSocket ==
    \A k \in DOMAIN clientMap :
        clientMap[k].online = TRUE =>
            \E i \in DOMAIN clients_sockets :
                clients_sockets[i] = [sock |-> clientMap[k].sock, ip |-> k]

\* What parseSEND and parseBROADCAST read of y's record was never written, or
\* they will create the record themselves.
Uninitialised(y) ==
    \/ /\ y \in DOMAIN clientMap
       /\ clientMap[y].online = Indet \/ clientMap[y].sock = Indet
    \/ y \in Listed \ DOMAIN clientMap

Destinations(i) ==
    IF Received(i).type = "SEND" THEN {Received(i).to} ELSE Listed

\* Whatever a relay writes, it writes to a connection of the host the message
\* is for (of any host but the sender's for a broadcast), never to a host
\* whose record blocks the sender.
RelayReachesAddressee ==
    \A i \in DOMAIN clients_sockets, c \in Conns :
        (parseSEND(i) \/ parseBROADCAST(i)) /\ out'[c] # out[c] =>
            \/ \E y \in Destinations(i) : Uninitialised(y)
            \/ /\ IF Received(i).type = "SEND"
                  THEN peer[c] = Received(i).to
                  ELSE peer[c] # Sender(i)
               /\ Sender(i) \notin clientMap[peer[c]].blockedClients

RelayIsRight == [][RelayReachesAddressee]_vars

\* A lookup makes a record with nothing set in it only for a host that had two
\* sessions, of which one, the older or the newer, was read to its end, so that
\* the record was erased: no logout, sort or relay does it to a host that had one.
\* (Where sessions do not overlap NoPhantoms says it of none. Checked without the
\* console: STATISTICS and BLOCKED look up the addresses other records hold,
\* src/src/server.cpp:633 and :694, and make records for those as well.)
PhantomsNeedOverlap ==
    \A k \in DOMAIN clientMap : Uninitialised(k) =>
        \E c, d \in Conns : /\ c # d
                            /\ peer[c] = k /\ peer[d] = k
                            /\ shut[c] /\ Reaped(c)

\* The messages in a frame: a relayed one, or those of a backlog.
Carried(f) == CASE f.type = "NEWMESSAGE" -> <<f>>
                [] f.type = "BACKLOGGED_MESSAGES" -> f.msgs
                [] OTHER -> <<>>

IsText(f) == f.type \in {"SEND", "BROADCAST"}

\* Where d's client typed the text of m.
TypedAt(m, d) == {k \in DOMAIN wrote[d] : /\ IsText(wrote[d][k])
                                          /\ wrote[d][k].text = m.text}

\* d is the only session x ever had, and no text was typed twice on it.
Sole(x, d) ==
    /\ \A e \in Conns : peer[e] = x <=> e = d
    /\ \A j, k \in DOMAIN wrote[d] :
          /\ IsText(wrote[d][j]) /\ IsText(wrote[d][k])
          /\ wrote[d][j].text = wrote[d][k].text
          => j = k

Follows(m, n, d) == \A j \in TypedAt(m, d), k \in TypedAt(n, d) : j <= k

\* Whatever a host said in one session reaches each connection in the order it
\* was typed: neither the batches the server takes, nor a backlog that arrives
\* before what is relayed later, nor a broadcast that tells a host listed twice
\* can put an earlier text after a later one.
InOrder ==
    \A x \in IPs, d \in Conns : Sole(x, d) =>
        \A c \in Conns : \A j, k \in DOMAIN out[c] :
            \A p \in DOMAIN Carried(out[c][j]), q \in DOMAIN Carried(out[c][k]) :
                LET m == Carried(out[c][j])[p]
                    n == Carried(out[c][k])[q]
                IN  /\ m.from = x /\ n.from = x
                    /\ j < k \/ (j = k /\ p <= q)
                    => Follows(m, n, d)

-----------------------------------------------------------------------------
(* With Overlap = FALSE: no host logs in again before the server has dealt *)
(* with the end of its last session.                                       *)

\* A record says online exactly while its host is in the list, and then the
\* host is in the list once: STATISTICS, LIST and the choice between relaying
\* and storing agree with each other.
OnlineIffListed ==
    /\ \A k \in DOMAIN clientMap : clientMap[k].online = TRUE <=> k \in Listed
    /\ \A i, k \in DOMAIN clients_sockets :
          clients_sockets[i].ip = clients_sockets[k].ip => i = k

\* No lookup with clientMap[...] ever creates a record: all belong to hosts
\* that logged in and have their address, socket and status set, and nobody
\* is listed without one.
NoPhantoms ==
    /\ \A k \in DOMAIN clientMap :
          clientMap[k].ip = k /\ k \in IPs /\ ~Uninitialised(k)
    /\ Listed \subseteq DOMAIN clientMap

\* A frame some session of x wrote that is meant for y.
Meant(f, y, x) == \/ f.type = "SEND" /\ f.to = y
                  \/ f.type = "BROADCAST" /\ y # x

Said(m, y) ==
    \E d \in Conns : /\ peer[d] = m.from
                     /\ \E k \in DOMAIN wrote[d] :
                           /\ Meant(wrote[d][k], y, m.from)
                           /\ wrote[d][k].text = m.text

\* Every message on a connection, relayed or out of a backlog, and every
\* message in store was typed for that host by the host it says it is from.
OnlyAddressed ==
    /\ \A c \in Conns : \A k \in DOMAIN out[c] :
          \A m \in Range(Carried(out[c][k])) : Said(m, peer[c])
    /\ \A y \in DOMAIN clientMap :
          \A m \in Range(clientMap[y].storedMessages) : Said(m, y)

\* Refinement: the server keeps the promises of Mailboxes through descriptor
\* reuse, the loop over a list that changes under it, coalesced frames and
\* lookups that insert: it does what each frame it takes asks for, and what is
\* for a host that is logged in is sent on its session.  A host's session is the
\* connection its record's socket leads to.
sessionOf == [y \in DOMAIN clientMap |->
                 IF clientMap[y].online = TRUE
                 THEN ConnAt(clientMap[y].sock) ELSE NoConn]
storedFor == [y \in DOMAIN clientMap |-> clientMap[y].storedMessages]
blockedBy == [y \in DOMAIN clientMap |-> clientMap[y].blockedClients]

Mailbox == INSTANCE Mailboxes WITH
    Hosts <- IPs, Sessions <- Conns, NoSession <- NoConn,
    Requests <- ClientFrame \cup NewClient,
    asked <- wrote, gone <- {c \in Conns : shut[c]}, taken <- got,
    current <- sessionOf, stored <- storedFor, blocked <- blockedBy,
    handed <- out

ImplementsMailboxes == Mailbox!Spec

-----------------------------------------------------------------------------
(* With LiveSpec.                                                          *)

\* The server sits in a read from a client that says nothing.
Blocked == \E i \in DOMAIN clients_sockets : Scanned(i) /\ ~Readable(Wire(i))

\* Every session that ends is taken note of, and its descriptor closed, unless
\* the server dies or blocks for good: no end of a connection stays unread,
\* however the loop's index and the list shift under each other.
EndedSessionsAreReaped ==
    []<>~Blocked =>
        \A c \in Conns : (peer[c] # NoIP /\ shut[c]) ~> (Reaped(c) \/ ~alive)

\* Nor does anything else: whatever a client writes is read, also what it wrote
\* before it was accepted, behind a read of the same turn, or on a descriptor
\* that another session had.
RequestsAreRead ==
    []<>~Blocked =>
        \A c \in Conns, n \in UNION {1 .. MaxTyped[h] : h \in IPs} :
            Len(wrote[c]) >= n ~> (got[c] >= n \/ ~alive)

-----------------------------------------------------------------------------
(* What the repository says of the server and the code does not keep.      *)

\* include/server.h:104 says of clientMap "This will hold all currently active
\* clients. Those who have not "EXITED"": whoever is listed has a record.
ActiveHaveRecords == Listed \subseteq DOMAIN clientMap

\* src/server.cpp:170 "Get data of client active in clients_sockets": the loop
\* reads only from clients that have something to read.
ReadsOnlyActive ==
    \A i \in DOMAIN clients_sockets : Scanned(i) => Readable(Wire(i))

\* README.md:54 "LOGOUT - Logs client out of server. Server will save
\* information and backlog messages": a session that ended with LOGOUT does not
\* cost the host its record.
LogoutKeepsRecord ==
    [][\A i \in DOMAIN clients_sockets :
          parseEXIT(i) => \A k \in DOMAIN wrote[Wire(i)] :
                              wrote[Wire(i)][k].type # "LOGOUT"]_vars

\* README.md:13 "Keeps a total of messages sent and received for each client":
\* nobody has received more messages than were sent to it.
TotalsAreOfMessages ==
    \A y \in DOMAIN clientMap :
        clientMap[y].msgsrecvd <=
            MapThenSumSet(LAMBDA c : Cardinality({k \in DOMAIN wrote[c] :
                                         Meant(wrote[c][k], y, peer[c])}),
                          Conns)

\* README.md:63 "EXIT - Exits program - server will remove information for
\* client": who has a record has a session that did not end, or ended with
\* LOGOUT.
EXITRemovesInformation ==
    \A h \in DOMAIN clientMap : \E c \in Conns :
        /\ peer[c] = h
        /\ \A d \in Conns : peer[d] = h => d <= c
        /\ Reaped(c) => [type |-> "LOGOUT"] \in Range(wrote[c])
=============================================================================
