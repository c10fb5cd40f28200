------------------------- MODULE ChatSystem_proofs -------------------------
(***************************************************************************)
(* The whole system implements ChatServer, so that all that was proved of  *)
(* the server holds of it with the clients of src/client.cpp; the types of *)
(* the clients' state; and the two ends' agreement on the sessions.  The   *)
(* three need each other: what a client may send depends on the list it    *)
(* was sent, and the server closes a session only after its client did.    *)
(*                                                                         *)
(* On these rests the agreement on the block lists: a host that nothing    *)
(* came between has one session at most in the server's hands, and what    *)
(* that session has written and the server has not read yet turns the      *)
(* record's block list into the client's.                                  *)
(***************************************************************************)
EXTENDS ChatSystem, Messages_proofs

\* A session of h was sent a list with ip in it.
WasListed(h, ip) ==
    \E d \in Conns : /\ peer[d] = h
                     /\ \E k \in DOMAIN out[d] :
                           /\ out[d][k].type = "NEWLIST"
                           /\ ip \in Range(out[d][k].ips)

\* What a client takes for logged in, some session of its host was sent.
ListsWereSent == \A h \in IPs : \A ip \in clientIPVector[h] : WasListed(h, ip)

PortsAreTheirs == \A h \in IPs : listening_port[h] \in ListenPorts[h]

\* LOGOUT is written by the step that closes the socket.
LogoutCloses ==
    \A c \in Conns : \A k \in DOMAIN wrote[c] :
        wrote[c][k].type = "LOGOUT" => shut[c]

ClientInv == /\ ClientTypeOK
             /\ SessionsAgree
             /\ ListsWereSent
             /\ PortsAreTheirs
             /\ LogoutCloses
             /\ UnusedAreOpen

\* The inductive invariant.
SysInv == IInv /\ ClientInv

-----------------------------------------------------------------------------
(* What the server's steps leave the clients. *)

\* What was sent stays sent.
Grown ==
    \A c \in Conns : /\ Len(out[c]) <= Len(out'[c])
                     /\ \A k \in DOMAIN out[c] : /\ k \in DOMAIN out'[c]
                                                 /\ out'[c][k] = out[c][k]

\* No session is given up that its client has not ended.
KeepsOpen ==
    \A c \in Conns : ~shut[c] /\ ~Reaped(c) => ~Reaped(c)'

\* What is put behind a sequence leaves the sequence in place.
LEMMA ConcatGrows ==
    ASSUME NEW S, NEW s \in Seq(S), NEW t \in Seq(S)
    PROVE  /\ Len(s) <= Len(s \o t)
           /\ \A k \in DOMAIN s : k \in DOMAIN (s \o t) /\ (s \o t)[k] = s[k]
BY ConcatProperties

\* What was sent stays sent when more is.
LEMMA TransmitGrows ==
    ASSUME TypeOK, NEW mail \in [Conns -> Seq(ServerFrame)], Transmit(mail)
    PROVE  Grown
<1> SUFFICES ASSUME NEW c \in Conns
             PROVE  /\ Len(out[c]) <= Len(out'[c])
                    /\ \A k \in DOMAIN out[c] : /\ k \in DOMAIN out'[c]
                                                /\ out'[c][k] = out[c][k]
    BY DEF Grown
<1>1. out[c] \in Seq(ServerFrame) /\ mail[c] \in Seq(ServerFrame)
    BY DEF TypeOK
<1>2. out'[c] = out[c] \/ out'[c] = out[c] \o mail[c]
    BY DEF Transmit
<1>3. CASE out'[c] = out[c]
    BY <1>1, <1>3
<1>4. CASE out'[c] = out[c] \o mail[c]
    BY <1>1, <1>4, ConcatGrows
<1> QED BY <1>2, <1>3, <1>4

\* And when nothing is.
LEMMA StillGrown == ASSUME TypeOK, UNCHANGED out PROVE Grown
<1>1. \A c \in Conns : Len(out[c]) \in Nat
    BY DEF TypeOK
<1> QED BY <1>1 DEF Grown

\* A step that leaves descriptors and backlog gives up no session.
LEMMA StillOpen == ASSUME UNCHANGED <<file, backlog>> PROVE KeepsOpen
BY DEF KeepsOpen, Reaped

\* accept() and addClient write nothing at the clients' ends, take back
\* nothing that was sent, and give up no session.
LEMMA AcceptServes ==
    ASSUME CoreInv, Accept
    PROVE  UNCHANGED netVars /\ Grown /\ KeepsOpen
<1> DEFINE c == Head(backlog)
           ip == peer[c]
           stored == clientMap[ip].storedMessages
           mail == [NoMail EXCEPT ![c] =
                       <<[type |-> "BACKLOGGED_MESSAGES", msgs |-> stored]>>]
<1>1. /\ backlog # <<>> /\ backlog \in Seq(Conns)
      /\ c \in Conns /\ c = backlog[1] /\ TypeOK
    BY SMTT(40) DEF Accept, CoreInv, TypeOK
<1>2. PICK fd \in Fds : /\ file[fd] = NoConn
                        /\ file' = [file EXCEPT ![fd] = c]
                        /\ \/ ip \in DOMAIN clientMap /\ Transmit(mail)
                           \/ UNCHANGED <<out, reset, alive>>
    BY DEF Accept
<1>3. UNCHANGED netVars /\ backlog' = Tail(backlog)
    BY DEF Accept
<1>4. Grown
  <2>1. CASE ip \in DOMAIN clientMap /\ Transmit(mail)
    <3>1. stored \in Seq(NewMessage)
      BY <1>1, <2>1 DEF TypeOK, IsClientMap, clientobj
    <3> HIDE DEF stored
    <3>2. mail \in [Conns -> Seq(ServerFrame)]
      BY <1>1, <3>1, BacklogType, OneMail
    <3> HIDE DEF mail
    <3> QED BY <1>1, <2>1, <3>2, TransmitGrows
  <2>2. CASE UNCHANGED <<out, reset, alive>>
    BY <1>1, <2>2, StillGrown
  <2> QED BY <1>2, <2>1, <2>2
<1>5. ASSUME NEW d \in Conns, ~Reaped(d) PROVE ~Reaped(d)'
  <2>1. file \in [Fds -> Conns \cup {NoConn}] /\ d # NoConn
    BY ConstantsAssumption DEF CoreInv, TypeOK
  <2>2. CASE d = c
    BY <1>2, <2>1, <2>2 DEF Reaped
  <2>3. CASE \E g \in Fds : file[g] = d
    BY <1>2, <2>1, <2>3 DEF Reaped
  <2>4. CASE \E k \in DOMAIN backlog : backlog[k] = d /\ d # c
    <3>1. PICK k \in DOMAIN backlog : backlog[k] = d /\ k # 1
      BY <1>1, <2>4
    <3>2. k - 1 \in DOMAIN Tail(backlog) /\ Tail(backlog)[k - 1] = backlog[k]
      BY <1>1, <3>1
    <3> QED BY <1>3, <3>1, <3>2 DEF Reaped
  <2> QED BY <1>5, <2>2, <2>3, <2>4 DEF Reaped
<1> QED BY <1>3, <1>4, <1>5 DEF KeepsOpen

\* A session is closed by the server only when its client has closed it.
LEMMA LogOutServes ==
    ASSUME CoreInv, NEW i \in DOMAIN clients_sockets, NEW m, NEW K,
           logClientOut(Client(i).sock, m, K), shut[Wire(i)]
    PROVE  UNCHANGED netVars /\ Grown /\ KeepsOpen
<1>1. /\ UNCHANGED netVars /\ UNCHANGED <<backlog, out>>
      /\ file' = [file EXCEPT ![Client(i).sock] = NoConn]
    BY DEF logClientOut, Closed
<1>2. Grown
    BY <1>1, StillGrown DEF CoreInv
<1>3. ASSUME NEW d \in Conns, ~shut[d], ~Reaped(d) PROVE ~Reaped(d)'
  <2>1. /\ file \in [Fds -> Conns \cup {NoConn}]
        /\ file[Client(i).sock] = Wire(i)
    BY EntryFacts DEF CoreInv, TypeOK
  <2>2. d # Wire(i)
    BY <1>3
  <2> QED BY <1>1, <1>3, <2>1, <2>2 DEF Reaped
<1> QED BY <1>1, <1>2, <1>3 DEF KeepsOpen

\* Nor does LOGOUT: its client has closed the socket.
LEMMA LogoutServes ==
    ASSUME CoreInv, LogoutCloses, NEW i \in DOMAIN clients_sockets,
           parseLOGOUT(i)
    PROVE  UNCHANGED netVars /\ Grown /\ KeepsOpen
<1>1. Wire(i) \in Conns
    BY EntryFacts
<1>2. /\ got[Wire(i)] < Len(wrote[Wire(i)])
      /\ wrote[Wire(i)][got[Wire(i)] + 1].type = "LOGOUT"
    BY DEF parseLOGOUT, ReadFrame, Received
<1>3. got[Wire(i)] + 1 \in DOMAIN wrote[Wire(i)]
    BY <1>1, <1>2 DEF CoreInv, TypeOK
<1>4. shut[Wire(i)]
    BY <1>1, <1>2, <1>3 DEF LogoutCloses
<1> QED BY <1>4, LogOutServes DEF parseLOGOUT

\* Nor does the end of a connection.
LEMMA ExitServes ==
    ASSUME CoreInv, NEW i \in DOMAIN clients_sockets, parseEXIT(i)
    PROVE  UNCHANGED netVars /\ Grown /\ KeepsOpen
BY LogOutServes DEF parseEXIT, ReadEOF

\* Nor does sending the list,
LEMMA SendListServes ==
    ASSUME CoreInv, NEW i \in DOMAIN clients_sockets, NEW m, IsClientMap(m),
           OnlineIn(m, Range(clients_sockets)), sendListAndIPs(i, m)
    PROVE  UNCHANGED netVars /\ Grown /\ KeepsOpen
<1> DEFINE ips == [k \in DOMAIN clients_sockets' |-> clients_sockets'[k].ip]
           f == [type |-> "NEWLIST", ips |-> ips]
<1>1. /\ getListOfClients(m)
      /\ Transmit(Frames(Client(i).sock, <<f>>))
      /\ UNCHANGED <<netVars, backlog, file, ready>>
    BY DEF sendListAndIPs
<1>2. clients_sockets' \in Seq(Entry)
    BY <1>1, ListFacts
<1>3. \A k \in DOMAIN clients_sockets' : clients_sockets'[k].ip \in IPs
  <2>1. \A k \in DOMAIN clients_sockets' : clients_sockets'[k] \in Entry
    BY <1>2
  <2> QED BY <2>1 DEF Entry
<1>4. ips \in Seq(IPs)
    BY <1>2, <1>3
<1>5. f \in ServerFrame
    BY <1>4 DEF ServerFrame
<1> HIDE DEF f
<1>6. <<f>> \in Seq(ServerFrame)
    BY <1>5
<1>7. Grown
    BY <1>1, <1>6, FramesType, TransmitGrows DEF CoreInv
<1> QED BY <1>1, <1>7, StillOpen

\* as for REFRESH
LEMMA RefreshServes ==
    ASSUME CoreInv, NEW i \in DOMAIN clients_sockets, parseREFRESH(i)
    PROVE  UNCHANGED netVars /\ Grown /\ KeepsOpen
BY FetchedFacts, FetchedOnline, SendListServes DEF parseREFRESH

\* and for NEWCLIENT.
LEMMA NewClientServes ==
    ASSUME CoreInv, NEW i \in DOMAIN clients_sockets, parseNEWCLIENT(i)
    PROVE  UNCHANGED netVars /\ Grown /\ KeepsOpen
<1> DEFINE m == [Fetched(i) EXCEPT ![Sender(i)].port = Received(i).port]
<1>1. ReadFrame(i, "NEWCLIENT") /\ sendListAndIPs(i, m)
    BY DEF parseNEWCLIENT
<1>2. IsClientMap(m) /\ OnlineIn(m, Range(clients_sockets))
    BY <1>1, NewClientMap
<1> HIDE DEF m
<1> QED BY <1>1, <1>2, SendListServes

\* Nor does a relay,
LEMMA RelayServes ==
    ASSUME CoreInv, NEW i \in DOMAIN clients_sockets,
           NEW dests, IsFiniteSet(DOMAIN dests), Relay(i, dests),
           Received(i).text \in Texts,
           UNCHANGED <<netVars, backlog, file>>
    PROVE  UNCHANGED netVars /\ Grown /\ KeepsOpen
<1> DEFINE m == [Fetched(i) EXCEPT ![Sender(i)].msgssent = @ + 1]
           hearers == {y \in Range(dests) \cap DOMAIN m : Hears(m[y], Sender(i))}
           message == [type |-> "NEWMESSAGE", from |-> Sender(i),
                       text |-> Received(i).text]
           times(y) == Cardinality({k \in DOMAIN dests : dests[k] = y})
           T(up, via, c) == {k \in DOMAIN dests :
                                /\ dests[k] \in up
                                /\ ConnAt(via[dests[k]]) = c}
           sent(up, via) == [c \in Conns |->
                                Repeat(message, Cardinality(T(up, via, c)))]
<1>1. PICK up \in SUBSET hearers, via \in [hearers -> Fds \cup {Indet}] :
        /\ \A y \in hearers :
              /\ (y \in up) \in Readings(m[y].online, BOOLEAN)
              /\ via[y] \in Readings(m[y].sock, Fds \cup {Indet})
        /\ clientMap' = [y \in DOMAIN m |->
              IF y \in up
              THEN [m[y] EXCEPT !.msgsrecvd = @ + times(y)]
              ELSE IF y \in hearers
              THEN Stored(m[y], Repeat(message, times(y)))
              ELSE m[y]]
        /\ Transmit(sent(up, via))
    BY DEF Relay
<1>2. message \in ServerFrame
    BY EntryFacts DEF ServerFrame, NewMessage
<1>3. \A c : T(up, via, c) \in SUBSET DOMAIN dests
    OBVIOUS
<1> HIDE DEF m, message, hearers, T
<1>4. \A c : Cardinality(T(up, via, c)) \in Nat
    BY <1>3, FS_Subset, FS_CardinalityType
<1>5. sent(up, via) \in [Conns -> Seq(ServerFrame)]
    BY <1>2, <1>4, RepeatType
<1> HIDE DEF sent
<1>6. Grown
    BY <1>1, <1>5, TransmitGrows DEF CoreInv
<1> QED BY <1>6, StillOpen

\* as for SEND and for BROADCAST.
LEMMA MessageServes ==
    ASSUME CoreInv, NEW i \in DOMAIN clients_sockets,
           parseSEND(i) \/ parseBROADCAST(i)
    PROVE  UNCHANGED netVars /\ Grown /\ KeepsOpen
<1>1. Received(i).text \in Texts
  <2>1. /\ Received(i) \in ClientFrame \cup NewClient
        /\ Received(i).type \in {"SEND", "BROADCAST"}
    BY ReadFrameFacts DEF parseSEND, parseBROADCAST
  <2> QED BY <2>1 DEF ClientFrame, NewClient
<1>2. UNCHANGED <<netVars, backlog, file>>
    BY DEF parseSEND, parseBROADCAST
<1>3. CASE parseSEND(i)
  <2>1. Relay(i, <<Received(i).to>>)
    BY <1>3 DEF parseSEND
  <2>2. IsFiniteSet(DOMAIN <<Received(i).to>>)
    <3>1. DOMAIN <<Received(i).to>> = {1}
      OBVIOUS
    <3> QED BY <3>1, FS_Singleton
  <2> QED BY <1>1, <1>2, <2>1, <2>2, RelayServes
<1>4. CASE parseBROADCAST(i)
  <2> DEFINE dests == [k \in {l \in DOMAIN clients_sockets :
                                 clients_sockets[l].ip # Sender(i)} |->
                          clients_sockets[k].ip]
  <2>1. Relay(i, dests)
    BY <1>4 DEF parseBROADCAST
  <2>2. IsFiniteSet(DOMAIN dests)
    BY BroadcastFinite
  <2> HIDE DEF dests
  <2> QED BY <1>1, <1>2, <2>1, <2>2, RelayServes
<1> QED BY <1>3, <1>4

\* No step of the server or its console does.
LEMMA ServerServes ==
    ASSUME CoreInv, LogoutCloses, ServerStep \/ ConsoleStep
    PROVE  UNCHANGED netVars /\ Grown /\ KeepsOpen
<1>1. ASSUME UNCHANGED netVars, UNCHANGED <<file, backlog, out>>
      PROVE  UNCHANGED netVars /\ Grown /\ KeepsOpen
    BY <1>1, StillGrown, StillOpen DEF CoreInv
<1>2. CASE Accept
    BY <1>2, AcceptServes
<1>3. CASE AcceptUnresolved \/ Select \/ ScanDone
    BY <1>1, <1>3 DEF AcceptUnresolved, Select, ScanDone
<1>4. CASE ConsoleStep
    BY <1>1, <1>4 DEF ConsoleStep, doLIST, doSTATISTICS, doBLOCKED
<1>5. CASE \E i \in DOMAIN clients_sockets : Serve(i)
  <2>1. PICK i \in DOMAIN clients_sockets : Serve(i)
    BY <1>5
  <2>2. CASE parseREFRESH(i)
    BY <2>2, RefreshServes
  <2>3. CASE parseNEWCLIENT(i)
    BY <2>3, NewClientServes
  <2>4. CASE parseLOGOUT(i)
    BY <2>4, LogoutServes
  <2>5. CASE parseEXIT(i)
    BY <2>5, ExitServes
  <2>6. CASE parseSEND(i) \/ parseBROADCAST(i)
    BY <2>6, MessageServes
  <2>7. CASE parseBLOCK(i) \/ parseUNBLOCK(i)
    BY <1>1, <2>7 DEF parseBLOCK, parseUNBLOCK
  <2> QED BY <2>1, <2>2, <2>3, <2>4, <2>5, <2>6, <2>7 DEF Serve
<1> QED BY <1>2, <1>3, <1>4, <1>5 DEF ServerStep

-----------------------------------------------------------------------------
(* The steps of a client are those that ChatServer lets it take. *)

serverOnly == <<file, alive, scan, ready, clients_sockets, clientMap>>

\* A logged-in client holds a connection that is its own and open.
LEMMA HeldFacts ==
    ASSUME SysInv, NEW h \in IPs, loggedin(h)
    PROVE  /\ sock[h] \in Conns
           /\ peer[sock[h]] = h
           /\ h # NoIP
           /\ ~shut[sock[h]]
           /\ ~Reaped(sock[h])
           /\ \A g \in IPs : sock[g] = sock[h] => g = h
<1>1. sock[h] \in Conns
    BY DEF SysInv, ClientInv, ClientTypeOK, loggedin
<1>2. peer[sock[h]] = h /\ ~Reaped(sock[h])
    BY DEF SysInv, ClientInv, SessionsAgree
<1>3. h # NoIP
    BY ConstantsAssumption
<1>4. ~shut[sock[h]]
    BY <1>1 DEF SysInv, ClientInv, SessionsAgree
<1>5. ASSUME NEW g \in IPs, sock[g] = sock[h] PROVE g = h
    BY <1>2, <1>5 DEF SysInv, ClientInv, SessionsAgree, loggedin
<1> QED BY <1>1, <1>2, <1>3, <1>4, <1>5

\* A frame written after the client's own checks is one ChatServer expects.
LEMMA WriteIsCommand ==
    ASSUME SysInv, NEW h \in IPs, NEW f, alive, Write(h, f),
           shut' = [shut EXCEPT ![sock[h]] = f.type = "LOGOUT"],
           f.type = "SEND" => ipExistsLocally(h, f.to),
           f.type \in {"BLOCK", "UNBLOCK"} => ipExistsLocally(h, f.ip),
           UNCHANGED serverOnly
    PROVE  ClientStep
<1> DEFINE c == sock[h]
<1>1. c \in Conns /\ peer[c] = h /\ h # NoIP /\ ~shut[c]
    BY HeldFacts DEF Write
<1>2. \A ip : ipExistsLocally(h, ip) => Known(c, ip)
    BY <1>1 DEF ipExistsLocally, Known, SysInv, ClientInv, ListsWereSent,
                WasListed
<1>3. f \in Commands[h] /\ f \in UNION Range(Commands)
    BY ConstantsAssumption DEF Write, Range
<1>4. /\ Len(wrote[c]) < MaxTyped[h]
      /\ wrote' = [wrote EXCEPT ![c] = Append(@, f)]
      /\ UNCHANGED <<peer, got, backlog, out, reset>>
    BY DEF Write
<1>5. ClientCommand(c, f)
    BY <1>1, <1>2, <1>3, <1>4 DEF ClientCommand, serverOnly
<1> QED BY <1>1, <1>3, <1>5 DEF ClientStep

\* Writing anything but LOGOUT leaves the socket open.
LEMMA StaysOpen ==
    ASSUME SysInv, NEW h \in IPs, loggedin(h), UNCHANGED shut, NEW t,
           t # "LOGOUT"
    PROVE  shut' = [shut EXCEPT ![sock[h]] = t = "LOGOUT"]
<1>1. sock[h] \in Conns /\ ~shut[sock[h]]
    BY HeldFacts
<1>2. shut \in [Conns -> BOOLEAN]
    BY DEF SysInv, IInv, CoreInv, TypeOK
<1>3. shut[sock[h]] = FALSE
    BY <1>1, <1>2
<1> QED BY <1>1, <1>2, <1>3

\* So is a login.
LEMMA LoginRefines ==
    ASSUME SysInv, NEW h \in IPs, LoginSide(h)
    PROVE  ClientStep
<1>1. PICK c \in Conns :
          /\ Opens(c, h)
          /\ wrote' = [wrote EXCEPT ![c] =
                <<[type |-> "NEWCLIENT", port |-> listening_port[h]]>>]
    BY DEF LoginSide, doLOGIN
<1>2. listening_port[h] \in ListenPorts[h]
    BY DEF SysInv, ClientInv, PortsAreTheirs
<1>3. ClientLogin(c, h)
    BY <1>1, <1>2 DEF LoginSide, doLOGIN, ClientLogin
<1> QED BY <1>3 DEF ClientStep

\* What a user does is a client step of ChatServer, or invisible to it.
LEMMA UserRefines ==
    ASSUME SysInv, NEW h \in IPs, alive, UserStep(h), UNCHANGED serverOnly
    PROVE  ClientStep \/ UNCHANGED vars
<1>1. CASE doREFRESH(h)
  <2> DEFINE f == [type |-> "REFRESH"]
  <2>1. Write(h, f) /\ UNCHANGED shut
    BY <1>1 DEF doREFRESH
  <2>2. shut' = [shut EXCEPT ![sock[h]] = f.type = "LOGOUT"]
    BY <2>1, StaysOpen DEF Write
  <2> QED BY <2>1, <2>2, WriteIsCommand
<1>2. CASE \E ip \in IPs : doBLOCK(h, ip)
  <2>1. PICK ip \in IPs : doBLOCK(h, ip)
    BY <1>2
  <2> DEFINE f == [type |-> "BLOCK", ip |-> ip]
  <2>2. Write(h, f) /\ UNCHANGED shut /\ ipExistsLocally(h, ip)
    BY <2>1 DEF doBLOCK
  <2>3. shut' = [shut EXCEPT ![sock[h]] = f.type = "LOGOUT"]
    BY <2>2, StaysOpen DEF Write
  <2> QED BY <2>2, <2>3, WriteIsCommand
<1>3. CASE \E ip \in IPs : doUNBLOCK(h, ip)
  <2>1. PICK ip \in IPs : doUNBLOCK(h, ip)
    BY <1>3
  <2> DEFINE f == [type |-> "UNBLOCK", ip |-> ip]
  <2>2. Write(h, f) /\ UNCHANGED shut /\ ipExistsLocally(h, ip)
    BY <2>1 DEF doUNBLOCK
  <2>3. shut' = [shut EXCEPT ![sock[h]] = f.type = "LOGOUT"]
    BY <2>2, StaysOpen DEF Write
  <2> QED BY <2>2, <2>3, WriteIsCommand
<1>4. CASE \E ip \in IPs, t \in Texts : doSEND(h, ip, t)
  <2>1. PICK ip \in IPs, t \in Texts : doSEND(h, ip, t)
    BY <1>4
  <2> DEFINE f == [type |-> "SEND", to |-> ip, text |-> t]
  <2>2. Write(h, f) /\ UNCHANGED shut /\ ipExistsLocally(h, ip)
    BY <2>1 DEF doSEND
  <2>3. shut' = [shut EXCEPT ![sock[h]] = f.type = "LOGOUT"]
    BY <2>2, StaysOpen DEF Write
  <2> QED BY <2>2, <2>3, WriteIsCommand
<1>5. CASE \E t \in Texts : doBROADCAST(h, t)
  <2>1. PICK t \in Texts : doBROADCAST(h, t)
    BY <1>5
  <2> DEFINE f == [type |-> "BROADCAST", text |-> t]
  <2>2. Write(h, f) /\ UNCHANGED shut
    BY <2>1 DEF doBROADCAST
  <2>3. shut' = [shut EXCEPT ![sock[h]] = f.type = "LOGOUT"]
    BY <2>2, StaysOpen DEF Write
  <2> QED BY <2>2, <2>3, WriteIsCommand
<1>6. CASE doLOGOUT(h)
  <2> DEFINE f == [type |-> "LOGOUT"]
  <2>1. Write(h, f) /\ shut' = [shut EXCEPT ![sock[h]] = TRUE]
    BY <1>6 DEF doLOGOUT
  <2>2. shut' = [shut EXCEPT ![sock[h]] = f.type = "LOGOUT"]
    BY <2>1
  <2> QED BY <2>1, <2>2, WriteIsCommand
<1>7. CASE doEXIT(h)
  <2>1. shut \in [Conns -> BOOLEAN]
    BY DEF SysInv, IInv, CoreInv, TypeOK
  <2>2. /\ shut' = [c \in Conns |-> shut[c] \/ c = sock[h]]
        /\ UNCHANGED <<peer, wrote, got, backlog, out, reset>>
    BY <1>7 DEF doEXIT
  <2>3. CASE loggedin(h)
    <3>1. sock[h] \in Conns /\ peer[sock[h]] # NoIP /\ ~shut[sock[h]]
      BY <2>3, HeldFacts
    <3>2. shut' = [shut EXCEPT ![sock[h]] = TRUE]
      BY <2>1, <2>2, <3>1
    <3>3. ClientExit(sock[h])
      BY <2>2, <3>1, <3>2 DEF ClientExit, serverOnly
    <3> QED BY <3>1, <3>3 DEF ClientStep
  <2>4. CASE ~loggedin(h)
    <3>1. \A c \in Conns : c # sock[h]
      BY <2>4, ConstantsAssumption DEF loggedin
    <3>2. shut' = shut
      BY <2>1, <2>2, <3>1
    <3> QED BY <2>2, <3>2 DEF vars, serverOnly
  <2> QED BY <2>3, <2>4
<1> QED BY <1>1, <1>2, <1>3, <1>4, <1>5, <1>6, <1>7 DEF UserStep

\* Every step of the system is a step of ChatServer, or none.
LEMMA StepRefines == SysInv /\ [SysNext]_sysVars => [Next]_vars
<1> SUFFICES ASSUME SysInv, [SysNext]_sysVars PROVE Next \/ UNCHANGED vars
    OBVIOUS
<1>1. CASE ServerSide
    BY <1>1 DEF ServerSide, Next
<1>2. CASE \E h \in IPs : LoginSide(h)
    BY <1>2, LoginRefines DEF Next
<1>3. CASE \E h \in IPs : ClientSide(h)
  <2>1. PICK h \in IPs : ClientSide(h)
    BY <1>3
  <2>2. alive /\ UNCHANGED serverOnly
    BY <2>1 DEF ClientSide, serverOnly
  <2>3. CASE UserStep(h)
    BY <2>2, <2>3, UserRefines DEF Next
  <2>4. CASE HandleFrame(h)
    BY <2>2, <2>4 DEF HandleFrame, vars, serverOnly
  <2> QED BY <2>1, <2>3, <2>4 DEF ClientSide
<1>4. CASE UNCHANGED sysVars
    BY <1>4 DEF sysVars
<1> QED BY <1>1, <1>2, <1>3, <1>4 DEF SysNext

-----------------------------------------------------------------------------
(* The invariant. *)

\* The invariant holds at the start.
LEMMA SysInitInv == SysInit => SysInv
<1> SUFFICES ASSUME SysInit PROVE SysInv
    OBVIOUS
<1>1. Init /\ ClientInit
    BY DEF SysInit
<1>2. IInv
    BY <1>1, InitInv
<1>3. /\ \A h \in IPs : sock[h] = NoConn /\ clientIPVector[h] = {}
      /\ \A c \in Conns : peer[c] = NoIP /\ wrote[c] = <<>> /\ shut[c] = FALSE
    BY <1>1 DEF Init, ClientInit
<1>4. ClientTypeOK
  <2>1. \A c \in Conns : Len(out[c]) = 0
    BY <1>1 DEF Init
  <2> QED BY <1>1, <2>1 DEF ClientInit, ClientTypeOK
<1>5. SessionsAgree
    BY <1>3, ConstantsAssumption DEF SessionsAgree, loggedin
<1>6. ListsWereSent /\ LogoutCloses /\ UnusedAreOpen
    BY <1>3 DEF ListsWereSent, LogoutCloses, UnusedAreOpen
<1>7. PortsAreTheirs
    BY <1>1 DEF ClientInit, PortsAreTheirs
<1> QED BY <1>2, <1>4, <1>5, <1>6, <1>7 DEF SysInv, ClientInv

\* The server's steps keep the clients' part of the invariant.
LEMMA ServerKeeps ==
    ASSUME SysInv, CoreInv', ServerSide
    PROVE  ClientInv'
<1>1. /\ UNCHANGED <<peer, wrote, shut>>
      /\ Grown /\ KeepsOpen
      /\ UNCHANGED <<listening_port, sock, clientIPVector, blockedClients, taken>>
    BY ServerServes DEF ServerSide, clientVars, netVars, SysInv, IInv, ClientInv
<1>2. ClientTypeOK'
  <2>1. \A c \in Conns : Len(out[c]) \in Nat /\ Len(out'[c]) \in Nat
    BY DEF SysInv, IInv, CoreInv, TypeOK
  <2>2. \A c \in Conns : taken[c] \in Nat /\ taken[c] <= Len(out[c])
    BY DEF SysInv, ClientInv, ClientTypeOK
  <2>3. \A c \in Conns : taken[c] <= Len(out'[c])
    BY <1>1, <2>1, <2>2 DEF Grown
  <2> QED BY <1>1, <2>3 DEF SysInv, ClientInv, ClientTypeOK
<1>3. SessionsAgree'
  <2>1. ASSUME NEW h \in IPs, loggedin(h) PROVE ~Reaped(sock[h])'
    <3>1. sock[h] \in Conns /\ ~shut[sock[h]] /\ ~Reaped(sock[h])
      BY <2>1, HeldFacts
    <3> QED BY <1>1, <3>1 DEF KeepsOpen, Reaped
  <2> QED BY <1>1, <2>1 DEF SysInv, ClientInv, SessionsAgree, loggedin
<1>4. ListsWereSent'
    BY <1>1 DEF SysInv, ClientInv, ListsWereSent, WasListed, Grown
<1>5. PortsAreTheirs' /\ LogoutCloses' /\ UnusedAreOpen'
    BY <1>1 DEF SysInv, ClientInv, PortsAreTheirs, LogoutCloses, UnusedAreOpen
<1> QED BY <1>2, <1>3, <1>4, <1>5 DEF ClientInv

\* A login keeps it: the host has no open session, and the new one waits.
LEMMA LoginKeeps ==
    ASSUME SysInv, NEW h \in IPs, LoginSide(h)
    PROVE  ClientInv'
<1>1. PICK c \in Conns :
          /\ Opens(c, h)
          /\ sock' = [sock EXCEPT ![h] = c]
          /\ wrote' = [wrote EXCEPT ![c] =
                <<[type |-> "NEWCLIENT", port |-> listening_port[h]]>>]
    BY DEF LoginSide, doLOGIN
<1>2. /\ peer[c] = NoIP
      /\ peer' = [peer EXCEPT ![c] = h]
      /\ backlog' = Append(backlog, c)
    BY <1>1 DEF Opens
<1>3. /\ ~loggedin(h)
      /\ UNCHANGED <<shut, out, file, listening_port, clientIPVector,
                     blockedClients, taken>>
    BY DEF LoginSide, doLOGIN
<1>4. /\ peer \in [Conns -> Keys] /\ wrote \in [Conns -> Seq(ClientFrame \cup NewClient)]
      /\ backlog \in Seq(Conns)
      /\ sock \in [IPs -> Conns \cup {NoConn}]
    BY DEF SysInv, IInv, CoreInv, TypeOK, ClientInv, ClientTypeOK
<1>5. h # NoIP /\ c # NoConn
    BY ConstantsAssumption
<1>6. ClientTypeOK'
    BY <1>1, <1>3, <1>4 DEF SysInv, ClientInv, ClientTypeOK
<1>7. /\ \A k \in DOMAIN backlog : k \in DOMAIN backlog' /\ backlog'[k] = backlog[k]
      /\ \E k \in DOMAIN backlog' : backlog'[k] = c
  <2>1. Len(backlog) \in Nat /\ DOMAIN backlog = 1 .. Len(backlog)
    BY <1>4
  <2>2. DOMAIN backlog' = 1 .. (Len(backlog) + 1) /\ backlog'[Len(backlog) + 1] = c
    BY <1>2, <1>4
  <2> QED BY <1>2, <1>4, <2>1, <2>2
<1>8. \A g \in IPs : g # h /\ loggedin(g) =>
          /\ sock[g] \in Conns /\ sock[g] # c /\ peer[sock[g]] = g
          /\ ~Reaped(sock[g])
    BY <1>2, <1>5, HeldFacts
<1>9. SessionsAgree'
  <2>1. ASSUME NEW g \in IPs, loggedin(g)'
        PROVE  peer'[sock'[g]] = g /\ ~Reaped(sock[g])'
    <3>1. CASE g = h
      <4>1. sock'[g] = c
        BY <1>1, <1>4, <3>1
      <4>2. peer'[c] = h
        BY <1>2, <1>4
      <4>3. ~Reaped(sock[g])'
        BY <1>7, <4>1 DEF Reaped
      <4> QED BY <3>1, <4>1, <4>2, <4>3
    <3>2. CASE g # h
      <4>1. sock'[g] = sock[g] /\ loggedin(g)
        BY <1>1, <1>4, <2>1, <3>2 DEF loggedin
      <4>2. peer'[sock[g]] = g
        BY <1>2, <1>4, <1>8, <3>2, <4>1
      <4>3. ~Reaped(sock[g])'
        BY <1>3, <1>7, <1>8, <3>2, <4>1 DEF Reaped
      <4> QED BY <4>1, <4>2, <4>3
    <3> QED BY <3>1, <3>2
  <2>2. ASSUME NEW d \in Conns
        PROVE  (peer'[d] # NoIP /\ ~shut'[d]) <=> \E g \in IPs : sock'[g] = d
    <3>1. CASE d = c
      <4>1. peer'[d] = h /\ ~shut'[d]
        BY <1>2, <1>3, <1>4, <3>1 DEF SysInv, ClientInv, UnusedAreOpen
      <4>2. sock'[h] = d
        BY <1>1, <1>4, <3>1
      <4> QED BY <1>5, <4>1, <4>2
    <3>2. CASE d # c
      <4>1. peer'[d] = peer[d] /\ shut'[d] = shut[d]
        BY <1>2, <1>3, <1>4, <3>2
      <4>2. \A g \in IPs : sock'[g] = d <=> sock[g] = d
        <5>1. sock[h] = NoConn /\ d # NoConn
          BY <1>3, ConstantsAssumption DEF loggedin
        <5>2. sock'[h] = c
          BY <1>1, <1>4
        <5>3. \A g \in IPs : g # h => sock'[g] = sock[g]
          BY <1>1, <1>4
        <5> QED BY <3>2, <5>1, <5>2, <5>3
      <4> QED BY <4>1, <4>2 DEF SysInv, ClientInv, SessionsAgree
    <3> QED BY <3>1, <3>2
  <2> QED BY <2>1, <2>2 DEF SessionsAgree
<1>10. ListsWereSent'
  <2>1. ASSUME NEW g \in IPs, NEW ip \in clientIPVector[g]
        PROVE  WasListed(g, ip)'
    <3>1. PICK d \in Conns :
              /\ peer[d] = g
              /\ \E k \in DOMAIN out[d] : /\ out[d][k].type = "NEWLIST"
                                         /\ ip \in Range(out[d][k].ips)
      BY <2>1 DEF SysInv, ClientInv, ListsWereSent, WasListed
    <3>2. peer'[d] = g
      BY <1>2, <1>4, <1>5, <3>1, ConstantsAssumption
    <3> QED BY <1>3, <3>1, <3>2 DEF WasListed
  <2> QED BY <1>3, <2>1 DEF ListsWereSent
<1>11. PortsAreTheirs'
    BY <1>3 DEF SysInv, ClientInv, PortsAreTheirs
<1>12. LogoutCloses'
    BY <1>1, <1>3, <1>4 DEF SysInv, ClientInv, LogoutCloses
<1>13. UnusedAreOpen'
    BY <1>2, <1>3, <1>4 DEF SysInv, ClientInv, UnusedAreOpen
<1> QED BY <1>6, <1>9, <1>10, <1>11, <1>12, <1>13 DEF ClientInv

\* A frame that leaves the socket open.
LEMMA WriteKeeps ==
    ASSUME SysInv, NEW h \in IPs, NEW f, Write(h, f), f.type # "LOGOUT",
           UNCHANGED <<shut, sock, clientIPVector, file>>,
           blockedClients' \in [IPs -> SUBSET IPs]
    PROVE  ClientInv'
<1>1. /\ loggedin(h)
      /\ wrote' = [wrote EXCEPT ![sock[h]] = Append(@, f)]
      /\ UNCHANGED <<peer, backlog, out, listening_port, taken>>
    BY DEF Write
<1>2. wrote \in [Conns -> Seq(ClientFrame \cup NewClient)] /\ sock[h] \in Conns
    BY <1>1, HeldFacts DEF SysInv, IInv, CoreInv, TypeOK
<1>3. ClientTypeOK'
    BY <1>1 DEF SysInv, ClientInv, ClientTypeOK
<1>4. SessionsAgree'
    BY <1>1 DEF SysInv, ClientInv, SessionsAgree, loggedin, Reaped
<1>5. ListsWereSent' /\ PortsAreTheirs' /\ UnusedAreOpen'
    BY <1>1 DEF SysInv, ClientInv, ListsWereSent, WasListed, PortsAreTheirs,
                UnusedAreOpen
<1>6. LogoutCloses'
  <2> SUFFICES ASSUME NEW d \in Conns, NEW k \in DOMAIN wrote'[d],
                      wrote'[d][k].type = "LOGOUT"
               PROVE  shut[d]
    BY DEF LogoutCloses
  <2>1. CASE d = sock[h]
    <3>1. wrote'[d] = Append(wrote[d], f) /\ wrote[d] \in Seq(ClientFrame \cup NewClient)
      BY <1>1, <1>2, <2>1
    <3>2. k \in DOMAIN wrote[d] /\ wrote'[d][k] = wrote[d][k]
      BY <3>1
    <3> QED BY <3>2 DEF SysInv, ClientInv, LogoutCloses
  <2>2. CASE d # sock[h]
    BY <1>1, <1>2, <2>2 DEF SysInv, ClientInv, LogoutCloses
  <2> QED BY <2>1, <2>2
<1> QED BY <1>3, <1>4, <1>5, <1>6 DEF ClientInv

\* The client ends its session.
LEMMA CloseKeeps ==
    ASSUME SysInv, NEW h \in IPs,
           shut' = [c \in Conns |-> shut[c] \/ c = sock[h]],
           sock' = [sock EXCEPT ![h] = NoConn],
           UNCHANGED <<peer, backlog, file>>
    PROVE  SessionsAgree'
<1>1. sock \in [IPs -> Conns \cup {NoConn}]
    BY DEF SysInv, ClientInv, ClientTypeOK
<1>2. \A g \in IPs : sock'[g] = IF g = h THEN NoConn ELSE sock[g]
    BY <1>1
<1>3. \A g \in IPs : loggedin(g)' => g # h /\ loggedin(g) /\ sock'[g] = sock[g]
    BY <1>2 DEF loggedin
<1>4. \A g \in IPs : loggedin(g)' => peer'[sock'[g]] = g /\ ~Reaped(sock[g])'
    BY <1>3 DEF SysInv, ClientInv, SessionsAgree, Reaped
<1>5. ASSUME NEW c \in Conns
      PROVE  (peer'[c] # NoIP /\ ~shut'[c]) <=> \E g \in IPs : sock'[g] = c
  <2>1. (peer[c] # NoIP /\ ~shut[c]) <=> \E g \in IPs : sock[g] = c
    BY DEF SysInv, ClientInv, SessionsAgree
  <2>2. c # NoConn
    BY ConstantsAssumption
  <2>3. CASE c = sock[h]
    <3>1. loggedin(h)
      BY <2>2, <2>3 DEF loggedin
    <3>2. \A g \in IPs : sock[g] = c => g = h
      BY <2>3, <3>1, HeldFacts
    <3>3. \A g \in IPs : sock'[g] # c
      BY <1>2, <2>2, <3>2
    <3> QED BY <2>3, <3>3
  <2>4. CASE c # sock[h]
    BY <1>2, <2>1, <2>2, <2>4
  <2> QED BY <2>3, <2>4
<1> QED BY <1>4, <1>5 DEF SessionsAgree

\* doLOGOUT keeps it.
LEMMA LogoutKeeps ==
    ASSUME SysInv, NEW h \in IPs, doLOGOUT(h), UNCHANGED file
    PROVE  ClientInv'
<1> DEFINE f == [type |-> "LOGOUT"]
<1>1. /\ loggedin(h)
      /\ wrote' = [wrote EXCEPT ![sock[h]] = Append(@, f)]
      /\ shut' = [shut EXCEPT ![sock[h]] = TRUE]
      /\ sock' = [sock EXCEPT ![h] = NoConn]
      /\ UNCHANGED <<peer, backlog, out, listening_port, taken,
                     clientIPVector, blockedClients>>
    BY DEF doLOGOUT, Write
<1>2. /\ wrote \in [Conns -> Seq(ClientFrame \cup NewClient)]
      /\ shut \in [Conns -> BOOLEAN] /\ sock[h] \in Conns
      /\ peer[sock[h]] # NoIP
    BY <1>1, HeldFacts DEF SysInv, IInv, CoreInv, TypeOK
<1>3. ClientTypeOK'
    BY <1>1 DEF SysInv, ClientInv, ClientTypeOK
<1>4. shut' = [c \in Conns |-> shut[c] \/ c = sock[h]]
    BY <1>1, <1>2
<1>5. SessionsAgree'
    BY <1>1, <1>4, CloseKeeps
<1>6. ListsWereSent' /\ PortsAreTheirs'
    BY <1>1 DEF SysInv, ClientInv, ListsWereSent, WasListed, PortsAreTheirs
<1>7. UnusedAreOpen'
    BY <1>1, <1>2, <1>4 DEF SysInv, ClientInv, UnusedAreOpen
<1>8. LogoutCloses'
    BY <1>1, <1>2, <1>4 DEF SysInv, ClientInv, LogoutCloses
<1> QED BY <1>3, <1>5, <1>6, <1>7, <1>8 DEF ClientInv

\* doEXIT keeps it.
LEMMA ExitKeeps ==
    ASSUME SysInv, NEW h \in IPs, doEXIT(h), UNCHANGED file
    PROVE  ClientInv'
<1>1. /\ shut' = [c \in Conns |-> shut[c] \/ c = sock[h]]
      /\ sock' = [sock EXCEPT ![h] = NoConn]
      /\ clientIPVector' = [clientIPVector EXCEPT ![h] = {}]
      /\ blockedClients' = [blockedClients EXCEPT ![h] = {}]
      /\ UNCHANGED <<peer, wrote, backlog, out, taken>>
    BY DEF doEXIT
<1>2. PICK p \in ListenPorts[h] :
          listening_port' = [listening_port EXCEPT ![h] = p]
    BY DEF doEXIT
<1>3. ListenPorts[h] \subseteq Ports
    BY ConstantsAssumption
<1>4. ClientTypeOK'
    BY <1>1, <1>2, <1>3 DEF SysInv, ClientInv, ClientTypeOK
<1>5. SessionsAgree'
    BY <1>1, CloseKeeps
<1>6. ListsWereSent'
    BY <1>1 DEF SysInv, ClientInv, ClientTypeOK, ListsWereSent, WasListed
<1>7. PortsAreTheirs'
    BY <1>2 DEF SysInv, ClientInv, ClientTypeOK, PortsAreTheirs
<1>8. LogoutCloses'
    BY <1>1 DEF SysInv, ClientInv, LogoutCloses
<1>9. UnusedAreOpen'
  <2> SUFFICES ASSUME NEW c \in Conns, peer[c] = NoIP PROVE ~shut'[c]
    BY <1>1 DEF UnusedAreOpen
  <2>1. ~shut[c]
    BY DEF SysInv, ClientInv, UnusedAreOpen
  <2>2. c # sock[h]
    <3>1. CASE loggedin(h)
      BY <3>1, HeldFacts
    <3>2. CASE ~loggedin(h)
      BY <3>2, ConstantsAssumption DEF loggedin
    <3> QED BY <3>1, <3>2
  <2> QED BY <1>1, <2>1, <2>2
<1> QED BY <1>4, <1>5, <1>6, <1>7, <1>8, <1>9 DEF ClientInv

\* Handling a frame keeps it: the list that is kept was sent.
LEMMA HandleKeeps ==
    ASSUME SysInv, NEW h \in IPs, HandleFrame(h), UNCHANGED file
    PROVE  ClientInv'
<1> DEFINE c == sock[h]
           f == out[c][taken[c] + 1]
<1>1. /\ loggedin(h)
      /\ taken[c] < Len(out[c])
      /\ clientIPVector' = [clientIPVector EXCEPT ![h] = NowListed(@, f)]
      /\ UNCHANGED <<peer, wrote, shut, backlog, out, listening_port, sock,
                     blockedClients>>
    BY DEF HandleFrame
<1>2. PICK k \in (taken[c] + 1) .. Len(out[c]) :
          taken' = [taken EXCEPT ![c] = k]
    BY DEF HandleFrame, Reads
<1>3. /\ c \in Conns /\ peer[c] = h
      /\ out[c] \in Seq(ServerFrame) /\ taken[c] \in Nat
    BY <1>1, HeldFacts DEF SysInv, ClientInv, ClientTypeOK, IInv, CoreInv, TypeOK
<1>4. taken[c] + 1 \in DOMAIN out[c] /\ f \in ServerFrame
    BY <1>1, <1>3
<1> HIDE DEF f
<1>5. f.type = "NEWLIST" => f.ips \in Seq(IPs) /\ Range(f.ips) \subseteq IPs
  <2>1. ASSUME f.type = "NEWLIST" PROVE f.ips \in Seq(IPs)
    BY <1>4, <2>1 DEF ServerFrame, NewMessage
  <2>2. \A s \in Seq(IPs) : Range(s) \subseteq IPs
    BY DEF Range
  <2> QED BY <2>1, <2>2
<1>6. ClientTypeOK'
  <2>1. k \in Nat /\ k <= Len(out[c])
    BY <1>2, <1>3
  <2>2. clientIPVector' \in [IPs -> SUBSET IPs]
    BY <1>1, <1>5 DEF NowListed, SysInv, ClientInv, ClientTypeOK
  <2> QED BY <1>1, <1>2, <2>1, <2>2 DEF SysInv, ClientInv, ClientTypeOK
<1>7. SessionsAgree'
    BY <1>1 DEF SysInv, ClientInv, SessionsAgree, loggedin, Reaped
<1>8. ListsWereSent'
  <2> SUFFICES ASSUME NEW g \in IPs, NEW ip \in clientIPVector'[g]
               PROVE  WasListed(g, ip)'
    BY DEF ListsWereSent
  <2>1. WasListed(g, ip) => WasListed(g, ip)'
    BY <1>1 DEF WasListed
  <2>2. clientIPVector \in [IPs -> SUBSET IPs]
    BY DEF SysInv, ClientInv, ClientTypeOK
  <2>3. CASE g = h /\ f.type = "NEWLIST"
    <3>1. ip \in Range(f.ips)
      BY <1>1, <2>2, <2>3 DEF NowListed
    <3> QED BY <1>3, <1>4, <2>1, <2>3, <3>1 DEF WasListed, f
  <2>4. CASE ~(g = h /\ f.type = "NEWLIST")
    <3>1. ip \in clientIPVector[g]
      BY <1>1, <2>2, <2>4 DEF NowListed
    <3> QED BY <2>1, <3>1 DEF SysInv, ClientInv, ListsWereSent
  <2> QED BY <2>3, <2>4
<1>9. PortsAreTheirs' /\ LogoutCloses' /\ UnusedAreOpen'
    BY <1>1 DEF SysInv, ClientInv, PortsAreTheirs, LogoutCloses, UnusedAreOpen
<1> QED BY <1>6, <1>7, <1>8, <1>9 DEF ClientInv

\* All that a user does keeps it.
LEMMA UserKeeps ==
    ASSUME SysInv, NEW h \in IPs, UserStep(h), UNCHANGED file
    PROVE  ClientInv'
<1>1. blockedClients \in [IPs -> SUBSET IPs]
    BY DEF SysInv, ClientInv, ClientTypeOK
<1>2. CASE doREFRESH(h)
    BY <1>1, <1>2, WriteKeeps DEF doREFRESH
<1>3. CASE \E ip \in IPs, t \in Texts : doSEND(h, ip, t)
    BY <1>1, <1>3, WriteKeeps DEF doSEND
<1>4. CASE \E t \in Texts : doBROADCAST(h, t)
    BY <1>1, <1>4, WriteKeeps DEF doBROADCAST
<1>5. CASE \E ip \in IPs : doBLOCK(h, ip)
  <2>1. PICK ip \in IPs : doBLOCK(h, ip)
    BY <1>5
  <2>2. blockedClients' \in [IPs -> SUBSET IPs]
    BY <1>1, <2>1 DEF doBLOCK
  <2> QED BY <2>1, <2>2, WriteKeeps DEF doBLOCK
<1>6. CASE \E ip \in IPs : doUNBLOCK(h, ip)
  <2>1. PICK ip \in IPs : doUNBLOCK(h, ip)
    BY <1>6
  <2>2. blockedClients' \in [IPs -> SUBSET IPs]
    BY <1>1, <2>1 DEF doUNBLOCK
  <2> QED BY <2>1, <2>2, WriteKeeps DEF doUNBLOCK
<1>7. CASE doLOGOUT(h)
    BY <1>7, LogoutKeeps
<1>8. CASE doEXIT(h)
    BY <1>8, ExitKeeps
<1> QED BY <1>2, <1>3, <1>4, <1>5, <1>6, <1>7, <1>8 DEF UserStep

\* Every step of the system keeps the inductive invariant.
LEMMA SysNextInv == SysInv /\ [SysNext]_sysVars => SysInv'
<1> SUFFICES ASSUME SysInv, [SysNext]_sysVars PROVE SysInv'
    OBVIOUS
<1>1. IInv'
    BY StepRefines, NextInv DEF SysInv
<1>2. ClientInv'
  <2>1. CASE ServerSide
    BY <1>1, <2>1, ServerKeeps DEF IInv
  <2>2. CASE \E h \in IPs : LoginSide(h)
    BY <2>2, LoginKeeps
  <2>3. CASE \E h \in IPs : ClientSide(h)
    BY <2>3, UserKeeps, HandleKeeps DEF ClientSide
  <2>4. CASE UNCHANGED sysVars
    BY <2>4 DEF sysVars, vars, clientVars, SysInv, ClientInv, ClientTypeOK,
                SessionsAgree, loggedin, Reaped, ListsWereSent, WasListed,
                PortsAreTheirs, LogoutCloses, UnusedAreOpen
  <2> QED BY <2>1, <2>2, <2>3, <2>4 DEF SysNext
<1> QED BY <1>1, <1>2 DEF SysInv

\* The inductive invariant of the system holds in every reachable state.
THEOREM SysInvariance == SysSpec => []SysInv
BY SysInitInv, SysNextInv, PTL DEF SysSpec

-----------------------------------------------------------------------------
(* The theorems. *)

\* The clients of src/client.cpp do only what ChatServer lets its clients do.
THEOREM SystemImplementsServer == SysSpec => ImplementsServer
<1>1. SysInit => Init
    BY DEF SysInit
<1> QED BY <1>1, SysInvariance, StepRefines, PTL
        DEF SysSpec, ImplementsServer, Spec

\* The client's variables have their types, and no read of a client takes more
\* frames than were sent.
THEOREM ClientTypesHold == SysSpec => []ClientTypeOK
BY SysInvariance, PTL DEF SysInv, ClientInv

\* The two ends agree on who is logged in, and the server ends no session that
\* its client has not ended.
THEOREM SessionsStayAgreed == SysSpec => []SessionsAgree
BY SysInvariance, PTL DEF SysInv, ClientInv

\* In the whole system too, SEND and BROADCAST reach only those they should.
THEOREM SystemRelaysAreRight == SysSpec => RelayIsRight
BY SystemImplementsServer, RelaysAreRight DEF ImplementsServer

-----------------------------------------------------------------------------
(* The block lists in clientMap. *)

\* The addresses blocked for y in the records m, none if y has no record.
BlocksIn(m, y) == IF y \in DOMAIN m THEN m[y].blockedClients ELSE {}

\* A block list after the frame f.
Applied(f, B) == CASE f.type = "BLOCK" -> B \cup {f.ip}
                   [] f.type = "UNBLOCK" -> B \ {f.ip}
                   [] OTHER -> B

\* A lookup blocks nobody.
LEMMA TouchBlocks ==
    ASSUME NEW m, IsClientMap(m), NEW K \in SUBSET Keys
    PROVE  \A y : BlocksIn(Touch(m, K), y) = BlocksIn(m, y)
<1>1. /\ DOMAIN Touch(m, K) = DOMAIN m \cup K
      /\ \A k \in DOMAIN m : Touch(m, K)[k] = m[k]
      /\ \A k \in K \ DOMAIN m : Touch(m, K)[k] = DefaultClient
    BY TouchFacts
<1>2. DefaultClient.blockedClients = {}
    BY DEF DefaultClient
<1> QED BY <1>1, <1>2 DEF BlocksIn

\* Nor does the lookup at the head of the loop.
LEMMA FetchedBlocks ==
    ASSUME CoreInv, NEW i \in DOMAIN clients_sockets
    PROVE  /\ \A y : BlocksIn(Fetched(i), y) = BlocksIn(clientMap, y)
           /\ IsClientMap(Fetched(i)) /\ Sender(i) \in DOMAIN Fetched(i)
           /\ Fetched(i)[Sender(i)] \in clientobj
           /\ Fetched(i)[Sender(i)].blockedClients
                 = BlocksIn(clientMap, Sender(i))
<1>1. IsClientMap(clientMap) /\ {Sender(i)} \in SUBSET Keys
    BY EntryFacts DEF CoreInv, TypeOK, Keys
<1>2. \A y : BlocksIn(Fetched(i), y) = BlocksIn(clientMap, y)
    BY <1>1, TouchBlocks DEF Fetched
<1>3. IsClientMap(Fetched(i)) /\ Sender(i) \in DOMAIN Fetched(i)
    BY FetchedFacts
<1> QED BY <1>2, <1>3 DEF BlocksIn, IsClientMap

\* Writing one field of a record leaves the others' block lists, and, unless it
\* is the block list, its own.
LEMMA BlockFields ==
    ASSUME NEW r \in clientobj, NEW x
    PROVE  /\ [r EXCEPT !.port = x].blockedClients = r.blockedClients
           /\ [r EXCEPT !.msgssent = x].blockedClients = r.blockedClients
           /\ [r EXCEPT !.msgsrecvd = x].blockedClients = r.blockedClients
           /\ Stored(r, x).blockedClients = r.blockedClients
           /\ [r EXCEPT !.blockedClients = x].blockedClients = x
BY DEF clientobj, Stored

\* The sender's record is written.
LEMMA EditBlocks ==
    ASSUME CoreInv, NEW i \in DOMAIN clients_sockets, NEW r, NEW z
    PROVE  BlocksIn([Fetched(i) EXCEPT ![Sender(i)] = r], z) =
               IF z = Sender(i) THEN r.blockedClients ELSE BlocksIn(clientMap, z)
<1> DEFINE m == [Fetched(i) EXCEPT ![Sender(i)] = r]
<1>1. /\ \A y : BlocksIn(Fetched(i), y) = BlocksIn(clientMap, y)
      /\ Sender(i) \in DOMAIN Fetched(i)
    BY FetchedBlocks
<1>2. DOMAIN m = DOMAIN Fetched(i)
    OBVIOUS
<1>3. \A y \in DOMAIN m : m[y] = IF y = Sender(i) THEN r ELSE Fetched(i)[y]
    BY <1>2
<1> HIDE DEF m
<1> QED BY <1>1, <1>2, <1>3 DEF BlocksIn

\* REFRESH and NEWCLIENT block nobody.
LEMMA ListBlocks ==
    ASSUME CoreInv, NEW i \in DOMAIN clients_sockets,
           parseREFRESH(i) \/ parseNEWCLIENT(i)
    PROVE  \A y : BlocksIn(clientMap, y)' = BlocksIn(clientMap, y)
<1>1. PICK m : /\ m = Fetched(i) \/ /\ ReadFrame(i, "NEWCLIENT")
                                    /\ m = [Fetched(i) EXCEPT ![Sender(i)].port =
                                               Received(i).port]
               /\ clientMap' = Touch(m, Listed)
    BY DEF parseREFRESH, parseNEWCLIENT, sendListAndIPs, getListOfClients
<1>2. IsClientMap(m) /\ \A y : BlocksIn(m, y) = BlocksIn(clientMap, y)
  <2>1. CASE m = Fetched(i)
    BY <2>1, FetchedBlocks
  <2>2. CASE /\ ReadFrame(i, "NEWCLIENT")
             /\ m = [Fetched(i) EXCEPT ![Sender(i)].port = Received(i).port]
    <3> DEFINE r == [Fetched(i)[Sender(i)] EXCEPT !.port = Received(i).port]
    <3>1. /\ Fetched(i)[Sender(i)] \in clientobj
          /\ Sender(i) \in DOMAIN Fetched(i) /\ IsClientMap(Fetched(i))
      BY FetchedBlocks
    <3>2. Received(i).port \in Ports
      BY <2>2, ReadFrameFacts DEF ClientFrame, NewClient
    <3>3. r \in clientobj /\ r.blockedClients = Fetched(i)[Sender(i)].blockedClients
      BY <3>1, <3>2, BlockFields DEF clientobj
    <3>4. m = [Fetched(i) EXCEPT ![Sender(i)] = r]
      BY <2>2
    <3> HIDE DEF r
    <3>5. IsClientMap(m)
      BY <3>1, <3>3, <3>4 DEF IsClientMap
    <3>6. \A z : BlocksIn(m, z) = IF z = Sender(i) THEN r.blockedClients
                                  ELSE BlocksIn(clientMap, z)
      BY <3>4, EditBlocks
    <3> QED BY <3>3, <3>5, <3>6, FetchedBlocks
  <2> QED BY <1>1, <2>1, <2>2
<1>3. Listed \in SUBSET Keys
    BY EntryFacts DEF Listed, Sender, Keys
<1> QED BY <1>1, <1>2, <1>3, TouchBlocks DEF BlocksIn

\* BLOCK and UNBLOCK do to the sender's block list what they say.
LEMMA ChoiceBlocks ==
    ASSUME CoreInv, NEW i \in DOMAIN clients_sockets,
           parseBLOCK(i) \/ parseUNBLOCK(i)
    PROVE  \A y : BlocksIn(clientMap, y)' =
                      IF y = Sender(i)
                      THEN Applied(Received(i), BlocksIn(clientMap, y))
                      ELSE BlocksIn(clientMap, y)
<1> DEFINE s == Sender(i)
           B == Applied(Received(i), BlocksIn(clientMap, s))
           r == [Fetched(i)[s] EXCEPT !.blockedClients = B]
<1>1. /\ Fetched(i)[s] \in clientobj /\ s \in DOMAIN Fetched(i)
      /\ Fetched(i)[s].blockedClients = BlocksIn(clientMap, s)
      /\ \A y : BlocksIn(Fetched(i), y) = BlocksIn(clientMap, y)
    BY FetchedBlocks
<1>2. clientMap' = [Fetched(i) EXCEPT ![s] = r]
  <2>1. CASE parseBLOCK(i)
    <3>1. B = Fetched(i)[s].blockedClients \cup {Received(i).ip}
      BY <1>1, <2>1 DEF parseBLOCK, ReadFrame, Applied
    <3>2. clientMap' = [Fetched(i) EXCEPT ![s].blockedClients =
                            @ \cup {Received(i).ip}]
      BY <2>1 DEF parseBLOCK
    <3> HIDE DEF B
    <3> QED BY <1>1, <3>1, <3>2
  <2>2. CASE parseUNBLOCK(i)
    <3>1. B = Fetched(i)[s].blockedClients \ {Received(i).ip}
      BY <1>1, <2>2 DEF parseUNBLOCK, ReadFrame, Applied
    <3>2. clientMap' = [Fetched(i) EXCEPT ![s].blockedClients =
                            @ \ {Received(i).ip}]
      BY <2>2 DEF parseUNBLOCK
    <3> HIDE DEF B
    <3> QED BY <1>1, <3>1, <3>2
  <2> QED BY <2>1, <2>2
<1>3. r.blockedClients = B
    BY <1>1, BlockFields
<1> HIDE DEF r
<1>4. \A z : BlocksIn([Fetched(i) EXCEPT ![s] = r], z) =
                 IF z = s THEN r.blockedClients ELSE BlocksIn(clientMap, z)
    BY EditBlocks
<1> QED BY <1>2, <1>3, <1>4 DEF BlocksIn

\* A relay blocks nobody.
LEMMA RelayBlocks ==
    ASSUME CoreInv, NEW i \in DOMAIN clients_sockets, NEW dests, Relay(i, dests)
    PROVE  \A y : BlocksIn(clientMap, y)' = BlocksIn(clientMap, y)
<1> DEFINE m == [Fetched(i) EXCEPT ![Sender(i)].msgssent = @ + 1]
           r == [Fetched(i)[Sender(i)] EXCEPT !.msgssent = @ + 1]
           message == [type |-> "NEWMESSAGE", from |-> Sender(i),
                       text |-> Received(i).text]
           hearers == {y \in Range(dests) \cap DOMAIN m : Hears(m[y], Sender(i))}
           times(y) == Cardinality({k \in DOMAIN dests : dests[k] = y})
<1>1. PICK up \in SUBSET hearers :
        clientMap' = [y \in DOMAIN m |->
              IF y \in up
              THEN [m[y] EXCEPT !.msgsrecvd = @ + times(y)]
              ELSE IF y \in hearers
              THEN Stored(m[y], Repeat(message, times(y)))
              ELSE m[y]]
    BY DEF Relay
<1>2. /\ IsClientMap(Fetched(i)) /\ Sender(i) \in DOMAIN Fetched(i)
      /\ Fetched(i)[Sender(i)] \in clientobj
      /\ \A y : BlocksIn(Fetched(i), y) = BlocksIn(clientMap, y)
    BY FetchedBlocks
<1>3. /\ r.blockedClients = Fetched(i)[Sender(i)].blockedClients
      /\ r \in clientobj
    BY SMTT(40), <1>2, BlockFields DEF clientobj
<1>4. m = [Fetched(i) EXCEPT ![Sender(i)] = r]
    OBVIOUS
<1> HIDE DEF m, message, hearers, times, r
<1>5. IsClientMap(m)
    BY <1>2, <1>3, <1>4 DEF IsClientMap
<1>6. \A y : BlocksIn(m, y) = BlocksIn(clientMap, y)
  <2>1. \A z : BlocksIn(m, z) = IF z = Sender(i) THEN r.blockedClients
                                ELSE BlocksIn(clientMap, z)
    BY <1>4, EditBlocks
  <2> QED BY <1>2, <1>3, <2>1 DEF BlocksIn
<1>7. DOMAIN clientMap' = DOMAIN m
    BY <1>1
<1>8. ASSUME NEW y \in DOMAIN m
      PROVE  clientMap'[y].blockedClients = m[y].blockedClients
  <2>1. m[y] \in clientobj
    BY <1>5 DEF IsClientMap
  <2>2. CASE y \in up
    <3>1. clientMap'[y] = [m[y] EXCEPT !.msgsrecvd = @ + times(y)]
      BY <1>1, <2>2
    <3> QED BY <2>1, <3>1, BlockFields
  <2>3. CASE y \notin up /\ y \in hearers
    <3>1. clientMap'[y] = Stored(m[y], Repeat(message, times(y)))
      BY <1>1, <2>3
    <3> QED BY <2>1, <3>1, BlockFields
  <2>4. CASE y \notin up /\ y \notin hearers
    BY <1>1, <2>4
  <2> QED BY <2>2, <2>3, <2>4
<1> QED BY <1>6, <1>7, <1>8 DEF BlocksIn

\* What a session that goes on does to the block lists.
LEMMA ConverseBlocks ==
    ASSUME CoreInv, NEW i \in DOMAIN clients_sockets, Converse(i)
    PROVE  \A y : BlocksIn(clientMap, y)' =
                      IF y = Sender(i)
                      THEN Applied(Received(i), BlocksIn(clientMap, y))
                      ELSE BlocksIn(clientMap, y)
<1>1. CASE parseBLOCK(i) \/ parseUNBLOCK(i)
    BY <1>1, ChoiceBlocks
<1>2. CASE parseREFRESH(i) \/ parseNEWCLIENT(i)
  <2>1. Received(i).type \in {"REFRESH", "NEWCLIENT"}
    BY <1>2 DEF parseREFRESH, parseNEWCLIENT, ReadFrame
  <2> QED BY <1>2, <2>1, ListBlocks DEF Applied
<1>3. CASE parseSEND(i) \/ parseBROADCAST(i)
  <2>1. Received(i).type \in {"SEND", "BROADCAST"}
    BY <1>3 DEF parseSEND, parseBROADCAST, ReadFrame
  <2>2. \E dests : Relay(i, dests)
    BY <1>3 DEF parseSEND, parseBROADCAST
  <2> QED BY <2>1, <2>2, RelayBlocks DEF Applied
<1> QED BY <1>1, <1>2, <1>3 DEF Converse

-----------------------------------------------------------------------------
(* What is written and not read yet. *)

\* Where the frames are that come after the first g of w.
Unread(w, g) == {k \in DOMAIN w : g < k}

Chooses(f, ip) == f.type \in {"BLOCK", "UNBLOCK"} /\ f.ip = ip

\* A block list B has ip in it once the frames of w after the first g are
\* applied to it: the last of them that is about ip decides, if there is one.
EndsBlocked(B, w, g, ip) ==
    \/ \E k \in Unread(w, g) :
          /\ Chooses(w[k], ip) /\ w[k].type = "BLOCK"
          /\ \A l \in Unread(w, g) : Chooses(w[l], ip) => l <= k
    \/ ip \in B /\ \A k \in Unread(w, g) : ~Chooses(w[k], ip)

\* Reading one frame and applying it changes nothing of that.
LEMMA ReadsOne ==
    ASSUME NEW S, NEW w \in Seq(S), NEW g \in Nat, g + 1 \in DOMAIN w,
           NEW B, NEW ip
    PROVE  EndsBlocked(Applied(w[g + 1], B), w, g + 1, ip)
               <=> EndsBlocked(B, w, g, ip)
<1> DEFINE f == w[g + 1]
<1>1. /\ Unread(w, g) = Unread(w, g + 1) \cup {g + 1}
      /\ \A k \in Unread(w, g + 1) : k \in Int /\ g + 1 < k
    BY DEF Unread
<1>2. CASE \E k \in Unread(w, g + 1) : Chooses(w[k], ip)
  <2>1. \A k \in Unread(w, g + 1) : ~(k <= g + 1) /\ g + 1 <= k
    BY <1>1
  <2> QED BY <1>1, <1>2, <2>1 DEF EndsBlocked
<1>3. CASE \A k \in Unread(w, g + 1) : ~Chooses(w[k], ip)
  <2>1. EndsBlocked(Applied(f, B), w, g + 1, ip) <=> ip \in Applied(f, B)
    BY <1>3 DEF EndsBlocked
  <2>2. g + 1 <= g + 1
    OBVIOUS
  <2>3. EndsBlocked(B, w, g, ip) <=> \/ Chooses(f, ip) /\ f.type = "BLOCK"
                                     \/ ip \in B /\ ~Chooses(f, ip)
    BY <1>1, <1>3, <2>2 DEF EndsBlocked
  <2>4. ip \in Applied(f, B) <=> \/ Chooses(f, ip) /\ f.type = "BLOCK"
                                 \/ ip \in B /\ ~Chooses(f, ip)
    BY DEF Applied, Chooses
  <2> QED BY <2>1, <2>3, <2>4
<1> QED BY <1>2, <1>3

\* Writing one frame decides of the address it is about, and of no other.
LEMMA WritesOne ==
    ASSUME NEW S, NEW w \in Seq(S), NEW g \in Nat, g <= Len(w), NEW f,
           NEW B, NEW ip
    PROVE  EndsBlocked(B, Append(w, f), g, ip) <=>
               IF Chooses(f, ip) THEN f.type = "BLOCK"
                                 ELSE EndsBlocked(B, w, g, ip)
<1> DEFINE v == Append(w, f)
           n == Len(w) + 1
<1>1. /\ DOMAIN v = DOMAIN w \cup {n} /\ v[n] = f /\ n \notin DOMAIN w
      /\ \A k \in DOMAIN w : v[k] = w[k] /\ k \in Int /\ k < n
      /\ n \in Int /\ g < n
    OBVIOUS
<1> HIDE DEF v, n
<1>2. /\ Unread(v, g) = Unread(w, g) \cup {n}
      /\ \A k \in Unread(w, g) : v[k] = w[k] /\ k <= n /\ ~(n <= k)
    BY <1>1 DEF Unread
<1>3. n <= n
    BY <1>1
<1>4. CASE Chooses(f, ip)
    BY <1>1, <1>2, <1>3, <1>4 DEF EndsBlocked, v
<1>5. CASE ~Chooses(f, ip)
    BY <1>1, <1>2, <1>3, <1>5 DEF EndsBlocked, v
<1> QED BY <1>4, <1>5

-----------------------------------------------------------------------------
(* The connections in the server's hands. *)

Held(h) == {c \in Conns : peer[c] = h /\ ~Reaped(c)}

\* No two descriptors ever lead to the same connection.
LEMMA FileOnceStep ==
    ASSUME CoreInv, BacklogOnce, FileOnce, [Next]_vars
    PROVE  FileOnce'
<1>1. CASE UNCHANGED file
    BY <1>1 DEF FileOnce
<1>2. CASE Accept
  <2>1. PICK fd \in Fds : /\ file' = [file EXCEPT ![fd] = backlog[1]]
                          /\ 1 \in DOMAIN backlog
    BY <1>2, AcceptFacts
  <2>2. \A g \in Fds : file[g] # backlog[1]
    BY <2>1 DEF BacklogOnce
  <2>3. file \in [Fds -> Conns \cup {NoConn}]
    BY DEF CoreInv, TypeOK
  <2> QED BY <2>1, <2>2, <2>3 DEF FileOnce
<1>3. ASSUME NEW i \in DOMAIN clients_sockets, parseLOGOUT(i) \/ parseEXIT(i)
      PROVE  FileOnce'
  <2>1. file' = [file EXCEPT ![Client(i).sock] = NoConn]
    BY <1>3 DEF parseLOGOUT, parseEXIT, logClientOut, Closed
  <2>2. file \in [Fds -> Conns \cup {NoConn}]
    BY DEF CoreInv, TypeOK
  <2> QED BY <2>1, <2>2 DEF FileOnce
<1>4. ASSUME NEW i \in DOMAIN clients_sockets, Converse(i)
      PROVE  UNCHANGED file
    BY <1>4 DEF Converse, parseREFRESH, parseNEWCLIENT, sendListAndIPs,
                parseSEND, parseBROADCAST, parseBLOCK, parseUNBLOCK
<1>5. ConsoleStep => UNCHANGED file
    BY DEF ConsoleStep, doLIST, doSTATISTICS, doBLOCKED
<1>6. AcceptUnresolved \/ Select \/ ScanDone => UNCHANGED file
    BY DEF AcceptUnresolved, Select, ScanDone
<1>7. ClientStep => UNCHANGED file
    BY DEF ClientStep, ClientLogin, ClientCommand, ClientExit
<1>8. CASE ServerStep
    BY <1>1, <1>2, <1>3, <1>4, <1>6, <1>8 DEF ServerStep, Serve, Converse
<1>9. CASE UNCHANGED vars
    BY <1>1, <1>9 DEF vars
<1> QED BY <1>1, <1>5, <1>7, <1>8, <1>9 DEF Next

\* accept() takes a connection from one hand to the other.
LEMMA AcceptHeld ==
    ASSUME CoreInv, Accept
    PROVE  \A h : Held(h)' = Held(h)
<1> DEFINE c == Head(backlog)
           ip == peer[c]
<1>1. /\ UNCHANGED peer /\ 1 \in DOMAIN backlog /\ c = backlog[1]
      /\ \A k \in DOMAIN backlog' : /\ k + 1 \in DOMAIN backlog
                                    /\ backlog'[k] = backlog[k + 1]
      /\ \E fd \in Fds : file[fd] = NoConn /\ file' = [file EXCEPT ![fd] = c]
    BY AcceptFacts
<1> HIDE DEF c
<1>2. PICK fd \in Fds : file[fd] = NoConn /\ file' = [file EXCEPT ![fd] = c]
    BY <1>1
<1>3. /\ file \in [Fds -> Conns \cup {NoConn}] /\ backlog \in Seq(Conns)
      /\ backlog' = Tail(backlog)
    BY DEF CoreInv, TypeOK, Accept
<1>4. \A k \in DOMAIN backlog : k # 1 =>
          k - 1 \in DOMAIN backlog' /\ backlog'[k - 1] = backlog[k]
    BY <1>1, <1>3
<1>5. file'[fd] = c /\ \A g \in Fds : g # fd => file'[g] = file[g]
    BY <1>2, <1>3
<1>6. NoConn \notin Conns
    BY ConstantsAssumption
<1>7. \A d \in Conns : Reaped(d)' => Reaped(d)
    BY <1>1, <1>2, <1>4, <1>5, <1>6 DEF Reaped
<1>8. \A d \in Conns : Reaped(d) => Reaped(d)'
    BY <1>1, <1>5 DEF Reaped
<1> QED BY <1>1, <1>7, <1>8 DEF Held

\* A session that ends is out of them.
LEMMA LogOutHeld ==
    ASSUME CoreInv, BacklogOnce, FileOnce, NEW i \in DOMAIN clients_sockets,
           parseLOGOUT(i) \/ parseEXIT(i)
    PROVE  \A h : Held(h)' = Held(h) \ {Wire(i)}
<1>1. /\ UNCHANGED <<peer, backlog>>
      /\ file' = [file EXCEPT ![Client(i).sock] = NoConn]
    BY DEF parseLOGOUT, parseEXIT, logClientOut, Closed, netVars
<1>2. /\ file \in [Fds -> Conns \cup {NoConn}] /\ Client(i).sock \in Fds
      /\ file[Client(i).sock] = Wire(i) /\ Wire(i) \in Conns
      /\ NoConn \notin Conns
    BY EntryFacts, ConstantsAssumption DEF CoreInv, TypeOK
<1>3. PICK c \in Conns : c = Wire(i)
    BY <1>2
<1>4. Reaped(c)'
    BY <1>1, <1>2, <1>3 DEF BacklogOnce, FileOnce, Reaped
<1>5. \A d \in Conns : d # c => (Reaped(d)' <=> Reaped(d))
    BY <1>1, <1>2, <1>3 DEF Reaped
<1> QED BY <1>1, <1>3, <1>4, <1>5 DEF Held

\* No other step of the server takes or leaves one.
LEMMA ServedHeld ==
    ASSUME UNCHANGED <<peer, file, backlog>>
    PROVE  \A h : Held(h)' = Held(h)
BY DEF Held, Reaped

-----------------------------------------------------------------------------
(* The invariant. *)

\* The client of c ended without a LOGOUT.
Gone(c) == shut[c] /\ \A k \in DOMAIN wrote[c] : wrote[c][k].type # "LOGOUT"

\* Nothing is written after LOGOUT.
LogoutLast ==
    \A c \in Conns : \A k \in DOMAIN wrote[c] :
        wrote[c][k].type = "LOGOUT" => k = Len(wrote[c])

\* The two ends agree on whom h blocks, or will when the server has read what
\* h wrote.  A session without LOGOUT will cost h its record, and its client
\* has forgotten already; one with LOGOUT still has that to be read.
Matches(h) ==
    /\ \A c, d \in Held(h) : c = d
    /\ \A c \in Held(h) :
          /\ Gone(c) => blockedClients[h] = {}
          /\ ~Gone(c) =>
                /\ shut[c] => got[c] < Len(wrote[c])
                /\ \A ip \in IPs :
                      ip \in blockedClients[h] <=>
                          EndsBlocked(BlocksIn(clientMap, h), wrote[c], got[c], ip)
    /\ Held(h) = {} => blockedClients[h] = BlocksIn(clientMap, h)

HandsInv == BaseInv /\ FileOnce

ListsInv == SysInv /\ HandsInv /\ LogoutLast /\ \A h \in IPs \ apart : Matches(h)

\* What the invariant says of types.
LEMMA BlockTypes ==
    ASSUME ListsInv
    PROVE  /\ CoreInv /\ BacklogOnce /\ FileOnce /\ LogoutCloses
           /\ peer \in [Conns -> Keys] /\ got \in [Conns -> Nat]
           /\ \A c \in Conns : got[c] <= Len(wrote[c])
           /\ shut \in [Conns -> BOOLEAN]
           /\ wrote \in [Conns -> Seq(ClientFrame \cup NewClient)]
           /\ blockedClients \in [IPs -> SUBSET IPs]
           /\ \A h : BlocksIn(clientMap, h) \subseteq IPs
<1>1. \A h : BlocksIn(clientMap, h) \subseteq IPs
    BY DEF ListsInv, SysInv, IInv, CoreInv, TypeOK, IsClientMap, clientobj,
           BlocksIn
<1> QED BY <1>1 DEF ListsInv, HandsInv, BaseInv, SysInv, IInv, CoreInv, TypeOK,
                    ClientInv, ClientTypeOK

\* A step that leaves what h wrote, what of it was read, and both block lists.
LEMMA MatchesKept ==
    ASSUME NEW h, Matches(h), Held(h)' = Held(h),
           \A c \in Held(h) : /\ wrote'[c] = wrote[c] /\ got'[c] = got[c]
                              /\ shut'[c] = shut[c],
           blockedClients'[h] = blockedClients[h],
           BlocksIn(clientMap, h)' = BlocksIn(clientMap, h)
    PROVE  Matches(h)'
<1>1. \A c \in Held(h) : Gone(c)' <=> Gone(c)
    BY DEF Gone
<1> QED BY <1>1 DEF Matches

-----------------------------------------------------------------------------
(* The server's steps. *)

\* A session that goes on has one frame read and done, where none is lost.
LEMMA ConverseMatches ==
    ASSUME ListsInv, NEW i \in DOMAIN clients_sockets, Converse(i),
           UNCHANGED <<peer, wrote, shut, blockedClients>>,
           NEW h \in IPs, Matches(h),
           \A c \in Conns : peer[c] = h => ~(got'[c] > got[c] + 1)
    PROVE  Matches(h)'
<1>1. PICK c \in Conns : c = Wire(i)
    BY BlockTypes, EntryFacts
<1>2. /\ peer[c] = Sender(i) /\ Sender(i) \in IPs
      /\ Client(i).sock \in Fds /\ file[Client(i).sock] = c
    BY <1>1, BlockTypes, EntryFacts
<1>3. UNCHANGED <<file, backlog>>
    BY DEF Converse, parseREFRESH, parseNEWCLIENT, sendListAndIPs,
           parseSEND, parseBROADCAST, parseBLOCK, parseUNBLOCK
<1>4. Held(h)' = Held(h)
    BY <1>3, ServedHeld
<1>5. PICK type \in {"REFRESH", "NEWCLIENT", "SEND", "BROADCAST", "BLOCK",
                     "UNBLOCK"} : ReadFrame(i, type)
    BY DEF Converse, parseREFRESH, parseNEWCLIENT,
           parseSEND, parseBROADCAST, parseBLOCK, parseUNBLOCK
<1>6. /\ got[c] < Len(wrote[c]) /\ Received(i) = wrote[c][got[c] + 1]
      /\ Received(i).type = type
    BY <1>1, <1>5 DEF ReadFrame, Received
<1>7. PICK k \in (got[c] + 1) .. Len(wrote[c]) : got' = [got EXCEPT ![c] = k]
    BY <1>1, <1>5 DEF ReadFrame, Taken
<1>8. /\ got[c] \in Nat /\ wrote[c] \in Seq(ClientFrame \cup NewClient)
      /\ got \in [Conns -> Nat]
    BY BlockTypes
<1>9. \A y : BlocksIn(clientMap, y)' =
                 IF y = Sender(i)
                 THEN Applied(Received(i), BlocksIn(clientMap, y))
                 ELSE BlocksIn(clientMap, y)
    BY BlockTypes, ConverseBlocks
<1>10. CASE h # Sender(i)
  <2>1. \A d \in Held(h) : d # c
    BY <1>2, <1>10 DEF Held
  <2>2. \A d \in Held(h) : got'[d] = got[d]
    BY <1>7, <1>8, <2>1 DEF Held
  <2>3. BlocksIn(clientMap, h)' = BlocksIn(clientMap, h)
    BY <1>9, <1>10
  <2> QED BY <1>4, <2>2, <2>3, MatchesKept
<1>11. CASE h = Sender(i)
  <2>1. c \in Held(h)
    BY <1>2, <1>11 DEF Held, Reaped
  <2>2. \A d \in Held(h) : d = c
    BY <2>1 DEF Matches
  <2>3. got'[c] = got[c] + 1 /\ got[c] + 1 \in DOMAIN wrote[c]
    <3>1. got'[c] = k
      BY <1>7, <1>8
    <3>2. ~(k > got[c] + 1)
      BY <1>2, <1>11, <3>1
    <3> QED BY <1>6, <1>7, <1>8, <3>1, <3>2
  <2>4. BlocksIn(clientMap, h)' =
            Applied(wrote[c][got[c] + 1], BlocksIn(clientMap, h))
    BY <1>6, <1>9, <1>11
  <2>5. \A ip : EndsBlocked(Applied(wrote[c][got[c] + 1], BlocksIn(clientMap, h)),
                            wrote[c], got[c] + 1, ip)
                <=> EndsBlocked(BlocksIn(clientMap, h), wrote[c], got[c], ip)
    BY <1>8, <2>3, ReadsOne
  <2>6. Gone(c)' <=> Gone(c)
    BY DEF Gone
  <2>7. ASSUME ~Gone(c), shut[c] PROVE got[c] + 1 < Len(wrote[c])
    <3>1. PICK l \in DOMAIN wrote[c] : wrote[c][l].type = "LOGOUT"
      BY <2>7 DEF Gone
    <3>2. l = Len(wrote[c])
      BY <3>1 DEF ListsInv, LogoutLast
    <3>3. l # got[c] + 1
      BY <1>6, <3>1
    <3> QED BY <1>6, <1>8, <3>2, <3>3
  <2>8. /\ Gone(c) => blockedClients[h] = {}
        /\ ~Gone(c) =>
              \A ip \in IPs :
                  ip \in blockedClients[h] <=>
                      EndsBlocked(BlocksIn(clientMap, h), wrote[c], got[c], ip)
    BY <2>1 DEF Matches
  <2>9. /\ Gone(c)' => blockedClients'[h] = {}
        /\ ~Gone(c)' =>
              /\ shut'[c] => got'[c] < Len(wrote'[c])
              /\ \A ip \in IPs :
                    ip \in blockedClients'[h] <=>
                        EndsBlocked(BlocksIn(clientMap, h)', wrote'[c], got'[c], ip)
    BY <2>3, <2>4, <2>5, <2>6, <2>7, <2>8
  <2> QED BY <1>4, <2>1, <2>2, <2>9 DEF Matches
<1> QED BY <1>10, <1>11

\* What the end of a session does to the block lists.
LEMMA LogOutBlocks ==
    ASSUME CoreInv, NEW i \in DOMAIN clients_sockets
    PROVE  /\ parseLOGOUT(i) =>
                  \A y : BlocksIn(clientMap, y)' = BlocksIn(clientMap, y)
           /\ parseEXIT(i) =>
                  \A y : BlocksIn(clientMap, y)' =
                             IF y = Sender(i) THEN {} ELSE BlocksIn(clientMap, y)
<1> SUFFICES ASSUME NEW K \in SUBSET {Sender(i)},
                    logClientOut(Client(i).sock, Fetched(i), K)
             PROVE  \A y : BlocksIn(clientMap, y)' =
                               IF y \in K THEN {} ELSE BlocksIn(clientMap, y)
  <2>1. {} \in SUBSET {Sender(i)} /\ {Sender(i)} \in SUBSET {Sender(i)}
    OBVIOUS
  <2> QED BY <2>1 DEF parseLOGOUT, parseEXIT
<1>1. PICK k \in DOMAIN clients_sockets :
        /\ clients_sockets[k].sock = Client(i).sock
        /\ clientMap' = [h \in DOMAIN Touch(Fetched(i),
                                            {clients_sockets[k].ip}) \ K |->
              IF h = clients_sockets[k].ip
              THEN LoggedOut(Touch(Fetched(i), {clients_sockets[k].ip})[h])
              ELSE Touch(Fetched(i), {clients_sockets[k].ip})[h]]
    BY DEF logClientOut
<1> DEFINE ip == clients_sockets[k].ip
           n == Touch(Fetched(i), {ip})
<1>2. {ip} \in SUBSET Keys
    BY EntryFacts DEF Sender, Keys
<1> HIDE DEF ip
<1>3. /\ IsClientMap(Fetched(i))
      /\ \A y : BlocksIn(Fetched(i), y) = BlocksIn(clientMap, y)
    BY FetchedBlocks
<1>4. IsClientMap(n) /\ \A y : BlocksIn(n, y) = BlocksIn(clientMap, y)
    BY <1>2, <1>3, TouchFacts, TouchBlocks
<1>5. \A h \in DOMAIN n : LoggedOut(n[h]).blockedClients = n[h].blockedClients
    BY <1>4, LoggedOutFields DEF IsClientMap
<1>6. /\ DOMAIN clientMap' = DOMAIN n \ K
      /\ \A h \in DOMAIN n \ K :
            clientMap'[h] = IF h = ip THEN LoggedOut(n[h]) ELSE n[h]
    BY <1>1 DEF ip
<1> HIDE DEF n
<1> QED BY <1>4, <1>5, <1>6 DEF BlocksIn

\* At the end of a session all it wrote was read, and the record is the
\* client's, or gone with what the client knew.
LEMMA LogOutMatches ==
    ASSUME ListsInv, NEW i \in DOMAIN clients_sockets,
           parseLOGOUT(i) \/ parseEXIT(i),
           UNCHANGED <<peer, wrote, shut, blockedClients>>,
           NEW h \in IPs, Matches(h)
    PROVE  Matches(h)'
<1>1. PICK c \in Conns : c = Wire(i)
    BY BlockTypes, EntryFacts
<1>2. /\ peer[c] = Sender(i) /\ Sender(i) \in IPs
      /\ Client(i).sock \in Fds /\ file[Client(i).sock] = c
    BY <1>1, BlockTypes, EntryFacts
<1>3. Held(h)' = Held(h) \ {c}
    BY <1>1, BlockTypes, LogOutHeld
<1>4. \A d \in Conns : d # c => got'[d] = got[d]
    BY <1>1, BlockTypes DEF parseLOGOUT, parseEXIT, ReadFrame, ReadEOF
<1>5. /\ got[c] \in Nat /\ wrote[c] \in Seq(ClientFrame \cup NewClient)
      /\ blockedClients[h] \subseteq IPs /\ BlocksIn(clientMap, h) \subseteq IPs
    BY BlockTypes
<1>6. CASE h # Sender(i)
  <2>1. c \notin Held(h)
    BY <1>2, <1>6 DEF Held
  <2>2. BlocksIn(clientMap, h)' = BlocksIn(clientMap, h)
    BY <1>6, BlockTypes, LogOutBlocks
  <2>3. Held(h)' = Held(h)
    BY <1>3, <2>1
  <2> QED BY <1>4, <2>1, <2>2, <2>3, MatchesKept DEF Held
<1>7. CASE h = Sender(i)
  <2>1. c \in Held(h)
    BY <1>2, <1>7 DEF Held, Reaped
  <2>2. \A d \in Held(h) : d = c
    BY <2>1 DEF Matches
  <2>3. Held(h)' = {}
    BY <1>3, <2>2
  <2>4. /\ Gone(c) => blockedClients[h] = {}
        /\ ~Gone(c) =>
              /\ shut[c] => got[c] < Len(wrote[c])
              /\ \A ip \in IPs :
                    ip \in blockedClients[h] <=>
                        EndsBlocked(BlocksIn(clientMap, h), wrote[c], got[c], ip)
    BY <2>1 DEF Matches
  <2>5. CASE parseLOGOUT(i)
    <3>1. got[c] < Len(wrote[c]) /\ wrote[c][got[c] + 1].type = "LOGOUT"
      BY <1>1, <2>5 DEF parseLOGOUT, ReadFrame, Received
    <3>2. got[c] + 1 \in DOMAIN wrote[c]
      BY <1>5, <3>1
    <3>3. got[c] + 1 = Len(wrote[c]) /\ ~Gone(c)
      BY <3>1, <3>2 DEF ListsInv, LogoutLast, Gone
    <3>4. Unread(wrote[c], got[c]) = {got[c] + 1}
      BY <1>5, <3>3 DEF Unread
    <3>5. \A ip : EndsBlocked(BlocksIn(clientMap, h), wrote[c], got[c], ip)
                      <=> ip \in BlocksIn(clientMap, h)
      BY <3>1, <3>4 DEF EndsBlocked, Chooses
    <3>6. blockedClients[h] = BlocksIn(clientMap, h)
      BY <1>5, <2>4, <3>3, <3>5
    <3>7. BlocksIn(clientMap, h)' = BlocksIn(clientMap, h)
      BY <2>5, BlockTypes, LogOutBlocks
    <3> QED BY <2>3, <3>6, <3>7 DEF Matches
  <2>6. CASE parseEXIT(i)
    <3>1. got[c] = Len(wrote[c]) /\ shut[c]
      BY <1>1, <2>6 DEF parseEXIT, ReadEOF
    <3>2. Gone(c)
      BY <1>5, <2>4, <3>1
    <3>3. BlocksIn(clientMap, h)' = {}
      BY <1>7, <2>6, BlockTypes, LogOutBlocks
    <3> QED BY <2>3, <2>4, <3>2, <3>3 DEF Matches
  <2> QED BY <2>5, <2>6
<1> QED BY <1>6, <1>7

\* accept() and the console block nobody.
LEMMA RestBlocks ==
    ASSUME CoreInv, Accept \/ ConsoleStep
    PROVE  \A y : BlocksIn(clientMap, y)' = BlocksIn(clientMap, y)
<1>1. IsClientMap(clientMap)
    BY DEF CoreInv, TypeOK
<1>2. CASE Accept
  <2> DEFINE ip == peer[Head(backlog)]
  <2>1. PICK fd \in Fds :
            /\ DOMAIN clientMap' = DOMAIN clientMap \cup {ip}
            /\ \A k \in DOMAIN clientMap :
                  k # ip => clientMap'[k] = clientMap[k]
            /\ clientMap'[ip] = IF ip \in DOMAIN clientMap
                                THEN LoggedIn(clientMap[ip], fd)
                                ELSE [DefaultClient EXCEPT !.sock = fd,
                                                           !.ip = ip,
                                                           !.online = TRUE]
    BY <1>2, AcceptFacts
  <2> HIDE DEF ip
  <2>2. ASSUME ip \in DOMAIN clientMap
        PROVE  clientMap'[ip].blockedClients = clientMap[ip].blockedClients
    <3>1. clientMap[ip] \in clientobj
      BY <1>1, <2>2 DEF IsClientMap
    <3>2. LoggedIn(clientMap[ip], fd).blockedClients
              = clientMap[ip].blockedClients
      BY <3>1, LoggedInFields
    <3> QED BY <2>1, <2>2, <3>2
  <2>3. ip \notin DOMAIN clientMap => clientMap'[ip].blockedClients = {}
    BY <2>1 DEF DefaultClient
  <2> QED BY <2>1, <2>2, <2>3 DEF BlocksIn
<1>3. CASE doLIST
  <2>1. Listed \in SUBSET Keys
    BY EntryFacts DEF Listed, Sender, Keys
  <2>2. clientMap' = Touch(clientMap, Listed)
    BY <1>3 DEF doLIST, getListOfClients
  <2> QED BY <1>1, <2>1, <2>2, TouchBlocks DEF BlocksIn
<1>4. CASE doSTATISTICS
  <2> DEFINE K == {clientMap[k].ip : k \in DOMAIN clientMap}
  <2>1. clientMap' = Touch(clientMap, K)
    BY <1>4 DEF doSTATISTICS
  <2>2. K \in SUBSET Keys
    BY <1>1 DEF IsClientMap, clientobj
  <2> HIDE DEF K
  <2> QED BY <1>1, <2>1, <2>2, TouchBlocks DEF BlocksIn
<1>5. ASSUME NEW ip \in IPs, doBLOCKED(ip)
      PROVE  \A y : BlocksIn(clientMap, y)' = BlocksIn(clientMap, y)
  <2> DEFINE blocked == clientMap[ip].blockedClients
             m == Touch(clientMap, blocked)
             K == {m[k].ip : k \in blocked}
  <2>1. ip \in DOMAIN clientMap /\ clientMap' = Touch(m, K)
    BY <1>5 DEF doBLOCKED
  <2>2. blocked \in SUBSET Keys
    BY <1>1, <2>1 DEF IsClientMap, clientobj, Keys
  <2> HIDE DEF blocked
  <2>3. /\ IsClientMap(m) /\ DOMAIN m = DOMAIN clientMap \cup blocked
        /\ \A y : BlocksIn(m, y) = BlocksIn(clientMap, y)
    BY <1>1, <2>2, TouchFacts, TouchBlocks
  <2> HIDE DEF m
  <2>4. K \in SUBSET Keys
    BY <2>3 DEF IsClientMap, clientobj
  <2> HIDE DEF K
  <2> QED BY <2>1, <2>3, <2>4, TouchBlocks DEF BlocksIn
<1> QED BY <1>2, <1>3, <1>4, <1>5 DEF ConsoleStep

\* Every step of the server keeps the agreement of a host that none of its
\* frames were lost of.
LEMMA ServerMatches ==
    ASSUME ListsInv, ServerSide, NEW h \in IPs, h \notin apart'
    PROVE  Matches(h)'
<1>1. /\ UNCHANGED <<peer, wrote, shut, blockedClients>>
      /\ ServerStep \/ ConsoleStep
    BY BlockTypes, ServerServes DEF ServerSide, clientVars, netVars
<1>2. /\ h \notin apart
      /\ \A c \in Conns : peer[c] = h => ~(got'[c] > got[c] + 1)
    BY <1>1 DEF ServerSide
<1>3. Matches(h)
    BY <1>2 DEF ListsInv
<1>4. ASSUME UNCHANGED got, Held(h)' = Held(h),
             BlocksIn(clientMap, h)' = BlocksIn(clientMap, h)
      PROVE  Matches(h)'
    BY <1>1, <1>3, <1>4, MatchesKept
<1>5. CASE Accept
  <2>1. UNCHANGED got
    BY <1>5 DEF Accept
  <2> QED BY <1>4, <1>5, <2>1, BlockTypes, AcceptHeld, RestBlocks
<1>6. CASE ConsoleStep
  <2>1. UNCHANGED <<got, peer, file, backlog>>
    BY <1>6 DEF ConsoleStep, doLIST, doSTATISTICS, doBLOCKED, netVars
  <2> QED BY <1>4, <1>6, <2>1, BlockTypes, ServedHeld, RestBlocks
<1>7. CASE AcceptUnresolved \/ Select \/ ScanDone
  <2>1. UNCHANGED <<got, peer, file, backlog, clientMap>>
    BY <1>7 DEF AcceptUnresolved, Select, ScanDone, netVars
  <2> QED BY <1>4, <2>1, ServedHeld DEF BlocksIn
<1>8. ASSUME NEW i \in DOMAIN clients_sockets, Serve(i) PROVE Matches(h)'
  <2>1. CASE Converse(i)
    BY <1>1, <1>2, <1>3, <2>1, ConverseMatches
  <2>2. CASE parseLOGOUT(i) \/ parseEXIT(i)
    BY <1>1, <1>3, <2>2, LogOutMatches
  <2> QED BY <1>8, <2>1, <2>2 DEF Serve, Converse
<1> QED BY <1>1, <1>5, <1>6, <1>7, <1>8 DEF ServerStep

-----------------------------------------------------------------------------
(* The clients' steps. *)

\* A new session starts where the last one ended.
LEMMA LoginMatches ==
    ASSUME ListsInv, NEW g \in IPs, LoginSide(g), NEW h \in IPs, h \notin apart'
    PROVE  Matches(h)'
<1>1. PICK c \in Conns :
          /\ Opens(c, g)
          /\ wrote' = [wrote EXCEPT ![c] =
                <<[type |-> "NEWCLIENT", port |-> listening_port[g]]>>]
    BY DEF LoginSide, doLOGIN
<1>2. /\ peer[c] = NoIP /\ peer' = [peer EXCEPT ![c] = g]
      /\ backlog' = Append(backlog, c)
      /\ UNCHANGED <<got, shut, file, blockedClients, clientMap>>
    BY <1>1 DEF Opens, LoginSide, doLOGIN
<1>3. /\ backlog \in Seq(Conns) /\ peer \in [Conns -> Keys]
      /\ wrote \in [Conns -> Seq(ClientFrame \cup NewClient)]
      /\ blockedClients[h] \subseteq IPs /\ BlocksIn(clientMap, h) \subseteq IPs
    BY BlockTypes DEF CoreInv, TypeOK
<1>4. /\ DOMAIN backlog' = DOMAIN backlog \cup {Len(backlog) + 1}
      /\ backlog'[Len(backlog) + 1] = c
      /\ \A k \in DOMAIN backlog : backlog'[k] = backlog[k]
    BY <1>2, <1>3
<1>5. /\ \A d \in Conns : d # c => (Reaped(d)' <=> Reaped(d))
      /\ ~Reaped(c)'
    BY <1>2, <1>4 DEF Reaped
<1>6. /\ h \notin apart
      /\ h = g => \A d \in Conns : peer[d] = h => Reaped(d)
    BY DEF LoginSide
<1>7. Matches(h)
    BY <1>6 DEF ListsInv
<1>8. h # NoIP
    BY ConstantsAssumption
<1>9. CASE h # g
  <2>1. Held(h)' = Held(h) /\ c \notin Held(h)
    BY <1>2, <1>3, <1>5, <1>8, <1>9 DEF Held
  <2>2. \A d \in Held(h) : wrote'[d] = wrote[d]
    BY <1>1, <1>3, <2>1 DEF Held
  <2>3. BlocksIn(clientMap, h)' = BlocksIn(clientMap, h)
    BY <1>2 DEF BlocksIn
  <2> QED BY <1>2, <1>7, <2>1, <2>2, <2>3, MatchesKept
<1>10. CASE h = g
  <2>1. Held(h) = {} /\ Held(h)' = {c}
    BY <1>2, <1>3, <1>5, <1>6, <1>10 DEF Held
  <2>2. blockedClients'[h] = BlocksIn(clientMap, h)'
    BY <1>2, <1>7, <2>1 DEF Matches, BlocksIn
  <2>3. wrote'[c] = <<[type |-> "NEWCLIENT", port |-> listening_port[g]]>>
    BY <1>1, <1>3
  <2>4. ~shut'[c]
    BY <1>2 DEF ListsInv, SysInv, ClientInv, UnusedAreOpen
  <2>5. \A k \in DOMAIN wrote'[c] : wrote'[c][k].type = "NEWCLIENT"
    BY <2>3
  <2>6. \A ip : EndsBlocked(BlocksIn(clientMap, h)', wrote'[c], got'[c], ip)
                    <=> ip \in BlocksIn(clientMap, h)'
    BY <2>5 DEF EndsBlocked, Unread, Chooses
  <2> QED BY <2>1, <2>2, <2>4, <2>6 DEF Matches, Gone
<1> QED BY <1>9, <1>10

\* What a client writes on its session, and does to its own list.
LEMMA WriteMatches ==
    ASSUME ListsInv, NEW g \in IPs, NEW f, Write(g, f), UNCHANGED clientMap,
           UNCHANGED file,
           blockedClients' = [blockedClients EXCEPT ![g] = Applied(f, @)],
           shut' = [shut EXCEPT ![sock[g]] = f.type = "LOGOUT"],
           NEW h \in IPs, Matches(h)
    PROVE  Matches(h)'
<1>1. PICK c \in Conns : c = sock[g]
    BY HeldFacts DEF ListsInv, Write
<1>2. peer[c] = g /\ ~shut[c] /\ ~Reaped(c)
    BY <1>1, HeldFacts DEF ListsInv, Write
<1>3. /\ wrote' = [wrote EXCEPT ![c] = Append(@, f)]
      /\ UNCHANGED <<peer, got, backlog>>
    BY <1>1 DEF Write
<1>4. /\ wrote \in [Conns -> Seq(ClientFrame \cup NewClient)]
      /\ got \in [Conns -> Nat] /\ got[c] <= Len(wrote[c])
      /\ shut \in [Conns -> BOOLEAN]
      /\ blockedClients \in [IPs -> SUBSET IPs]
    BY BlockTypes
<1>5. Held(h)' = Held(h)
    BY <1>3, ServedHeld
<1>6. BlocksIn(clientMap, h)' = BlocksIn(clientMap, h)
    BY DEF BlocksIn
<1>7. CASE h # g
  <2>1. c \notin Held(h)
    BY <1>2, <1>7 DEF Held
  <2>2. \A d \in Held(h) : wrote'[d] = wrote[d] /\ shut'[d] = shut[d]
    BY <1>1, <1>3, <1>4, <2>1 DEF Held
  <2>3. blockedClients'[h] = blockedClients[h]
    BY <1>4, <1>7
  <2> QED BY <1>3, <1>5, <1>6, <2>2, <2>3, MatchesKept
<1>8. CASE h = g
  <2>1. c \in Held(h)
    BY <1>2, <1>8 DEF Held
  <2>2. \A d \in Held(h) : d = c
    BY <2>1 DEF Matches
  <2>3. /\ wrote'[c] = Append(wrote[c], f)
        /\ shut'[c] = (f.type = "LOGOUT") /\ got'[c] = got[c]
        /\ blockedClients'[h] = Applied(f, blockedClients[h])
    BY <1>1, <1>3, <1>4, <1>8
  <2>4. \A ip : EndsBlocked(BlocksIn(clientMap, h), wrote'[c], got[c], ip) <=>
                    IF Chooses(f, ip) THEN f.type = "BLOCK"
                    ELSE EndsBlocked(BlocksIn(clientMap, h), wrote[c], got[c], ip)
    BY <1>4, <2>3, WritesOne
  <2>5. \A ip : ip \in Applied(f, blockedClients[h]) <=>
                    IF Chooses(f, ip) THEN f.type = "BLOCK"
                    ELSE ip \in blockedClients[h]
    BY DEF Applied, Chooses
  <2>6. \A ip \in IPs : ip \in blockedClients[h] <=>
            EndsBlocked(BlocksIn(clientMap, h), wrote[c], got[c], ip)
    BY <1>2, <2>1 DEF Matches, Gone
  <2>7. got'[c] < Len(wrote'[c]) /\ ~Gone(c)'
    <3>1. /\ Len(wrote[c]) \in Nat /\ Len(wrote'[c]) = Len(wrote[c]) + 1
          /\ Len(wrote[c]) + 1 \in DOMAIN wrote'[c]
          /\ wrote'[c][Len(wrote[c]) + 1] = f
      BY <1>4, <2>3
    <3>2. got'[c] < Len(wrote'[c])
      BY <1>4, <2>3, <3>1
    <3>3. shut'[c] => \E k \in DOMAIN wrote'[c] : wrote'[c][k].type = "LOGOUT"
      BY <2>3, <3>1
    <3> QED BY <3>2, <3>3 DEF Gone
  <2> QED BY ZenonT(60), <1>5, <1>6, <2>1, <2>2, <2>3, <2>4, <2>5, <2>6, <2>7 DEF Matches
<1> QED BY <1>7, <1>8

\* A client that ends while logged in forgets, and so will the server.
LEMMA ExitMatches ==
    ASSUME ListsInv, NEW g \in IPs, doEXIT(g), UNCHANGED <<clientMap, file>>,
           NEW h \in IPs, Matches(h), h = g => loggedin(g)
    PROVE  Matches(h)'
<1>1. /\ shut' = [c \in Conns |-> shut[c] \/ c = sock[g]]
      /\ blockedClients' = [blockedClients EXCEPT ![g] = {}]
      /\ UNCHANGED <<peer, wrote, got, backlog>>
    BY DEF doEXIT
<1>2. Held(h)' = Held(h)
    BY <1>1, ServedHeld
<1>3. BlocksIn(clientMap, h)' = BlocksIn(clientMap, h)
    BY DEF BlocksIn
<1>4. blockedClients \in [IPs -> SUBSET IPs] /\ shut \in [Conns -> BOOLEAN]
    BY BlockTypes
<1>5. CASE h # g
  <2>1. \A d \in Held(h) : d # sock[g]
    <3>1. CASE loggedin(g)
      BY <1>5, <3>1, HeldFacts DEF ListsInv, Held
    <3>2. CASE ~loggedin(g)
      BY <3>2, ConstantsAssumption DEF loggedin, Held
    <3> QED BY <3>1, <3>2
  <2>2. \A d \in Held(h) : shut'[d] = shut[d]
    BY <1>1, <1>4, <2>1 DEF Held
  <2>3. blockedClients'[h] = blockedClients[h]
    BY <1>1, <1>4, <1>5
  <2> QED BY <1>1, <1>2, <1>3, <2>2, <2>3, MatchesKept
<1>6. CASE h = g
  <2>1. PICK c \in Conns : c = sock[g]
    BY <1>6, HeldFacts DEF ListsInv
  <2>2. peer[c] = g /\ ~shut[c] /\ ~Reaped(c)
    BY <1>6, <2>1, HeldFacts DEF ListsInv
  <2>3. c \in Held(h)
    BY <1>6, <2>2 DEF Held
  <2>4. \A d \in Held(h) : d = c
    BY <2>3 DEF Matches
  <2>5. \A k \in DOMAIN wrote[c] : wrote[c][k].type # "LOGOUT"
    BY <2>2 DEF ListsInv, SysInv, ClientInv, LogoutCloses
  <2>6. Gone(c)' /\ blockedClients'[h] = {}
    BY <1>1, <1>4, <1>6, <2>1, <2>5 DEF Gone
  <2> QED BY <1>2, <2>3, <2>4, <2>6 DEF Matches
<1> QED BY <1>5, <1>6

\* Every step of a user keeps the agreement.
LEMMA UserMatches ==
    ASSUME ListsInv, NEW g \in IPs, UserStep(g), UNCHANGED <<clientMap, file>>,
           NEW h \in IPs, Matches(h), h = g /\ ~loggedin(g) => ~doEXIT(g)
    PROVE  Matches(h)'
<1>1. blockedClients \in [IPs -> SUBSET IPs]
    BY BlockTypes
<1>2. ASSUME NEW f, Write(g, f), f.type # "LOGOUT", UNCHANGED shut,
             blockedClients' = [blockedClients EXCEPT ![g] = Applied(f, @)]
      PROVE  Matches(h)'
  <2>1. shut' = [shut EXCEPT ![sock[g]] = f.type = "LOGOUT"]
    BY <1>2, StaysOpen DEF ListsInv, Write
  <2> QED BY <1>2, <2>1, WriteMatches
<1>3. ASSUME NEW f, f.type \notin {"BLOCK", "UNBLOCK"}, UNCHANGED blockedClients
      PROVE  blockedClients' = [blockedClients EXCEPT ![g] = Applied(f, @)]
    BY <1>1, <1>3 DEF Applied
<1>4. CASE doREFRESH(g)
  <2> DEFINE f == [type |-> "REFRESH"]
  <2>1. /\ Write(g, f) /\ UNCHANGED <<shut, blockedClients>>
        /\ f.type = "REFRESH"
    BY <1>4 DEF doREFRESH
  <2> HIDE DEF f
  <2> QED BY <1>2, <1>3, <2>1
<1>5. ASSUME NEW ip \in IPs, doBLOCK(g, ip) PROVE Matches(h)'
  <2> DEFINE f == [type |-> "BLOCK", ip |-> ip]
  <2>1. Write(g, f) /\ UNCHANGED shut /\ f.type = "BLOCK" /\ f.ip = ip
    BY <1>5 DEF doBLOCK
  <2>2. blockedClients' = [blockedClients EXCEPT ![g] = @ \cup {ip}]
    BY <1>5 DEF doBLOCK
  <2> HIDE DEF f
  <2>3. Applied(f, blockedClients[g]) = blockedClients[g] \cup {ip}
    BY <2>1 DEF Applied
  <2> QED BY <1>2, <2>1, <2>2, <2>3
<1>6. ASSUME NEW ip \in IPs, doUNBLOCK(g, ip) PROVE Matches(h)'
  <2> DEFINE f == [type |-> "UNBLOCK", ip |-> ip]
  <2>1. Write(g, f) /\ UNCHANGED shut /\ f.type = "UNBLOCK" /\ f.ip = ip
    BY <1>6 DEF doUNBLOCK
  <2>2. blockedClients' = [blockedClients EXCEPT ![g] = @ \ {ip}]
    BY <1>6 DEF doUNBLOCK
  <2> HIDE DEF f
  <2>3. Applied(f, blockedClients[g]) = blockedClients[g] \ {ip}
    BY <2>1 DEF Applied
  <2> QED BY <1>2, <2>1, <2>2, <2>3
<1>7. ASSUME NEW ip \in IPs, NEW t \in Texts, doSEND(g, ip, t)
      PROVE  Matches(h)'
  <2> DEFINE f == [type |-> "SEND", to |-> ip, text |-> t]
  <2>1. /\ Write(g, f) /\ UNCHANGED <<shut, blockedClients>>
        /\ f.type = "SEND"
    BY <1>7 DEF doSEND
  <2> HIDE DEF f
  <2> QED BY <1>2, <1>3, <2>1
<1>8. ASSUME NEW t \in Texts, doBROADCAST(g, t) PROVE Matches(h)'
  <2> DEFINE f == [type |-> "BROADCAST", text |-> t]
  <2>1. /\ Write(g, f) /\ UNCHANGED <<shut, blockedClients>>
        /\ f.type = "BROADCAST"
    BY <1>8 DEF doBROADCAST
  <2> HIDE DEF f
  <2> QED BY <1>2, <1>3, <2>1
<1>9. CASE doLOGOUT(g)
  <2> DEFINE f == [type |-> "LOGOUT"]
  <2>1. /\ Write(g, f) /\ shut' = [shut EXCEPT ![sock[g]] = TRUE]
        /\ UNCHANGED blockedClients /\ f.type = "LOGOUT"
    BY <1>9 DEF doLOGOUT
  <2> HIDE DEF f
  <2>2. shut' = [shut EXCEPT ![sock[g]] = f.type = "LOGOUT"]
    BY <2>1
  <2> QED BY <1>3, <2>1, <2>2, WriteMatches
<1>10. CASE doEXIT(g)
    BY <1>10, ExitMatches
<1> QED BY <1>4, <1>5, <1>6, <1>7, <1>8, <1>9, <1>10 DEF UserStep

\* What a user writes is the last frame after which none is LOGOUT.
LEMMA LogoutLastStep ==
    ASSUME ListsInv, [SysNext]_sysVars
    PROVE  LogoutLast'
<1>1. LogoutLast /\ LogoutCloses /\ wrote \in [Conns -> Seq(ClientFrame \cup NewClient)]
    BY BlockTypes DEF ListsInv
<1>2. CASE UNCHANGED wrote
    BY <1>1, <1>2 DEF LogoutLast
<1>3. ServerSide => UNCHANGED wrote
    BY BlockTypes, ServerServes DEF ServerSide, netVars
<1>4. ASSUME NEW h \in IPs, LoginSide(h) PROVE LogoutLast'
  <2>1. PICK c \in Conns : wrote' = [wrote EXCEPT ![c] =
                <<[type |-> "NEWCLIENT", port |-> listening_port[h]]>>]
    BY <1>4 DEF LoginSide, doLOGIN
  <2>2. \A k \in DOMAIN wrote'[c] : wrote'[c][k].type = "NEWCLIENT"
    BY <1>1, <2>1
  <2>3. \A d \in Conns : d # c => wrote'[d] = wrote[d]
    BY <1>1, <2>1
  <2> QED BY <1>1, <2>2, <2>3 DEF LogoutLast
<1>5. ASSUME NEW h \in IPs, NEW f, Write(h, f) PROVE LogoutLast'
  <2>1. PICK c \in Conns : c = sock[h] /\ ~shut[c]
    BY <1>5, HeldFacts DEF ListsInv, Write
  <2>2. /\ wrote'[c] = Append(wrote[c], f)
        /\ \A d \in Conns : d # c => wrote'[d] = wrote[d]
    BY <1>1, <1>5, <2>1 DEF Write
  <2>3. \A k \in DOMAIN wrote'[c] :
            \/ k = Len(wrote'[c])
            \/ k \in DOMAIN wrote[c] /\ wrote'[c][k] = wrote[c][k]
    BY <1>1, <2>2
  <2>4. \A k \in DOMAIN wrote'[c] :
            wrote'[c][k].type = "LOGOUT" => k = Len(wrote'[c])
    BY <1>1, <2>1, <2>3 DEF LogoutCloses
  <2> QED BY <1>1, <2>2, <2>4 DEF LogoutLast
<1>6. ASSUME NEW h \in IPs, UserStep(h)
      PROVE  UNCHANGED wrote \/ \E f : Write(h, f)
    BY <1>6 DEF UserStep, doREFRESH, doLOGOUT, doEXIT, doBLOCK, doUNBLOCK,
                doSEND, doBROADCAST
<1>7. ASSUME NEW h \in IPs, ClientSide(h) PROVE LogoutLast'
    BY <1>2, <1>5, <1>6, <1>7 DEF ClientSide, HandleFrame
<1>8. CASE UNCHANGED sysVars
    BY <1>2, <1>8 DEF sysVars, vars
<1> QED BY <1>2, <1>3, <1>4, <1>7, <1>8 DEF SysNext

\* Every step keeps the agreement of every host that nothing came between.
LEMMA MatchesStep ==
    ASSUME ListsInv, [SysNext]_sysVars
    PROVE  \A h \in IPs \ apart' : Matches(h)'
<1> SUFFICES ASSUME NEW h \in IPs, h \notin apart' PROVE Matches(h)'
    OBVIOUS
<1>1. CASE ServerSide
    BY <1>1, ServerMatches
<1>2. ASSUME NEW g \in IPs, LoginSide(g) PROVE Matches(h)'
    BY <1>2, LoginMatches
<1>3. ASSUME NEW g \in IPs, ClientSide(g) PROVE Matches(h)'
  <2>1. /\ UNCHANGED <<clientMap, file>> /\ h \notin apart
        /\ h = g /\ ~loggedin(g) => ~doEXIT(g)
    BY <1>3 DEF ClientSide
  <2>2. Matches(h)
    BY <2>1 DEF ListsInv
  <2>3. CASE UserStep(g)
    BY <2>1, <2>2, <2>3, UserMatches
  <2>4. CASE HandleFrame(g)
    <3>1. UNCHANGED <<peer, wrote, got, shut, backlog, blockedClients>>
      BY <2>4 DEF HandleFrame
    <3>2. Held(h)' = Held(h)
      BY <2>1, <3>1, ServedHeld
    <3> QED BY <2>1, <2>2, <3>1, <3>2, MatchesKept DEF BlocksIn
  <2> QED BY <1>3, <2>3, <2>4 DEF ClientSide
<1>4. CASE UNCHANGED sysVars
  <2>1. UNCHANGED <<peer, wrote, got, shut, backlog, file, clientMap,
                    blockedClients, apart>>
    BY <1>4 DEF sysVars, vars, clientVars
  <2>2. Matches(h)
    BY <2>1 DEF ListsInv
  <2>3. Held(h)' = Held(h)
    BY <2>1, ServedHeld
  <2> QED BY <2>1, <2>2, <2>3, MatchesKept DEF BlocksIn
<1> QED BY <1>1, <1>2, <1>3, <1>4 DEF SysNext

-----------------------------------------------------------------------------
(* The theorems. *)

\* In the whole system every accepted connection is fresh, and at one
\* descriptor, however the sessions of a host overlap.
LEMMA HandsHold == SysSpec => []HandsInv
<1>1. Init => FileOnce
    BY DEF Init, FileOnce
<1>2. BaseInv /\ FileOnce /\ [Next]_vars => FileOnce'
    BY FileOnceStep DEF BaseInv, IInv
<1>3. Spec => []HandsInv
    BY <1>1, <1>2, BaseHolds, PTL DEF Spec, HandsInv
<1> QED BY <1>3, SystemImplementsServer DEF ImplementsServer

\* When the server has read all that a host wrote and dealt with the end of
\* the sessions that ended, its record's block list is the one its client
\* keeps, unless frames were lost behind another in one read, the client's
\* process ended while it was logged out, or its sessions overlapped.
THEOREM BlockListsStayAgreed == SysSpec => []BlockListsAgree
<1>1. SysInit => LogoutLast /\ \A h \in IPs \ apart : Matches(h)
  <2> SUFFICES ASSUME SysInit PROVE LogoutLast /\ \A h \in IPs : Matches(h)
    OBVIOUS
  <2>1. /\ \A c \in Conns : peer[c] = NoIP /\ wrote[c] = <<>>
        /\ DOMAIN clientMap = {} /\ \A h \in IPs : blockedClients[h] = {}
        /\ NoIP \notin IPs
    BY ConstantsAssumption DEF SysInit, Init, ClientInit
  <2>2. LogoutLast
    BY <2>1 DEF LogoutLast
  <2>3. \A h \in IPs : Held(h) = {} /\ BlocksIn(clientMap, h) = {}
    BY <2>1 DEF Held, BlocksIn
  <2> QED BY <2>1, <2>2, <2>3 DEF Matches
<1>2. SysInv /\ HandsInv /\ (LogoutLast /\ \A h \in IPs \ apart : Matches(h))
          /\ [SysNext]_sysVars
      => (LogoutLast /\ \A h \in IPs \ apart : Matches(h))'
    BY LogoutLastStep, MatchesStep DEF ListsInv
<1>3. SysInv /\ HandsInv /\ (LogoutLast /\ \A h \in IPs \ apart : Matches(h))
      => BlockListsAgree
  <2> SUFFICES ASSUME ListsInv, NEW h \in IPs, h \notin apart,
                      \A c \in Conns : peer[c] = h =>
                          got[c] = Len(wrote[c]) /\ (shut[c] => Reaped(c))
               PROVE  blockedClients[h] = BlocksIn(clientMap, h)
    BY DEF ListsInv, BlockListsAgree, BlocksIn
  <2>1. Matches(h)
    BY DEF ListsInv
  <2>2. CASE Held(h) = {}
    BY <2>1, <2>2 DEF Matches
  <2>3. ASSUME NEW c \in Held(h)
        PROVE  blockedClients[h] = BlocksIn(clientMap, h)
    <3>1. c \in Conns /\ got[c] = Len(wrote[c]) /\ ~shut[c]
      BY <2>3 DEF Held
    <3>2. \A ip \in IPs : ip \in blockedClients[h] <=>
              EndsBlocked(BlocksIn(clientMap, h), wrote[c], got[c], ip)
      BY <2>1, <2>3, <3>1 DEF Matches, Gone
    <3>3. wrote[c] \in Seq(ClientFrame \cup NewClient)
      BY <3>1, BlockTypes
    <3>4. Unread(wrote[c], got[c]) = {}
      BY <3>1, <3>3 DEF Unread
    <3>5. \A ip \in IPs : ip \in blockedClients[h] <=>
              ip \in BlocksIn(clientMap, h)
      BY <3>2, <3>4 DEF EndsBlocked
    <3> QED BY <3>5, BlockTypes
  <2> QED BY <2>2, <2>3
<1> QED BY <1>1, <1>2, <1>3, SysInvariance, HandsHold, PTL DEF SysSpec

\* In the whole system too, what a host says is heard in order.
THEOREM SystemSpeaksInOrder == SysSpec => []InOrder
BY SystemImplementsServer, SpokenInOrder DEF ImplementsServer

\* Where sessions do not overlap and the operator does not type BLOCKED, what a
\* host has in store or was sent in the whole system was typed for it.
THEOREM SystemSpeaksToAddressees ==
    ASSUME Overlap = FALSE, "BLOCKED" \notin Console
    PROVE  SysSpec => []OnlyAddressed
BY SystemImplementsServer, OnlyToAddressees DEF ImplementsServer

\* There the clients and the server together are the relay that Mailboxes
\* promises, without sockets, descriptors and frames.
THEOREM SystemImplementsMailboxes ==
    ASSUME Overlap = FALSE, "BLOCKED" \notin Console
    PROVE  SysSpec => ImplementsMailboxes
BY SystemImplementsServer, ServerImplementsMailboxes DEF ImplementsServer

\* There the list and the records always agree on who is online.
THEOREM SystemOnlineAgrees ==
    ASSUME Overlap = FALSE
    PROVE  SysSpec => []OnlineIffListed
<1>1. Spec => []OnlineIffListed
    BY OnlineAgrees
<1> QED BY <1>1, SystemImplementsServer, PTL DEF ImplementsServer
=============================================================================
