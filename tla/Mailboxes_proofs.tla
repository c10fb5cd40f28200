-------------------------- MODULE Mailboxes_proofs --------------------------
(***************************************************************************)
(* Where no host logs in before the server has dealt with the end of its   *)
(* last session (Overlap = FALSE), for any number of hosts, connections    *)
(* and descriptors: the records agree with the list, no lookup creates a   *)
(* record, and the server implements Mailboxes.  All rest on each host     *)
(* having one connection at most in the server's hands.                    *)
(***************************************************************************)
EXTENDS ChatServer_proofs

-----------------------------------------------------------------------------
(* One connection of each host. *)

\* A host has at most one connection waiting or open.
OneSession ==
    \A c, d \in Conns : /\ peer[c] \in IPs /\ peer[c] = peer[d]
                        /\ ~Reaped(c) /\ ~Reaped(d)
                        => c = d

\* A connection that waits waits once, and has no descriptor yet.
BacklogOnce ==
    /\ \A j, k \in DOMAIN backlog : backlog[j] = backlog[k] => j = k
    /\ \A k \in DOMAIN backlog, fd \in Fds : file[fd] # backlog[k]

\* No two descriptors lead to the same connection.
FileOnce ==
    \A fd, g \in Fds : file[fd] # NoConn /\ file[fd] = file[g] => fd = g

SessionsApart == OneSession /\ BacklogOnce /\ FileOnce

\* An open descriptor leads to a host that is listed with it.
LEMMA OpenFacts ==
    ASSUME CoreInv, NEW fd \in Fds, file[fd] # NoConn
    PROVE  /\ file[fd] \in Conns
           /\ peer[file[fd]] \in IPs
           /\ [sock |-> fd, ip |-> peer[file[fd]]] \in Range(clients_sockets)
           /\ ~Reaped(file[fd])
<1>1. fd \in {clients_sockets[k].sock : k \in DOMAIN clients_sockets}
    BY DEF CoreInv, SocketsAreOpenDescriptors
<1>2. PICK k \in DOMAIN clients_sockets : clients_sockets[k].sock = fd
    BY <1>1
<1>3. /\ Client(k).sock = fd /\ Sender(k) \in IPs /\ Wire(k) \in Conns
      /\ file[fd] = Wire(k) /\ peer[file[fd]] = Sender(k)
    BY <1>2, EntryFacts DEF Client
<1>4. clients_sockets[k] \in Entry
    BY DEF CoreInv, TypeOK
<1>5. clients_sockets[k] = [sock |-> fd, ip |-> Sender(k)]
    BY <1>2, <1>4 DEF Entry, Sender
<1> QED BY <1>3, <1>5 DEF Range, Reaped

\* A connection nobody opened is in nobody's hands.
LEMMA UnusedAreReaped ==
    ASSUME CoreInv, NEW c \in Conns, peer[c] = NoIP
    PROVE  Reaped(c)
<1>1. NoIP \notin IPs /\ NoConn \notin Conns
    BY ConstantsAssumption
<1>2. \A k \in DOMAIN backlog : backlog[k] # c
    BY <1>1 DEF CoreInv, BacklogHasPeers
<1>3. \A fd \in Fds : file[fd] # c
    BY <1>1, OpenFacts
<1> QED BY <1>2, <1>3 DEF Reaped

\* So a host is listed once,
LEMMA ListedOnce ==
    ASSUME CoreInv, SessionsApart, NEW i \in DOMAIN clients_sockets,
           NEW k \in DOMAIN clients_sockets,
           clients_sockets[i].ip = clients_sockets[k].ip
    PROVE  i = k
<1>1. /\ Wire(i) \in Conns /\ peer[Wire(i)] = clients_sockets[i].ip
      /\ Wire(k) \in Conns /\ peer[Wire(k)] = clients_sockets[k].ip
      /\ Client(i).sock \in Fds /\ file[Client(i).sock] = Wire(i)
      /\ Client(k).sock \in Fds /\ file[Client(k).sock] = Wire(k)
      /\ peer[Wire(i)] \in IPs
    BY EntryFacts DEF Sender
<1>2. ~Reaped(Wire(i)) /\ ~Reaped(Wire(k))
    BY <1>1 DEF Reaped
<1>3. Wire(i) = Wire(k)
    BY <1>1, <1>2 DEF SessionsApart, OneSession
<1>4. Wire(i) # NoConn
    BY <1>1, ConstantsAssumption
<1>5. Client(i).sock = Client(k).sock
    BY <1>1, <1>3, <1>4 DEF SessionsApart, FileOnce
<1> QED BY <1>5 DEF Client, CoreInv, SocketsAreOpenDescriptors

\* and not while a connection of it waits.
LEMMA WaitingUnlisted ==
    ASSUME CoreInv, SessionsApart, NEW k \in DOMAIN backlog
    PROVE  peer[backlog[k]] \notin Listed
<1> SUFFICES ASSUME NEW i \in DOMAIN clients_sockets,
                    clients_sockets[i].ip = peer[backlog[k]]
             PROVE  FALSE
    BY DEF Listed
<1>1. /\ Wire(i) \in Conns /\ peer[Wire(i)] = clients_sockets[i].ip
      /\ Client(i).sock \in Fds /\ file[Client(i).sock] = Wire(i)
    BY EntryFacts DEF Sender
<1>2. backlog[k] \in Conns /\ peer[backlog[k]] \in IPs
    BY DEF CoreInv, TypeOK, BacklogHasPeers
<1>3. ~Reaped(Wire(i)) /\ ~Reaped(backlog[k])
    BY <1>1 DEF Reaped
<1>4. Wire(i) = backlog[k]
    BY <1>1, <1>2, <1>3 DEF SessionsApart, OneSession
<1> QED BY <1>1, <1>4 DEF SessionsApart, BacklogOnce

\* A step without logins, descriptors and backlog keeps sessions apart.
LEMMA ApartKept ==
    ASSUME SessionsApart, UNCHANGED <<peer, file, backlog>>
    PROVE  SessionsApart'
BY DEF SessionsApart, OneSession, BacklogOnce, FileOnce, Reaped

\* A session that ends.
LEMMA ApartLogOut ==
    ASSUME CoreInv, SessionsApart, NEW fd \in Fds, UNCHANGED <<peer, backlog>>,
           file' = [file EXCEPT ![fd] = NoConn]
    PROVE  SessionsApart'
<1>1. /\ file \in [Fds -> Conns \cup {NoConn}]
      /\ backlog \in Seq(Conns)
      /\ NoConn \notin Conns
    BY ConstantsAssumption DEF CoreInv, TypeOK
<1>2. \A g \in Fds : file'[g] # NoConn => file'[g] = file[g]
    BY <1>1
<1>3. \A c \in Conns : ~Reaped(c)' => ~Reaped(c)
    BY <1>1, <1>2 DEF Reaped
<1>4. OneSession'
    BY <1>3 DEF SessionsApart, OneSession
<1>5. BacklogOnce'
    BY <1>1, <1>2 DEF SessionsApart, BacklogOnce
<1>6. FileOnce'
    BY <1>2 DEF SessionsApart, FileOnce
<1> QED BY <1>4, <1>5, <1>6 DEF SessionsApart

\* accept() keeps them apart: the connection leaves the backlog for a
\* descriptor.
LEMMA ApartAccept ==
    ASSUME CoreInv, SessionsApart, Accept
    PROVE  SessionsApart'
<1>1. /\ backlog # <<>> /\ backlog' = Tail(backlog) /\ peer' = peer
    BY DEF Accept, netVars
<1>2. PICK fd \in Fds : /\ file[fd] = NoConn
                        /\ file' = [file EXCEPT ![fd] = Head(backlog)]
    BY DEF Accept
<1>3. /\ file \in [Fds -> Conns \cup {NoConn}]
      /\ backlog \in Seq(Conns)
      /\ NoConn \notin Conns
    BY ConstantsAssumption DEF CoreInv, TypeOK
<1>4. /\ 1 \in DOMAIN backlog /\ Head(backlog) = backlog[1]
      /\ \A k \in DOMAIN backlog' : /\ k + 1 \in DOMAIN backlog /\ k + 1 # 1
                                    /\ backlog'[k] = backlog[k + 1]
                                    /\ k \in Nat
    BY <1>1, <1>3
<1>5. /\ file'[fd] = backlog[1]
      /\ \A g \in Fds : g # fd => file'[g] = file[g]
    BY <1>2, <1>3, <1>4
<1>6. \A c \in Conns : ~Reaped(c)' => ~Reaped(c)
    BY <1>4, <1>5 DEF Reaped
<1>7. OneSession'
    BY <1>1, <1>6 DEF SessionsApart, OneSession
<1>8. BacklogOnce'
  <2>1. \A j, k \in DOMAIN backlog' : backlog'[j] = backlog'[k] => j = k
    <3> SUFFICES ASSUME NEW j \in DOMAIN backlog', NEW k \in DOMAIN backlog',
                        backlog'[j] = backlog'[k]
                 PROVE  j = k
      OBVIOUS
    <3>1. j + 1 = k + 1
      BY <1>4 DEF SessionsApart, BacklogOnce
    <3> QED BY <1>4, <3>1
  <2>2. \A k \in DOMAIN backlog', g \in Fds : file'[g] # backlog'[k]
    BY <1>4, <1>5 DEF SessionsApart, BacklogOnce
  <2> QED BY <2>1, <2>2 DEF BacklogOnce
<1>9. FileOnce'
  <2>1. \A g \in Fds : file[g] # backlog[1]
    BY <1>4 DEF SessionsApart, BacklogOnce
  <2> QED BY <1>5, <2>1 DEF SessionsApart, FileOnce
<1> QED BY <1>7, <1>8, <1>9 DEF SessionsApart

\* Here it is needed that a host waits for its last session to be reaped.
LEMMA ApartLogin ==
    ASSUME Overlap = FALSE, CoreInv, SessionsApart,
           NEW c \in Conns, NEW ip \in IPs, ClientLogin(c, ip)
    PROVE  SessionsApart'
<1>1. /\ peer[c] = NoIP
      /\ peer' = [peer EXCEPT ![c] = ip]
      /\ backlog' = Append(backlog, c)
      /\ file' = file
    BY DEF ClientLogin, Opens
<1>2. \A d \in Conns : peer[d] = ip => Reaped(d)
    BY DEF ClientLogin, MayConnect
<1>3. Reaped(c)
    BY <1>1, UnusedAreReaped
<1>4. /\ peer \in [Conns -> Keys]
      /\ backlog \in Seq(Conns)
      /\ NoIP \notin IPs
    BY ConstantsAssumption DEF CoreInv, TypeOK
<1>5. /\ Len(backlog) \in Nat /\ DOMAIN backlog = 1 .. Len(backlog)
      /\ DOMAIN backlog' = 1 .. (Len(backlog) + 1)
      /\ \A k \in DOMAIN backlog : backlog'[k] = backlog[k]
      /\ backlog'[Len(backlog) + 1] = c
    BY <1>1, <1>4
<1>6. \A d \in Conns : d # c /\ ~Reaped(d)' => ~Reaped(d)
    BY <1>1, <1>5 DEF Reaped
<1>7. OneSession'
  <2> SUFFICES ASSUME NEW d \in Conns, NEW e \in Conns, d # e,
                      peer'[d] = peer'[e], peer'[d] \in IPs,
                      ~Reaped(d)', ~Reaped(e)'
               PROVE  FALSE
    BY DEF OneSession
  <2>1. CASE d = c
    <3>1. peer[e] = ip /\ ~Reaped(e)
      BY <1>1, <1>4, <1>6, <2>1
    <3> QED BY <1>2, <3>1
  <2>2. CASE e = c
    <3>1. peer[d] = ip /\ ~Reaped(d)
      BY <1>1, <1>4, <1>6, <2>2
    <3> QED BY <1>2, <3>1
  <2>3. CASE d # c /\ e # c
    BY <1>1, <1>4, <1>6, <2>3 DEF SessionsApart, OneSession
  <2> QED BY <2>1, <2>2, <2>3
<1>8. \A k \in DOMAIN backlog : backlog[k] # c
    BY <1>3 DEF Reaped
<1>9. BacklogOnce'
  <2>1. \A j, k \in DOMAIN backlog' : backlog'[j] = backlog'[k] => j = k
    BY <1>5, <1>8 DEF SessionsApart, BacklogOnce
  <2>2. \A k \in DOMAIN backlog', g \in Fds : file'[g] # backlog'[k]
    BY <1>1, <1>3, <1>5 DEF SessionsApart, BacklogOnce, Reaped
  <2> QED BY <2>1, <2>2 DEF BacklogOnce
<1>10. FileOnce'
    BY <1>1 DEF SessionsApart, FileOnce
<1> QED BY <1>7, <1>9, <1>10 DEF SessionsApart

-----------------------------------------------------------------------------
(* The records and the list. *)

\* Whoever is listed has a record, which says online.
ListedOnline ==
    \A e \in Range(clients_sockets) :
        e.ip \in DOMAIN clientMap /\ clientMap[e.ip].online = TRUE

\* Every record is of a host that logged in.
RecordsSet ==
    \A k \in DOMAIN clientMap :
        /\ k \in IPs /\ clientMap[k].ip = k
        /\ clientMap[k].online # Indet /\ clientMap[k].sock # Indet

\* n has the records of m, on the same sockets and with the same status.
Keeps(m, n) ==
    \A k \in DOMAIN m : /\ k \in DOMAIN n
                        /\ n[k].online = m[k].online
                        /\ n[k].sock = m[k].sock
                        /\ n[k].ip = m[k].ip

\* A listed host has a record, and it says online.
LEMMA ListedRecords ==
    ASSUME ListedOnline
    PROVE  /\ Listed \subseteq DOMAIN clientMap
           /\ \A y \in Listed : clientMap[y].online = TRUE
BY DEF ListedOnline, Listed, Range

\* Who is listed, said of the set of entries.
LEMMA ListedInRange == Listed = {e.ip : e \in Range(clients_sockets)}
BY DEF Listed, Range

\* The lookup at the head of the loop finds the record.
LEMMA FetchedSame ==
    ASSUME CoreInv, ListedOnline, NEW i \in DOMAIN clients_sockets
    PROVE  /\ DOMAIN Fetched(i) = DOMAIN clientMap
           /\ \A k \in DOMAIN clientMap : /\ Fetched(i)[k] = clientMap[k]
                                          /\ clientMap[k] \in clientobj
           /\ Sender(i) \in Listed
           /\ Sender(i) \in DOMAIN clientMap
           /\ clientMap[Sender(i)].online = TRUE
<1>1. Sender(i) \in Listed
    BY DEF Sender, Listed
<1>2. Sender(i) \in DOMAIN clientMap /\ clientMap[Sender(i)].online = TRUE
    BY <1>1, ListedRecords
<1>3. IsClientMap(clientMap)
    BY DEF CoreInv, TypeOK
<1>4. {Sender(i)} \subseteq Keys
    BY EntryFacts DEF Keys
<1>5. /\ DOMAIN Fetched(i) = DOMAIN clientMap \cup {Sender(i)}
      /\ \A k \in DOMAIN clientMap : Fetched(i)[k] = clientMap[k]
    BY <1>3, <1>4, TouchFacts DEF Fetched
<1> QED BY <1>1, <1>2, <1>3, <1>5 DEF IsClientMap

\* Making the list looks up only hosts that have a record.
LEMMA ListSame ==
    ASSUME CoreInv, ListedOnline, NEW m, IsClientMap(m),
           DOMAIN m = DOMAIN clientMap, getListOfClients(m)
    PROVE  /\ DOMAIN clientMap' = DOMAIN clientMap
           /\ \A k \in DOMAIN clientMap : clientMap'[k] = m[k]
<1>1. Listed \subseteq DOMAIN m
    BY ListedRecords
<1>2. DOMAIN m \subseteq Keys
    BY DEF IsClientMap
<1>3. Listed \subseteq Keys
    BY <1>1, <1>2
<1>4. clientMap' = Touch(m, Listed)
    BY DEF getListOfClients
<1>5. /\ DOMAIN Touch(m, Listed) = DOMAIN m \cup Listed
      /\ \A k \in DOMAIN m : Touch(m, Listed)[k] = m[k]
    BY <1>3, TouchFacts
<1> QED BY <1>1, <1>4, <1>5

\* The map once the sender's message is counted.
LEMMA CountedSame ==
    ASSUME CoreInv, ListedOnline, NEW i \in DOMAIN clients_sockets,
           NEW m, m = [Fetched(i) EXCEPT ![Sender(i)].msgssent = @ + 1]
    PROVE  /\ DOMAIN m = DOMAIN clientMap
           /\ \A k \in DOMAIN clientMap :
                 /\ m[k] \in clientobj
                 /\ m[k].online = clientMap[k].online
                 /\ m[k].sock = clientMap[k].sock
                 /\ m[k].ip = clientMap[k].ip
                 /\ m[k].storedMessages = clientMap[k].storedMessages
                 /\ m[k].blockedClients = clientMap[k].blockedClients
<1>1. /\ DOMAIN Fetched(i) = DOMAIN clientMap
      /\ \A k \in DOMAIN clientMap : /\ Fetched(i)[k] = clientMap[k]
                                     /\ clientMap[k] \in clientobj
      /\ Sender(i) \in DOMAIN clientMap
    BY FetchedSame
<1>2. \A r \in clientobj :
          /\ [r EXCEPT !.msgssent = @ + 1] \in clientobj
          /\ [r EXCEPT !.msgssent = @ + 1].online = r.online
          /\ [r EXCEPT !.msgssent = @ + 1].sock = r.sock
          /\ [r EXCEPT !.msgssent = @ + 1].ip = r.ip
          /\ [r EXCEPT !.msgssent = @ + 1].storedMessages = r.storedMessages
          /\ [r EXCEPT !.msgssent = @ + 1].blockedClients = r.blockedClients
    BY DEF clientobj
<1>3. DOMAIN m = DOMAIN clientMap
    BY <1>1
<1>4. \A k \in DOMAIN clientMap :
          m[k] = IF k = Sender(i)
                 THEN [clientMap[k] EXCEPT !.msgssent = @ + 1]
                 ELSE clientMap[k]
    BY <1>1
<1> QED BY <1>1, <1>2, <1>3, <1>4

\* Relaying counts and stores.
LEMMA RelayKeeps ==
    ASSUME CoreInv, ListedOnline, NEW i \in DOMAIN clients_sockets, NEW dests,
           Relay(i, dests)
    PROVE  Keeps(clientMap, clientMap') /\ DOMAIN clientMap' = DOMAIN clientMap
<1> DEFINE m == [Fetched(i) EXCEPT ![Sender(i)].msgssent = @ + 1]
           message == [type |-> "NEWMESSAGE", from |-> Sender(i),
                       text |-> Received(i).text]
           hearers == {y \in Range(dests) \cap DOMAIN m : Hears(m[y], Sender(i))}
           times(y) == Cardinality({k \in DOMAIN dests : dests[k] = y})
           sent(up, via) == [c \in Conns |-> Repeat(message, Cardinality(
                {k \in DOMAIN dests : /\ dests[k] \in up
                                      /\ ConnAt(via[dests[k]]) = c}))]
<1>1. PICK up \in SUBSET hearers, via \in [hearers -> Fds \cup {Indet}] :
        /\ \A y \in hearers :
              /\ (y \in up) \in Readings(m[y].online, BOOLEAN)
              /\ via[y] \in Readings(m[y].sock, Fds \cup {Indet})
        /\ clientMap' = [y \in DOMAIN m |->
              IF y \in up
              THEN [m[y] EXCEPT !.msgsrecvd = @ + times(y)]
              ELSE IF y \in hearers
              THEN Stored(m[y], Repeat(message, times(y)))
              ELSE m[y]]
        /\ Transmit(sent(up, via))
    BY DEF Relay
<1>2. /\ DOMAIN m = DOMAIN clientMap
      /\ \A k \in DOMAIN clientMap :
            /\ m[k] \in clientobj
            /\ m[k].online = clientMap[k].online
            /\ m[k].sock = clientMap[k].sock
            /\ m[k].ip = clientMap[k].ip
    BY ZenonT(60), CountedSame
<1> HIDE DEF m, message, hearers, times, sent
<1>3. \A k \in DOMAIN m :
          clientMap'[k] = IF k \in up
                          THEN [m[k] EXCEPT !.msgsrecvd = @ + times(k)]
                          ELSE IF k \in hearers
                          THEN Stored(m[k], Repeat(message, times(k)))
                          ELSE m[k]
    BY <1>1
<1>4. \A r \in clientobj : \A x :
          /\ Stored(r, x).online = r.online
          /\ Stored(r, x).sock = r.sock
          /\ Stored(r, x).ip = r.ip
    BY DEF clientobj, Stored
<1>5. DOMAIN clientMap' = DOMAIN m
    BY <1>1
<1>6. \A k \in DOMAIN m : /\ clientMap'[k].online = m[k].online
                           /\ clientMap'[k].sock = m[k].sock
                           /\ clientMap'[k].ip = m[k].ip
  <2> SUFFICES ASSUME NEW k \in DOMAIN m
               PROVE  /\ clientMap'[k].online = m[k].online
                      /\ clientMap'[k].sock = m[k].sock
                      /\ clientMap'[k].ip = m[k].ip
    OBVIOUS
  <2>1. m[k] \in clientobj
    BY <1>2
  <2>2. CASE k \in up
    <3>1. clientMap'[k] = [m[k] EXCEPT !.msgsrecvd = @ + times(k)]
      BY <1>3, <2>2
    <3> QED BY <2>1, <3>1 DEF clientobj
  <2>3. CASE k \notin up /\ k \in hearers
    <3>1. clientMap'[k] = Stored(m[k], Repeat(message, times(k)))
      BY <1>3, <2>3
    <3> QED BY <1>4, <2>1, <3>1
  <2>4. CASE k \notin up /\ k \notin hearers
    BY <1>3, <2>4
  <2> QED BY <2>2, <2>3, <2>4
<1> QED BY <1>2, <1>5, <1>6 DEF Keeps

\* A change of one record of the sender that leaves status, socket and address.
LEMMA EditKeeps ==
    ASSUME CoreInv, ListedOnline, NEW i \in DOMAIN clients_sockets, NEW m,
           NEW r, r.online = Fetched(i)[Sender(i)].online,
           r.sock = Fetched(i)[Sender(i)].sock,
           r.ip = Fetched(i)[Sender(i)].ip,
           m = [Fetched(i) EXCEPT ![Sender(i)] = r]
    PROVE  Keeps(clientMap, m) /\ DOMAIN m = DOMAIN clientMap
BY FetchedSame DEF Keeps

\* Writing a port, a block list or a counter leaves status, socket and address.
LEMMA FieldEdits ==
    ASSUME NEW r \in clientobj, NEW x
    PROVE  /\ [r EXCEPT !.port = x].online = r.online
           /\ [r EXCEPT !.port = x].sock = r.sock
           /\ [r EXCEPT !.port = x].ip = r.ip
           /\ [r EXCEPT !.blockedClients = x].online = r.online
           /\ [r EXCEPT !.blockedClients = x].sock = r.sock
           /\ [r EXCEPT !.blockedClients = x].ip = r.ip
BY DEF clientobj

\* The handlers of a session that goes on.
Converse(i) == \/ parseREFRESH(i) \/ parseNEWCLIENT(i)
               \/ parseSEND(i)    \/ parseBROADCAST(i)
               \/ parseBLOCK(i)   \/ parseUNBLOCK(i)

\* They keep the connections, the list and the records.
LEMMA ConverseKeeps ==
    ASSUME CoreInv, ListedOnline, NEW i \in DOMAIN clients_sockets, Converse(i)
    PROVE  /\ UNCHANGED <<peer, file, backlog>>
           /\ Range(clients_sockets') = Range(clients_sockets)
           /\ Keeps(clientMap, clientMap')
           /\ DOMAIN clientMap' = DOMAIN clientMap
<1>1. /\ Fetched(i)[Sender(i)] \in clientobj
      /\ Fetched(i)[Sender(i)] = clientMap[Sender(i)]
      /\ DOMAIN Fetched(i) = DOMAIN clientMap
      /\ \A k \in DOMAIN clientMap : Fetched(i)[k] = clientMap[k]
    BY FetchedSame
<1>2. IsClientMap(Fetched(i)) /\ OnlineIn(Fetched(i), Range(clients_sockets))
    BY FetchedFacts, FetchedOnline
<1>3. CASE parseREFRESH(i)
  <2>1. getListOfClients(Fetched(i)) /\ UNCHANGED <<peer, file, backlog>>
    BY <1>3 DEF parseREFRESH, sendListAndIPs, netVars
  <2>2. Range(clients_sockets') = Range(clients_sockets)
    BY <1>2, <2>1, ListFacts
  <2>3. /\ DOMAIN clientMap' = DOMAIN clientMap
        /\ \A k \in DOMAIN clientMap : clientMap'[k] = Fetched(i)[k]
    BY <1>1, <1>2, <2>1, ListSame
  <2> QED BY <1>1, <2>1, <2>2, <2>3 DEF Keeps
<1>4. CASE parseNEWCLIENT(i)
  <2> DEFINE m == [Fetched(i) EXCEPT ![Sender(i)].port = Received(i).port]
             r == [Fetched(i)[Sender(i)] EXCEPT !.port = Received(i).port]
  <2>1. /\ getListOfClients(m) /\ UNCHANGED <<peer, file, backlog>>
        /\ ReadFrame(i, "NEWCLIENT")
    BY <1>4 DEF parseNEWCLIENT, sendListAndIPs, netVars
  <2>2. IsClientMap(m) /\ OnlineIn(m, Range(clients_sockets))
    BY <2>1, NewClientMap
  <2>3. Keeps(clientMap, m) /\ DOMAIN m = DOMAIN clientMap
    <3>1. /\ r.online = Fetched(i)[Sender(i)].online
          /\ r.sock = Fetched(i)[Sender(i)].sock
          /\ r.ip = Fetched(i)[Sender(i)].ip
      BY <1>1, FieldEdits
    <3>2. m = [Fetched(i) EXCEPT ![Sender(i)] = r]
      OBVIOUS
    <3> HIDE DEF m, r
    <3> QED BY <3>1, <3>2, EditKeeps
  <2> HIDE DEF m
  <2>4. Range(clients_sockets') = Range(clients_sockets)
    BY <2>1, <2>2, ListFacts
  <2>5. /\ DOMAIN clientMap' = DOMAIN clientMap
        /\ \A k \in DOMAIN clientMap : clientMap'[k] = m[k]
    BY <2>1, <2>2, <2>3, ListSame
  <2> QED BY <2>1, <2>3, <2>4, <2>5 DEF Keeps
<1>5. CASE parseSEND(i)
  <2>1. /\ Relay(i, <<Received(i).to>>)
        /\ UNCHANGED <<netVars, backlog, file, ready, clients_sockets>>
    BY <1>5 DEF parseSEND
  <2> QED BY <2>1, RelayKeeps DEF netVars
<1>6. CASE parseBROADCAST(i)
  <2> DEFINE dests == [k \in {l \in DOMAIN clients_sockets :
                                 clients_sockets[l].ip # Sender(i)} |->
                          clients_sockets[k].ip]
  <2>1. /\ Relay(i, dests)
        /\ UNCHANGED <<netVars, backlog, file, ready, clients_sockets>>
    BY <1>6 DEF parseBROADCAST
  <2> HIDE DEF dests
  <2> QED BY <2>1, RelayKeeps DEF netVars
<1>7. ASSUME NEW B,
             clientMap' = [Fetched(i) EXCEPT ![Sender(i)].blockedClients = B]
      PROVE  Keeps(clientMap, clientMap') /\ DOMAIN clientMap' = DOMAIN clientMap
  <2> DEFINE r == [Fetched(i)[Sender(i)] EXCEPT !.blockedClients = B]
             m == [Fetched(i) EXCEPT ![Sender(i)] = r]
  <2>1. /\ r.online = Fetched(i)[Sender(i)].online
        /\ r.sock = Fetched(i)[Sender(i)].sock
        /\ r.ip = Fetched(i)[Sender(i)].ip
    BY <1>1, FieldEdits
  <2>2. clientMap' = m
    BY <1>7
  <2> HIDE DEF r
  <2>3. Keeps(clientMap, m) /\ DOMAIN m = DOMAIN clientMap
    BY <2>1, EditKeeps
  <2> QED BY <2>2, <2>3
<1>8. CASE parseBLOCK(i)
  <2> DEFINE B == Fetched(i)[Sender(i)].blockedClients \cup {Received(i).ip}
  <2>1. /\ clientMap' = [Fetched(i) EXCEPT ![Sender(i)].blockedClients = B]
        /\ UNCHANGED <<netVars, backlog, out, reset, file, alive, ready,
                       clients_sockets>>
    BY <1>8 DEF parseBLOCK
  <2> HIDE DEF B
  <2> QED BY <1>7, <2>1 DEF netVars
<1>9. CASE parseUNBLOCK(i)
  <2> DEFINE B == Fetched(i)[Sender(i)].blockedClients \ {Received(i).ip}
  <2>1. /\ clientMap' = [Fetched(i) EXCEPT ![Sender(i)].blockedClients = B]
        /\ UNCHANGED <<netVars, backlog, out, reset, file, alive, ready,
                       clients_sockets>>
    BY <1>9 DEF parseUNBLOCK
  <2> HIDE DEF B
  <2> QED BY <1>7, <2>1 DEF netVars
<1> QED BY <1>3, <1>4, <1>5, <1>6, <1>8, <1>9 DEF Converse

\* A lookup leaves the records that are there.
LEMMA TouchKeeps ==
    ASSUME NEW m, IsClientMap(m), NEW K \in SUBSET Keys
    PROVE  Keeps(m, Touch(m, K)) /\ IsClientMap(Touch(m, K))
BY ZenonT(60), TouchFacts DEF Keeps

\* The console keeps the records too.  Where every record is of a host that
\* logged in, LIST and STATISTICS find all they look up.
LEMMA ConsoleKeeps ==
    ASSUME CoreInv, ListedOnline, ConsoleStep
    PROVE  /\ UNCHANGED <<peer, file, backlog, out>>
           /\ Range(clients_sockets') = Range(clients_sockets)
           /\ Keeps(clientMap, clientMap')
           /\ RecordsSet /\ "BLOCKED" \notin Console =>
                 /\ DOMAIN clientMap' = DOMAIN clientMap
                 /\ \A k \in DOMAIN clientMap : clientMap'[k] = clientMap[k]
<1>1. IsClientMap(clientMap) /\ OnlineIn(clientMap, Range(clients_sockets))
    BY InvByEntry DEF EInv, TypeOK
<1>2. CASE doLIST
  <2>1. getListOfClients(clientMap) /\ UNCHANGED <<peer, file, backlog, out>>
    BY <1>2 DEF doLIST, netVars
  <2>2. Range(clients_sockets') = Range(clients_sockets)
    BY <1>1, <2>1, ListFacts
  <2>3. /\ DOMAIN clientMap' = DOMAIN clientMap
        /\ \A k \in DOMAIN clientMap : clientMap'[k] = clientMap[k]
    BY <1>1, <2>1, ListSame
  <2> QED BY <2>1, <2>2, <2>3 DEF Keeps
<1>3. CASE doSTATISTICS
  <2> DEFINE K == {clientMap[k].ip : k \in DOMAIN clientMap}
  <2>1. /\ clientMap' = Touch(clientMap, K)
        /\ UNCHANGED <<peer, file, backlog, out, clients_sockets>>
    BY <1>3 DEF doSTATISTICS, netVars
  <2>2. K \in SUBSET Keys
    BY <1>1, RecordKeys
  <2>3. RecordsSet => K \subseteq DOMAIN clientMap
    BY DEF RecordsSet
  <2> HIDE DEF K
  <2>4. Keeps(clientMap, clientMap')
    BY <1>1, <2>1, <2>2, TouchKeeps
  <2>5. /\ DOMAIN Touch(clientMap, K) = DOMAIN clientMap \cup K
        /\ \A k \in DOMAIN clientMap : Touch(clientMap, K)[k] = clientMap[k]
    BY <1>1, <2>2, TouchFacts
  <2> QED BY <2>1, <2>3, <2>4, <2>5
<1>4. ASSUME NEW ip \in IPs, doBLOCKED(ip)
      PROVE  /\ UNCHANGED <<peer, file, backlog, out>>
             /\ Range(clients_sockets') = Range(clients_sockets)
             /\ Keeps(clientMap, clientMap')
             /\ "BLOCKED" \in Console
  <2> DEFINE blocked == clientMap[ip].blockedClients
             m == Touch(clientMap, blocked)
             K == {m[k].ip : k \in blocked}
  <2>1. /\ ip \in DOMAIN clientMap /\ "BLOCKED" \in Console
        /\ clientMap' = Touch(m, K)
        /\ UNCHANGED <<peer, file, backlog, out, clients_sockets>>
    BY <1>4 DEF doBLOCKED, netVars
  <2>2. blocked \in SUBSET Keys
    BY <1>1, <2>1, RecordKeys
  <2> HIDE DEF blocked
  <2>3. /\ IsClientMap(m) /\ DOMAIN m = DOMAIN clientMap \cup blocked
        /\ Keeps(clientMap, m)
    BY <1>1, <2>2, TouchFacts, TouchKeeps
  <2> HIDE DEF m
  <2>4. K \in SUBSET Keys
    BY <2>3, RecordKeys
  <2> HIDE DEF K
  <2>5. Keeps(m, Touch(m, K))
    BY <2>3, <2>4, TouchKeeps
  <2>6. Keeps(clientMap, clientMap')
    BY <2>1, <2>3, <2>5 DEF Keeps
  <2> QED BY <2>1, <2>6
<1> QED BY <1>2, <1>3, <1>4 DEF ConsoleStep

\* What keeps the records keeps what is known of them.
LEMMA RecordsKept ==
    ASSUME Keeps(clientMap, clientMap')
    PROVE  /\ ListedOnline /\ Range(clients_sockets') = Range(clients_sockets)
                 => ListedOnline'
           /\ RecordsSet /\ DOMAIN clientMap' = DOMAIN clientMap
                 => RecordsSet'
<1>1. ListedOnline /\ Range(clients_sockets') = Range(clients_sockets)
          => ListedOnline'
    BY DEF Keeps, ListedOnline
<1>2. RecordsSet /\ DOMAIN clientMap' = DOMAIN clientMap => RecordsSet'
    BY DEF Keeps, RecordsSet
<1> QED BY <1>1, <1>2

-----------------------------------------------------------------------------
(* Sessions begin and end. *)

\* logClientOut, its entry found: K is erased from the map.
LEMMA LogOutFacts ==
    ASSUME CoreInv, ListedOnline, NEW i \in DOMAIN clients_sockets,
           NEW K \in SUBSET {Sender(i)},
           logClientOut(Client(i).sock, Fetched(i), K)
    PROVE  /\ UNCHANGED <<peer, backlog, out>>
           /\ file' = [file EXCEPT ![Client(i).sock] = NoConn]
           /\ Range(clients_sockets') =
                  Range(clients_sockets) \ {clients_sockets[i]}
           /\ DOMAIN clientMap' = DOMAIN clientMap \ K
           /\ \A k \in DOMAIN clientMap \ K :
                 clientMap'[k] = IF k = Sender(i) THEN LoggedOut(clientMap[k])
                                 ELSE clientMap[k]
<1> DEFINE ip == Sender(i)
           n  == Touch(Fetched(i), {ip})
<1>1. clients_sockets \in Seq(Entry) /\ DistinctSocks(clients_sockets)
    BY InvByEntry DEF EInv, TypeOK, SocketsByEntry
<1>2. PICK k \in DOMAIN clients_sockets :
        /\ clients_sockets[k].sock = Client(i).sock
        /\ clientMap' = [h \in DOMAIN Touch(Fetched(i),
                                            {clients_sockets[k].ip}) \ K |->
              IF h = clients_sockets[k].ip
              THEN LoggedOut(Touch(Fetched(i), {clients_sockets[k].ip})[h])
              ELSE Touch(Fetched(i), {clients_sockets[k].ip})[h]]
        /\ clients_sockets' = RemoveAt(clients_sockets, k)
        /\ file' = [file EXCEPT ![Client(i).sock] = NoConn]
        /\ UNCHANGED <<netVars, backlog, out, reset, alive>>
    BY DEF logClientOut, Closed
<1>3. k = i
    BY <1>1, <1>2 DEF DistinctSocks, Client
<1>4. clientMap' = [h \in DOMAIN n \ K |->
                       IF h = ip THEN LoggedOut(n[h]) ELSE n[h]]
    BY <1>2, <1>3 DEF Sender
<1>5. Range(clients_sockets') = Range(clients_sockets) \ {clients_sockets[i]}
    BY <1>1, <1>2, <1>3, RemoveEntry
<1>6. /\ DOMAIN n = DOMAIN clientMap
      /\ \A h \in DOMAIN clientMap : n[h] = clientMap[h]
  <2>1. /\ DOMAIN Fetched(i) = DOMAIN clientMap
        /\ \A h \in DOMAIN clientMap : Fetched(i)[h] = clientMap[h]
        /\ ip \in DOMAIN clientMap
    BY FetchedSame
  <2>2. IsClientMap(Fetched(i)) /\ {ip} \subseteq Keys
    BY FetchedFacts, EntryFacts DEF Keys
  <2>3. /\ DOMAIN n = DOMAIN Fetched(i) \cup {ip}
        /\ \A h \in DOMAIN Fetched(i) : n[h] = Fetched(i)[h]
    BY <2>2, TouchFacts
  <2> QED BY <2>1, <2>3
<1> HIDE DEF n
<1> QED BY <1>2, <1>4, <1>5, <1>6 DEF netVars

\* addClient.
LEMMA AcceptFacts ==
    ASSUME CoreInv, Accept,
           NEW c, c = Head(backlog), NEW ip, ip = peer[c]
    PROVE  /\ c \in Conns /\ ip \in IPs /\ UNCHANGED peer
           /\ 1 \in DOMAIN backlog /\ c = backlog[1]
           /\ \A k \in DOMAIN backlog' : /\ k + 1 \in DOMAIN backlog
                                         /\ k + 1 # 1
                                         /\ backlog'[k] = backlog[k + 1]
           /\ \E fd \in Fds :
                 /\ file[fd] = NoConn
                 /\ file' = [file EXCEPT ![fd] = c]
                 /\ Range(clients_sockets') =
                        Range(clients_sockets) \cup {[sock |-> fd, ip |-> ip]}
                 /\ DOMAIN clientMap' = DOMAIN clientMap \cup {ip}
                 /\ \A k \in DOMAIN clientMap :
                       k # ip => clientMap'[k] = clientMap[k]
                 /\ clientMap'[ip] = IF ip \in DOMAIN clientMap
                                     THEN LoggedIn(clientMap[ip], fd)
                                     ELSE [DefaultClient EXCEPT !.sock = fd,
                                                                !.ip = ip,
                                                                !.online = TRUE]
<1>1. /\ clients_sockets \in Seq(Entry)
      /\ DistinctSocks(clients_sockets)
      /\ {x.sock : x \in Range(clients_sockets)}
             = {fd \in Fds : file[fd] # NoConn}
      /\ backlog \in Seq(Conns)
    BY InvByEntry DEF EInv, TypeOK, SocketsByEntry
<1>2. /\ backlog # <<>> /\ backlog' = Tail(backlog) /\ UNCHANGED peer
    BY DEF Accept, netVars
<1>3. /\ c \in Conns /\ 1 \in DOMAIN backlog /\ c = backlog[1]
      /\ \A k \in DOMAIN backlog' : /\ k + 1 \in DOMAIN backlog /\ k + 1 # 1
                                    /\ backlog'[k] = backlog[k + 1]
    BY <1>1, <1>2
<1>4. ip \in IPs
    BY <1>3 DEF CoreInv, BacklogHasPeers
<1>5. PICK fd \in Fds :
        /\ file[fd] = NoConn
        /\ file' = [file EXCEPT ![fd] = c]
        /\ clients_sockets' = Append(clients_sockets, [sock |-> fd, ip |-> ip])
        /\ \/ /\ ip \in DOMAIN clientMap
              /\ clientMap' = [clientMap EXCEPT ![ip] = LoggedIn(@, fd)]
           \/ /\ ip \notin DOMAIN clientMap
              /\ clientMap' = [k \in DOMAIN clientMap \cup {ip} |->
                     IF k = ip
                     THEN [DefaultClient EXCEPT !.sock = fd,
                                                !.ip = ip,
                                                !.online = TRUE]
                     ELSE clientMap[k]]
    BY ZenonT(60) DEF Accept
<1>6. Range(clients_sockets') =
          Range(clients_sockets) \cup {[sock |-> fd, ip |-> ip]}
  <2>1. \A k \in DOMAIN clients_sockets :
            clients_sockets[k].sock \in {x.sock : x \in Range(clients_sockets)}
    BY DEF Range
  <2>2. \A k \in DOMAIN clients_sockets : clients_sockets[k].sock # fd
    BY <1>1, <1>5, <2>1
  <2>3. [sock |-> fd, ip |-> ip] \in Entry
    BY <1>4 DEF Entry
  <2> QED BY <1>1, <1>5, <2>2, <2>3, AppendEntry
<1>7. /\ DOMAIN clientMap' = DOMAIN clientMap \cup {ip}
      /\ \A k \in DOMAIN clientMap : k # ip => clientMap'[k] = clientMap[k]
      /\ clientMap'[ip] = IF ip \in DOMAIN clientMap
                          THEN LoggedIn(clientMap[ip], fd)
                          ELSE [DefaultClient EXCEPT !.sock = fd, !.ip = ip,
                                                     !.online = TRUE]
  <2>1. CASE ip \in DOMAIN clientMap
    BY <1>5, <2>1
  <2>2. CASE ip \notin DOMAIN clientMap
    BY <1>5, <2>2
  <2> QED BY <2>1, <2>2
<1> QED BY <1>2, <1>3, <1>4, <1>5, <1>6, <1>7

\* What a login sets in the record, and what it leaves.
LEMMA LoggedInFields ==
    ASSUME NEW r \in clientobj, NEW fd
    PROVE  /\ LoggedIn(r, fd).online = TRUE
           /\ LoggedIn(r, fd).sock = fd
           /\ LoggedIn(r, fd).ip = r.ip
           /\ LoggedIn(r, fd).storedMessages = r.storedMessages
           /\ LoggedIn(r, fd).blockedClients = r.blockedClients
BY DEF clientobj, LoggedIn

\* setOnlineStatus(false) writes nothing but the status.
LEMMA LoggedOutFields ==
    ASSUME NEW r \in clientobj
    PROVE  /\ LoggedOut(r).online = FALSE
           /\ LoggedOut(r).sock = r.sock
           /\ LoggedOut(r).ip = r.ip
           /\ LoggedOut(r).storedMessages = r.storedMessages
           /\ LoggedOut(r).blockedClients = r.blockedClients
BY DEF clientobj, LoggedOut

\* No entry but the one that leaves the list is of its host.
LEMMA LogOutRecords ==
    ASSUME CoreInv, SessionsApart, ListedOnline,
           NEW i \in DOMAIN clients_sockets, parseLOGOUT(i) \/ parseEXIT(i)
    PROVE  ListedOnline' /\ (RecordsSet => RecordsSet')
<1>1. PICK K \in SUBSET {Sender(i)} :
          logClientOut(Client(i).sock, Fetched(i), K)
  <2>1. {} \in SUBSET {Sender(i)} /\ {Sender(i)} \in SUBSET {Sender(i)}
    OBVIOUS
  <2> QED BY <2>1 DEF parseLOGOUT, parseEXIT
<1>2. /\ Range(clients_sockets') =
             Range(clients_sockets) \ {clients_sockets[i]}
      /\ DOMAIN clientMap' = DOMAIN clientMap \ K
      /\ \A k \in DOMAIN clientMap \ K :
            clientMap'[k] = IF k = Sender(i) THEN LoggedOut(clientMap[k])
                            ELSE clientMap[k]
    BY <1>1, LogOutFacts
<1>3. \A e \in Range(clients_sockets) \ {clients_sockets[i]} : e.ip # Sender(i)
    BY ListedOnce DEF Range, Sender
<1>4. ListedOnline'
    BY <1>2, <1>3 DEF ListedOnline
<1>5. ASSUME RecordsSet PROVE RecordsSet'
  <2> SUFFICES ASSUME NEW k \in DOMAIN clientMap'
               PROVE  /\ k \in IPs /\ clientMap'[k].ip = k
                      /\ clientMap'[k].online # Indet
                      /\ clientMap'[k].sock # Indet
    BY DEF RecordsSet
  <2>1. /\ k \in DOMAIN clientMap /\ k \in DOMAIN clientMap \ K
        /\ k \in IPs /\ clientMap[k].ip = k
        /\ clientMap[k].online # Indet /\ clientMap[k].sock # Indet
        /\ clientMap[k] \in clientobj
    BY <1>2, <1>5, FetchedSame DEF RecordsSet
  <2>2. CASE k = Sender(i)
    <3>1. clientMap'[k] = LoggedOut(clientMap[k])
      BY <1>2, <2>1, <2>2
    <3>2. Indet # FALSE
      BY ConstantsAssumption
    <3>3. /\ LoggedOut(clientMap[k]).online = FALSE
          /\ LoggedOut(clientMap[k]).sock = clientMap[k].sock
          /\ LoggedOut(clientMap[k]).ip = clientMap[k].ip
      BY <2>1, LoggedOutFields
    <3> QED BY <2>1, <3>1, <3>2, <3>3
  <2>3. CASE k # Sender(i)
    BY <1>2, <2>1, <2>3
  <2> QED BY <2>2, <2>3
<1> QED BY <1>4, <1>5

\* addClient gives the host it lists an online record.
LEMMA AcceptRecords ==
    ASSUME CoreInv, ListedOnline, Accept
    PROVE  ListedOnline' /\ (RecordsSet => RecordsSet')
<1> DEFINE c == Head(backlog)
           ip == peer[c]
<1>1. PICK fd \in Fds :
          /\ ip \in IPs
          /\ Range(clients_sockets') =
                 Range(clients_sockets) \cup {[sock |-> fd, ip |-> ip]}
          /\ DOMAIN clientMap' = DOMAIN clientMap \cup {ip}
          /\ \A k \in DOMAIN clientMap :
                k # ip => clientMap'[k] = clientMap[k]
          /\ clientMap'[ip] = IF ip \in DOMAIN clientMap
                              THEN LoggedIn(clientMap[ip], fd)
                              ELSE [DefaultClient EXCEPT !.sock = fd,
                                                         !.ip = ip,
                                                         !.online = TRUE]
    BY AcceptFacts
<1> HIDE DEF ip
<1>2. /\ clientMap'[ip].online = TRUE
      /\ clientMap'[ip].sock = fd
      /\ clientMap'[ip].ip = IF ip \in DOMAIN clientMap
                             THEN clientMap[ip].ip ELSE ip
  <2>1. CASE ip \in DOMAIN clientMap
    <3>1. clientMap[ip] \in clientobj
      BY <2>1 DEF CoreInv, TypeOK, IsClientMap
    <3>2. clientMap'[ip] = LoggedIn(clientMap[ip], fd)
      BY <1>1, <2>1
    <3>3. /\ LoggedIn(clientMap[ip], fd).online = TRUE
          /\ LoggedIn(clientMap[ip], fd).sock = fd
          /\ LoggedIn(clientMap[ip], fd).ip = clientMap[ip].ip
      BY <3>1, LoggedInFields
    <3> QED BY <2>1, <3>2, <3>3
  <2>2. CASE ip \notin DOMAIN clientMap
    <3> DEFINE r == [DefaultClient EXCEPT !.sock = fd, !.ip = ip,
                                          !.online = TRUE]
    <3>1. clientMap'[ip] = r
      BY <1>1, <2>2
    <3>2. r.online = TRUE /\ r.sock = fd /\ r.ip = ip
      BY DEF DefaultClient
    <3> HIDE DEF r
    <3> QED BY <2>2, <3>1, <3>2
  <2> QED BY <2>1, <2>2
<1>3. ListedOnline'
  <2> SUFFICES ASSUME NEW e \in Range(clients_sockets')
               PROVE  e.ip \in DOMAIN clientMap' /\ clientMap'[e.ip].online = TRUE
    BY DEF ListedOnline
  <2>1. CASE e.ip = ip
    BY <1>1, <1>2, <2>1
  <2>2. CASE e.ip # ip
    <3>1. e \in Range(clients_sockets)
      BY <1>1, <2>2
    <3>2. e.ip \in DOMAIN clientMap /\ clientMap[e.ip].online = TRUE
      BY <3>1 DEF ListedOnline
    <3> QED BY <1>1, <2>2, <3>2
  <2> QED BY <2>1, <2>2
<1>4. ASSUME RecordsSet PROVE RecordsSet'
  <2>1. Indet # TRUE /\ Indet # fd
    BY ConstantsAssumption
  <2> QED BY <1>1, <1>2, <1>4, <2>1 DEF RecordsSet
<1> QED BY <1>3, <1>4

-----------------------------------------------------------------------------
(* The invariant. *)

\* What the server settles when sessions do not overlap.
Settled == SessionsApart /\ ListedOnline

\* Where sessions do not overlap, every step keeps them apart.
LEMMA ApartStep ==
    ASSUME Overlap = FALSE, IInv, SessionsApart, ListedOnline, [Next]_vars
    PROVE  SessionsApart'
<1> USE DEF IInv
<1>1. CASE UNCHANGED <<peer, file, backlog>>
    BY <1>1, ApartKept
<1>2. CASE Accept
    BY <1>2, ApartAccept
<1>3. ASSUME NEW c \in Conns, NEW ip \in IPs, ClientLogin(c, ip)
      PROVE  SessionsApart'
    BY <1>3, ApartLogin
<1>4. ASSUME NEW i \in DOMAIN clients_sockets, parseLOGOUT(i) \/ parseEXIT(i)
      PROVE  SessionsApart'
  <2>1. PICK K \in SUBSET {Sender(i)} :
            logClientOut(Client(i).sock, Fetched(i), K)
    <3>1. {} \in SUBSET {Sender(i)} /\ {Sender(i)} \in SUBSET {Sender(i)}
      OBVIOUS
    <3> QED BY <1>4, <3>1 DEF parseLOGOUT, parseEXIT
  <2>2. /\ UNCHANGED <<peer, backlog>> /\ Client(i).sock \in Fds
        /\ file' = [file EXCEPT ![Client(i).sock] = NoConn]
    BY <2>1, LogOutFacts, EntryFacts
  <2> QED BY <2>2, ApartLogOut
<1>5. ASSUME NEW i \in DOMAIN clients_sockets, Converse(i)
      PROVE  UNCHANGED <<peer, file, backlog>>
    BY <1>5, ConverseKeeps
<1>6. ConsoleStep => UNCHANGED <<peer, file, backlog>>
    BY ConsoleKeeps
<1>7. AcceptUnresolved \/ Select \/ ScanDone
          => UNCHANGED <<peer, file, backlog>>
    BY DEF AcceptUnresolved, Select, ScanDone, netVars
<1>8. ASSUME NEW c \in Conns, NEW f, ClientCommand(c, f) \/ ClientExit(c)
      PROVE  UNCHANGED <<peer, file, backlog>>
    BY <1>8 DEF ClientCommand, ClientExit
<1>9. CASE ServerStep
    BY <1>1, <1>2, <1>4, <1>5, <1>7, <1>9 DEF ServerStep, Serve, Converse
<1>10. CASE ClientStep
    BY <1>1, <1>3, <1>8, <1>10 DEF ClientStep
<1>11. CASE UNCHANGED vars
    BY <1>1, <1>11 DEF vars
<1> QED BY <1>1, <1>6, <1>9, <1>10, <1>11 DEF Next

\* Every step keeps listed hosts online; and records set, without BLOCKED.
LEMMA RecordsStep ==
    ASSUME IInv, SessionsApart, ListedOnline, [Next]_vars
    PROVE  /\ ListedOnline'
           /\ RecordsSet /\ "BLOCKED" \notin Console => RecordsSet'
<1> USE DEF IInv
<1> DEFINE Goal == /\ ListedOnline'
                   /\ RecordsSet /\ "BLOCKED" \notin Console => RecordsSet'
<1>1. CASE UNCHANGED <<clients_sockets, clientMap>>
    BY <1>1 DEF ListedOnline, RecordsSet
<1>2. CASE Accept
    BY <1>2, AcceptRecords
<1>3. ASSUME NEW i \in DOMAIN clients_sockets, parseLOGOUT(i) \/ parseEXIT(i)
      PROVE  Goal
    BY <1>3, LogOutRecords
<1>4. ASSUME NEW i \in DOMAIN clients_sockets, Converse(i)
      PROVE  Goal
    BY <1>4, ConverseKeeps, RecordsKept
<1>5. CASE ConsoleStep
    BY <1>5, ConsoleKeeps, RecordsKept
<1>6. AcceptUnresolved \/ Select \/ ScanDone
          => UNCHANGED <<clients_sockets, clientMap>>
    BY DEF AcceptUnresolved, Select, ScanDone
<1>7. ClientStep => UNCHANGED <<clients_sockets, clientMap>>
    BY DEF ClientStep, ClientLogin, ClientCommand, ClientExit
<1>8. CASE ServerStep
    BY <1>1, <1>2, <1>3, <1>4, <1>6, <1>8 DEF ServerStep, Serve, Converse
<1>9. CASE UNCHANGED vars
    BY <1>1, <1>9 DEF vars
<1> QED BY <1>1, <1>5, <1>7, <1>8, <1>9 DEF Next

\* All this holds at the start.
LEMMA InitSettled == Init => Settled /\ RecordsSet
<1> SUFFICES ASSUME Init PROVE Settled /\ RecordsSet
    OBVIOUS
<1>1. /\ DOMAIN backlog = {} /\ DOMAIN clients_sockets = {}
      /\ DOMAIN clientMap = {}
      /\ \A fd \in Fds : file[fd] = NoConn
      /\ \A c \in Conns : peer[c] = NoIP
    BY DEF Init
<1>2. SessionsApart
    BY <1>1, ConstantsAssumption
    DEF SessionsApart, OneSession, BacklogOnce, FileOnce
<1>3. ListedOnline /\ RecordsSet
    BY <1>1 DEF ListedOnline, RecordsSet, Range
<1> QED BY <1>2, <1>3 DEF Settled

\* Without overlap each host has one connection at most in the server's
\* hands, and every listed host has a record that says online.
THEOREM Settlement ==
    ASSUME Overlap = FALSE
    PROVE  Spec => [](IInv /\ Settled)
<1>1. Init => IInv /\ Settled
    BY InitInv, InitSettled
<1>2. (IInv /\ Settled) /\ [Next]_vars => (IInv /\ Settled)'
    BY NextInv, ApartStep, RecordsStep DEF Settled
<1> QED BY <1>1, <1>2, PTL DEF Spec

\* What is settled, said of the entries and the records.
LEMMA SettledAgrees ==
    ASSUME IInv, Settled
    PROVE  OnlineIffListed
<1>1. ASSUME NEW k \in DOMAIN clientMap
      PROVE  clientMap[k].online = TRUE <=> k \in Listed
  <2>1. ASSUME clientMap[k].online = TRUE PROVE k \in Listed
    <3>1. PICK i \in DOMAIN clients_sockets :
              clients_sockets[i] = [sock |-> clientMap[k].sock, ip |-> k]
      BY <2>1 DEF IInv, CoreInv, OnlineHasLiveSocket
    <3>2. clients_sockets[i].ip = k
      BY <3>1
    <3> QED BY <3>2 DEF Listed
  <2> QED BY <2>1, ListedRecords DEF Settled
<1>2. \A i, k \in DOMAIN clients_sockets :
          clients_sockets[i].ip = clients_sockets[k].ip => i = k
    BY ListedOnce DEF IInv, Settled
<1> QED BY <1>1, <1>2 DEF OnlineIffListed

-----------------------------------------------------------------------------
(* The theorems on the records. *)

\* A record says online exactly while its host is listed, and it is listed
\* once: what addClient and logClientOut write in two places agrees.
THEOREM OnlineAgrees ==
    ASSUME Overlap = FALSE
    PROVE  Spec => []OnlineIffListed
BY Settlement, SettledAgrees, PTL

\* Without overlap and BLOCKED, no record is ever left uninitialised.
THEOREM RecordsStaySet ==
    ASSUME Overlap = FALSE, "BLOCKED" \notin Console
    PROVE  Spec => []RecordsSet
<1>1. IInv /\ Settled /\ RecordsSet /\ [Next]_vars => RecordsSet'
    BY RecordsStep DEF Settled
<1>2. Init => RecordsSet
    BY InitSettled
<1> QED BY <1>1, <1>2, Settlement, PTL DEF Spec

\* No clientMap[...] on the way of a handler, of LIST or of STATISTICS creates
\* a record, and every record read has its address, socket and status set.
THEOREM NoPhantomRecords ==
    ASSUME Overlap = FALSE, "BLOCKED" \notin Console
    PROVE  Spec => []NoPhantoms
<1>1. Settled /\ RecordsSet => NoPhantoms
    BY ListedRecords DEF Settled, RecordsSet, NoPhantoms, Uninitialised
<1> QED BY <1>1, Settlement, RecordsStaySet, PTL

-----------------------------------------------------------------------------
(* The refinement. *)

\* Nothing was sent on a connection that was not accepted yet.
Unheard ==
    \A c \in Conns : \/ peer[c] = NoIP
                     \/ \E k \in DOMAIN backlog : backlog[k] = c
                     => out[c] = <<>>

MailboxInv == IInv /\ Settled /\ RecordsSet

\* Where a host is, seen from its record.
LEMMA SessionFacts ==
    ASSUME MailboxInv, NEW y \in DOMAIN clientMap
    PROVE  /\ y \in IPs /\ clientMap[y] \in clientobj
           /\ sessionOf[y] = IF y \in Listed THEN file[clientMap[y].sock]
                             ELSE NoConn
           /\ y \in Listed => /\ clientMap[y].online = TRUE
                              /\ clientMap[y].sock \in Fds
                              /\ sessionOf[y] \in Conns
                              /\ peer[sessionOf[y]] = y
                              /\ sessionOf[y] # NoConn
           /\ y \notin Listed => clientMap[y].online # TRUE
<1>1. OnlineIffListed
    BY SettledAgrees DEF MailboxInv
<1>2. clientMap[y].online = TRUE <=> y \in Listed
    BY <1>1 DEF OnlineIffListed
<1>3. y \in IPs /\ clientMap[y] \in clientobj
    BY DEF MailboxInv, RecordsSet, IInv, CoreInv, TypeOK, IsClientMap
<1>4. ASSUME y \in Listed
      PROVE  /\ clientMap[y].sock \in Fds
             /\ file[clientMap[y].sock] \in Conns
             /\ peer[file[clientMap[y].sock]] = y
             /\ file[clientMap[y].sock] # NoConn
  <2>1. CoreInv
    BY DEF MailboxInv, IInv
  <2>2. PICK i \in DOMAIN clients_sockets :
            clients_sockets[i] = [sock |-> clientMap[y].sock, ip |-> y]
    BY <1>2, <1>4, <2>1 DEF CoreInv, OnlineHasLiveSocket
  <2>3. Client(i).sock = clientMap[y].sock /\ Sender(i) = y
    BY <2>2 DEF Client, Sender
  <2>4. NoConn \notin Conns
    BY ConstantsAssumption
  <2> QED BY <2>1, <2>3, <2>4, EntryFacts
<1> QED BY <1>2, <1>3, <1>4 DEF sessionOf, ConnAt

\* The mailboxes of Mailboxes are the records, the hosts present those listed.
LEMMA PresentFacts ==
    ASSUME MailboxInv
    PROVE  Mailbox!Known = DOMAIN clientMap /\ Mailbox!Present = Listed
<1>1. Mailbox!Known = DOMAIN clientMap
    BY DEF Mailbox!Known, sessionOf
<1>2. Listed \subseteq DOMAIN clientMap
    BY ListedRecords DEF MailboxInv, Settled
<1>3. \A y \in DOMAIN clientMap : sessionOf[y] # NoConn <=> y \in Listed
    BY SessionFacts
<1> QED BY <1>1, <1>2, <1>3 DEF Mailbox!Present

\* The session of a sender is the connection it is read from.
LEMMA SenderFacts ==
    ASSUME MailboxInv, NEW i \in DOMAIN clients_sockets
    PROVE  /\ Sender(i) \in Listed /\ Sender(i) \in DOMAIN clientMap
           /\ Sender(i) \in IPs
           /\ clientMap[Sender(i)].sock = Client(i).sock
           /\ sessionOf[Sender(i)] = Wire(i)
           /\ Client(i).sock \in Fds /\ Wire(i) \in Conns
<1>1. CoreInv /\ ListedOnline /\ SessionsApart
    BY DEF MailboxInv, IInv, Settled
<1>2. /\ Sender(i) \in Listed /\ Sender(i) \in DOMAIN clientMap
      /\ clientMap[Sender(i)].online = TRUE
    BY <1>1, FetchedSame
<1>3. PICK j \in DOMAIN clients_sockets :
          clients_sockets[j] = [sock |-> clientMap[Sender(i)].sock,
                                ip |-> Sender(i)]
    BY <1>1, <1>2 DEF CoreInv, OnlineHasLiveSocket
<1>4. clients_sockets[j].ip = clients_sockets[i].ip
    BY <1>3 DEF Sender
<1>5. j = i
    BY <1>1, <1>4, ListedOnce
<1>6. clientMap[Sender(i)].sock = Client(i).sock
    BY <1>3, <1>5 DEF Client
<1>7. /\ Sender(i) \in IPs /\ Client(i).sock \in Fds /\ Wire(i) \in Conns
      /\ file[Client(i).sock] = Wire(i)
    BY <1>1, EntryFacts
<1>8. sessionOf[Sender(i)] = file[clientMap[Sender(i)].sock]
    BY <1>2, SessionFacts
<1> QED BY <1>2, <1>6, <1>7, <1>8

\* What is sent to the closed end of a connection is what is lost.
LEMMA TransmitHands ==
    ASSUME NEW mail, Transmit(mail)
    PROVE  Mailbox!Hand(mail)
<1>1. out' = [c \in Conns |-> IF shut[c] THEN out[c] ELSE out[c] \o mail[c]]
    BY DEF Transmit
<1>2. out' = [c \in Conns |-> IF c \in {d \in Conns : shut[d]} THEN out[c]
                              ELSE out[c] \o mail[c]]
    BY <1>1
<1> QED BY <1>2 DEF Mailbox!Hand

\* Nothing is sent.
LEMMA SilenceHands ==
    ASSUME CoreInv, NEW mail, \A c \in Conns : mail[c] = <<>>, out' = out
    PROVE  Mailbox!Hand(mail)
<1>1. out = [c \in Conns |-> out[c]] /\ \A c \in Conns : out[c] \in Seq(ServerFrame)
    BY DEF CoreInv, TypeOK
<1>2. \A x \in Seq(ServerFrame) : x \o <<>> = x
    OBVIOUS
<1>3. \A c \in Conns : out[c] \o mail[c] = out[c]
    BY <1>1, <1>2
<1>4. out' = [c \in Conns |-> IF c \in {d \in Conns : shut[d]} THEN out[c]
                              ELSE out[c] \o mail[c]]
    BY <1>1, <1>3
<1> QED BY <1>4 DEF Mailbox!Hand

\* What the server reads from the client of entry i is what the host of that
\* entry asks for next.
LEMMA ReadTakes ==
    ASSUME MailboxInv, NEW i \in DOMAIN clients_sockets, NEW type,
           ReadFrame(i, type), UNCHANGED netVars
    PROVE  /\ Mailbox!Takes(Sender(i), type)
           /\ Mailbox!Request(Sender(i)) = Received(i)
<1>1. sessionOf[Sender(i)] = Wire(i) /\ Sender(i) \in Mailbox!Present
    BY SenderFacts, PresentFacts
<1>2. Mailbox!Request(Sender(i)) = Received(i)
    BY <1>1 DEF Mailbox!Request, Received
<1>3. /\ got[Wire(i)] < Len(wrote[Wire(i)]) /\ Received(i).type = type
      /\ \E k \in (got[Wire(i)] + 1) .. Len(wrote[Wire(i)]) :
            got' = [got EXCEPT ![Wire(i)] = k]
    BY DEF ReadFrame, Taken
<1>4. UNCHANGED Mailbox!asking
    BY DEF Mailbox!asking, netVars
<1> QED BY <1>1, <1>2, <1>3, <1>4 DEF Mailbox!Takes

\* Records that keep their status and socket keep their session.
LEMMA SessionsKept ==
    ASSUME Keeps(clientMap, clientMap'), DOMAIN clientMap' = DOMAIN clientMap,
           file' = file
    PROVE  sessionOf' = sessionOf
BY DEF Keeps, sessionOf, ConnAt

\* A step that leaves records, descriptors, and what was sent and read is
\* invisible.
LEMMA MailboxStutter ==
    ASSUME UNCHANGED <<wrote, shut, got>>,
           DOMAIN clientMap' = DOMAIN clientMap,
           \A k \in DOMAIN clientMap : clientMap'[k] = clientMap[k],
           file' = file, out' = out
    PROVE  UNCHANGED Mailbox!mailboxVars
<1>1. sessionOf' = sessionOf
    BY SessionsKept DEF Keeps
<1>2. storedFor' = storedFor
    BY DEF storedFor
<1>3. blockedBy' = blockedBy
    BY DEF blockedBy
<1> QED BY <1>1, <1>2, <1>3 DEF Mailbox!mailboxVars, Mailbox!asking

\* addClient: the host arrives with the connection.
LEMMA AcceptArrives ==
    ASSUME MailboxInv, Unheard, Accept
    PROVE  \E y \in IPs, s \in Conns : Mailbox!Arrive(y, s)
<1> DEFINE c == Head(backlog)
           ip == peer[c]
<1>1. CoreInv /\ SessionsApart /\ ListedOnline
    BY DEF MailboxInv, IInv, Settled
<1>2. /\ c \in Conns /\ ip \in IPs /\ 1 \in DOMAIN backlog /\ c = backlog[1]
      /\ file \in [Fds -> Conns \cup {NoConn}]
    BY <1>1, AcceptFacts DEF CoreInv, TypeOK
<1>3. PICK fd \in Fds :
          /\ file[fd] = NoConn
          /\ file' = [file EXCEPT ![fd] = c]
          /\ Range(clients_sockets') =
                 Range(clients_sockets) \cup {[sock |-> fd, ip |-> ip]}
          /\ DOMAIN clientMap' = DOMAIN clientMap \cup {ip}
          /\ \A k \in DOMAIN clientMap :
                k # ip => clientMap'[k] = clientMap[k]
          /\ clientMap'[ip] = IF ip \in DOMAIN clientMap
                              THEN LoggedIn(clientMap[ip], fd)
                              ELSE [DefaultClient EXCEPT !.sock = fd,
                                                         !.ip = ip,
                                                         !.online = TRUE]
    BY <1>1, AcceptFacts
<1>4. \/ /\ ip \in DOMAIN clientMap
         /\ Transmit([NoMail EXCEPT ![c] =
                <<[type |-> "BACKLOGGED_MESSAGES",
                   msgs |-> clientMap[ip].storedMessages]>>])
      \/ /\ ip \notin DOMAIN clientMap
         /\ out' = out
    BY DEF Accept
<1>5. ip \notin Listed
    BY <1>1, <1>2, WaitingUnlisted
<1>6. out[c] = <<>>
    BY <1>2 DEF Unheard
<1> HIDE DEF c, ip
<1>7. ip \notin Mailbox!Present /\ Mailbox!Known = DOMAIN clientMap
    BY <1>5, PresentFacts
<1>8. \A k \in DOMAIN clientMap : sessionOf[k] # c
  <2> SUFFICES ASSUME NEW k \in DOMAIN clientMap, sessionOf[k] = c PROVE FALSE
    OBVIOUS
  <2>1. c # NoConn
    BY <1>2, ConstantsAssumption
  <2>2. clientMap[k].sock \in Fds /\ file[clientMap[k].sock] = c
    BY <2>1, SessionFacts
  <2> QED BY <1>1, <1>2, <2>2 DEF SessionsApart, BacklogOnce
<1>9. /\ clientMap'[ip].online = TRUE
      /\ clientMap'[ip].sock = fd
      /\ clientMap'[ip].storedMessages =
             IF ip \in DOMAIN clientMap
             THEN clientMap[ip].storedMessages ELSE <<>>
      /\ clientMap'[ip].blockedClients =
             IF ip \in DOMAIN clientMap
             THEN clientMap[ip].blockedClients ELSE {}
  <2>1. CASE ip \in DOMAIN clientMap
    <3>1. clientMap[ip] \in clientobj /\ clientMap'[ip] = LoggedIn(clientMap[ip], fd)
      BY <1>3, <2>1, SessionFacts
    <3>2. /\ LoggedIn(clientMap[ip], fd).online = TRUE
          /\ LoggedIn(clientMap[ip], fd).sock = fd
          /\ LoggedIn(clientMap[ip], fd).storedMessages =
                 clientMap[ip].storedMessages
          /\ LoggedIn(clientMap[ip], fd).blockedClients =
                 clientMap[ip].blockedClients
      BY <3>1, LoggedInFields
    <3> QED BY <2>1, <3>1, <3>2
  <2>2. CASE ip \notin DOMAIN clientMap
    <3> DEFINE r == [DefaultClient EXCEPT !.sock = fd, !.ip = ip,
                                          !.online = TRUE]
    <3>1. clientMap'[ip] = r
      BY <1>3, <2>2
    <3>2. /\ r.online = TRUE /\ r.sock = fd
          /\ r.storedMessages = <<>> /\ r.blockedClients = {}
      BY DEF DefaultClient
    <3> HIDE DEF r
    <3> QED BY <2>2, <3>1, <3>2
  <2> QED BY <2>1, <2>2
<1>10. sessionOf' = [k \in DOMAIN clientMap \cup {ip} |->
                        IF k = ip THEN c ELSE sessionOf[k]]
  <2>1. file'[fd] = c
    BY <1>2, <1>3
  <2>2. \A k \in DOMAIN clientMap : k # ip =>
            /\ clientMap'[k] = clientMap[k]
            /\ clientMap[k].online = TRUE =>
                  /\ clientMap[k].sock \in Fds
                  /\ file'[clientMap[k].sock] = file[clientMap[k].sock]
    <3> SUFFICES ASSUME NEW k \in DOMAIN clientMap, k # ip,
                        clientMap[k].online = TRUE
                 PROVE  /\ clientMap[k].sock \in Fds
                        /\ file'[clientMap[k].sock] = file[clientMap[k].sock]
      BY <1>3
    <3>1. /\ clientMap[k].sock \in Fds
          /\ sessionOf[k] = file[clientMap[k].sock] /\ sessionOf[k] # NoConn
      BY SessionFacts
    <3> QED BY <1>2, <1>3, <3>1
  <2>3. sessionOf' = [k \in DOMAIN clientMap \cup {ip} |->
                         IF clientMap'[k].online = TRUE
                         THEN IF clientMap'[k].sock \in Fds
                              THEN file'[clientMap'[k].sock] ELSE NoConn
                         ELSE NoConn]
    BY <1>3 DEF sessionOf, ConnAt
  <2>4. \A k \in DOMAIN clientMap :
            sessionOf[k] = IF clientMap[k].online = TRUE
                           THEN IF clientMap[k].sock \in Fds
                                THEN file[clientMap[k].sock] ELSE NoConn
                           ELSE NoConn
    BY DEF sessionOf, ConnAt
  <2>5. \A k \in DOMAIN clientMap \cup {ip} :
            IF k = ip THEN /\ clientMap'[k].online = TRUE
                           /\ clientMap'[k].sock \in Fds
                           /\ file'[clientMap'[k].sock] = c
            ELSE /\ k \in DOMAIN clientMap
                 /\ clientMap'[k] = clientMap[k]
                 /\ clientMap[k].online = TRUE =>
                       /\ clientMap[k].sock \in Fds
                       /\ file'[clientMap[k].sock] = file[clientMap[k].sock]
    BY <1>9, <2>1, <2>2
  <2> QED BY <2>3, <2>4, <2>5
<1>11. storedFor' = [k \in DOMAIN clientMap \cup {ip} |->
                        IF k \in DOMAIN clientMap THEN storedFor[k] ELSE <<>>]
  <2>1. \A k \in DOMAIN clientMap \cup {ip} :
            clientMap'[k].storedMessages =
                IF k \in DOMAIN clientMap
                THEN clientMap[k].storedMessages ELSE <<>>
    BY <1>3, <1>9
  <2> QED BY <1>3, <2>1 DEF storedFor
<1>12. blockedBy' = [k \in DOMAIN clientMap \cup {ip} |->
                        IF k \in DOMAIN clientMap THEN blockedBy[k] ELSE {}]
  <2>1. \A k \in DOMAIN clientMap \cup {ip} :
            clientMap'[k].blockedClients =
                IF k \in DOMAIN clientMap
                THEN clientMap[k].blockedClients ELSE {}
    BY <1>3, <1>9
  <2> QED BY <1>3, <2>1 DEF blockedBy
<1> DEFINE mail == [r \in Conns |->
                      IF r = c /\ ip \in DOMAIN clientMap
                      THEN <<[type |-> "BACKLOGGED_MESSAGES",
                              msgs |-> storedFor[ip]]>>
                      ELSE <<>>]
<1>13. Mailbox!Hand(mail)
  <2>1. CASE ip \in DOMAIN clientMap
    <3> DEFINE sent == [NoMail EXCEPT ![c] =
                          <<[type |-> "BACKLOGGED_MESSAGES",
                             msgs |-> clientMap[ip].storedMessages]>>]
    <3>1. Transmit(sent)
      BY <1>4, <2>1
    <3>2. sent = mail
      BY <2>1 DEF NoMail, storedFor
    <3> HIDE DEF sent, mail
    <3> QED BY <3>1, <3>2, TransmitHands
  <2>2. CASE ip \notin DOMAIN clientMap
    <3>1. \A r \in Conns : mail[r] = <<>>
      BY <2>2
    <3> HIDE DEF mail
    <3> QED BY <1>1, <1>4, <2>2, <3>1, SilenceHands
  <2> QED BY <2>1, <2>2
<1>14. UNCHANGED <<Mailbox!asking, got>>
    BY DEF Accept, Mailbox!asking, netVars
<1>15. Mailbox!Arrive(ip, c)
    BY <1>6, <1>7, <1>8, <1>10, <1>11, <1>12, <1>13, <1>14 DEF Mailbox!Arrive
<1> QED BY <1>2, <1>15

\* logClientOut: the others' sessions stay.
LEMMA LogOutSessions ==
    ASSUME MailboxInv, NEW i \in DOMAIN clients_sockets,
           NEW K \in SUBSET {Sender(i)},
           logClientOut(Client(i).sock, Fetched(i), K)
    PROVE  /\ sessionOf' = [k \in DOMAIN clientMap \ K |->
                               IF k = Sender(i) THEN NoConn ELSE sessionOf[k]]
           /\ storedFor' = [k \in DOMAIN clientMap \ K |-> storedFor[k]]
           /\ blockedBy' = [k \in DOMAIN clientMap \ K |-> blockedBy[k]]
           /\ out' = out
<1>1. CoreInv /\ SessionsApart /\ ListedOnline
    BY DEF MailboxInv, IInv, Settled
<1>2. /\ out' = out
      /\ file' = [file EXCEPT ![Client(i).sock] = NoConn]
      /\ DOMAIN clientMap' = DOMAIN clientMap \ K
      /\ \A k \in DOMAIN clientMap \ K :
            clientMap'[k] = IF k = Sender(i) THEN LoggedOut(clientMap[k])
                            ELSE clientMap[k]
    BY <1>1, LogOutFacts
<1>3. file \in [Fds -> Conns \cup {NoConn}]
    BY <1>1 DEF CoreInv, TypeOK
<1>4. \A k \in DOMAIN clientMap : k # Sender(i) /\ clientMap[k].online = TRUE =>
          /\ clientMap[k].sock \in Fds
          /\ file'[clientMap[k].sock] = file[clientMap[k].sock]
  <2> SUFFICES ASSUME NEW k \in DOMAIN clientMap, k # Sender(i),
                      clientMap[k].online = TRUE
               PROVE  /\ clientMap[k].sock \in Fds
                      /\ file'[clientMap[k].sock] = file[clientMap[k].sock]
    OBVIOUS
  <2>1. /\ clientMap[k].sock \in Fds
        /\ sessionOf[k] = file[clientMap[k].sock] /\ peer[sessionOf[k]] = k
    BY SessionFacts
  <2>2. file[Client(i).sock] = Wire(i) /\ peer[Wire(i)] = Sender(i)
    BY <1>1, EntryFacts
  <2>3. clientMap[k].sock # Client(i).sock
    BY <2>1, <2>2
  <2> QED BY <1>2, <1>3, <2>1, <2>3
<1>5. \A k \in DOMAIN clientMap \ K :
          /\ k \in DOMAIN clientMap /\ clientMap[k] \in clientobj
          /\ clientMap'[k].storedMessages = clientMap[k].storedMessages
          /\ clientMap'[k].blockedClients = clientMap[k].blockedClients
          /\ k = Sender(i) => clientMap'[k].online # TRUE
          /\ k # Sender(i) => clientMap'[k] = clientMap[k]
  <2> SUFFICES ASSUME NEW k \in DOMAIN clientMap \ K
               PROVE  /\ k \in DOMAIN clientMap /\ clientMap[k] \in clientobj
                      /\ clientMap'[k].storedMessages =
                             clientMap[k].storedMessages
                      /\ clientMap'[k].blockedClients =
                             clientMap[k].blockedClients
                      /\ k = Sender(i) => clientMap'[k].online # TRUE
                      /\ k # Sender(i) => clientMap'[k] = clientMap[k]
    OBVIOUS
  <2>1. k \in DOMAIN clientMap /\ clientMap[k] \in clientobj
    BY SessionFacts
  <2>2. CASE k = Sender(i)
    <3>1. clientMap'[k] = LoggedOut(clientMap[k])
      BY <1>2, <2>2
    <3>2. /\ LoggedOut(clientMap[k]).online = FALSE
          /\ LoggedOut(clientMap[k]).storedMessages =
                 clientMap[k].storedMessages
          /\ LoggedOut(clientMap[k]).blockedClients =
                 clientMap[k].blockedClients
      BY <2>1, LoggedOutFields
    <3> QED BY <2>1, <2>2, <3>1, <3>2
  <2>3. CASE k # Sender(i)
    BY <1>2, <2>1, <2>3
  <2> QED BY <2>2, <2>3
<1>6. sessionOf' = [k \in DOMAIN clientMap \ K |->
                       IF k = Sender(i) THEN NoConn ELSE sessionOf[k]]
  <2>1. sessionOf' = [k \in DOMAIN clientMap \ K |->
                         IF clientMap'[k].online = TRUE
                         THEN IF clientMap'[k].sock \in Fds
                              THEN file'[clientMap'[k].sock] ELSE NoConn
                         ELSE NoConn]
    BY <1>2 DEF sessionOf, ConnAt
  <2>2. \A k \in DOMAIN clientMap :
            sessionOf[k] = IF clientMap[k].online = TRUE
                           THEN IF clientMap[k].sock \in Fds
                                THEN file[clientMap[k].sock] ELSE NoConn
                           ELSE NoConn
    BY DEF sessionOf, ConnAt
  <2>3. \A k \in DOMAIN clientMap \ K :
            IF k = Sender(i) THEN clientMap'[k].online # TRUE
            ELSE /\ k \in DOMAIN clientMap
                 /\ clientMap'[k] = clientMap[k]
                 /\ clientMap[k].online = TRUE =>
                       /\ clientMap[k].sock \in Fds
                       /\ file'[clientMap[k].sock] = file[clientMap[k].sock]
    BY <1>4, <1>5
  <2>4. \A k \in DOMAIN clientMap \ K :
            (IF clientMap'[k].online = TRUE
             THEN IF clientMap'[k].sock \in Fds
                  THEN file'[clientMap'[k].sock] ELSE NoConn
             ELSE NoConn) =
            (IF k = Sender(i) THEN NoConn ELSE sessionOf[k])
    <3> SUFFICES ASSUME NEW k \in DOMAIN clientMap \ K
                 PROVE  (IF clientMap'[k].online = TRUE
                         THEN IF clientMap'[k].sock \in Fds
                              THEN file'[clientMap'[k].sock] ELSE NoConn
                         ELSE NoConn) =
                        (IF k = Sender(i) THEN NoConn ELSE sessionOf[k])
      OBVIOUS
    <3>1. CASE k = Sender(i)
      BY <2>3, <3>1
    <3>2. CASE k # Sender(i)
      BY <2>2, <2>3, <3>2
    <3> QED BY <3>1, <3>2
  <2> QED BY <2>1, <2>4
<1>7. storedFor' = [k \in DOMAIN clientMap \ K |-> storedFor[k]]
    BY <1>2, <1>5 DEF storedFor
<1>8. blockedBy' = [k \in DOMAIN clientMap \ K |-> blockedBy[k]]
    BY <1>2, <1>5 DEF blockedBy
<1> QED BY <1>2, <1>6, <1>7, <1>8

\* LOGOUT is Leave.
LEMMA LogoutLeaves ==
    ASSUME MailboxInv, NEW i \in DOMAIN clients_sockets, parseLOGOUT(i)
    PROVE  Mailbox!Leave(Sender(i))
<1>1. logClientOut(Client(i).sock, Fetched(i), {}) /\ UNCHANGED netVars
    BY DEF parseLOGOUT, logClientOut
<1>2. /\ sessionOf' = [k \in DOMAIN clientMap \ {} |->
                          IF k = Sender(i) THEN NoConn ELSE sessionOf[k]]
      /\ storedFor' = [k \in DOMAIN clientMap \ {} |-> storedFor[k]]
      /\ blockedBy' = [k \in DOMAIN clientMap \ {} |-> blockedBy[k]]
      /\ out' = out
  <2>1. {} \in SUBSET {Sender(i)}
    OBVIOUS
  <2> QED BY <1>1, <2>1, LogOutSessions
<1>3. Mailbox!Takes(Sender(i), "LOGOUT")
    BY <1>1, ReadTakes DEF parseLOGOUT
<1>4. sessionOf' = [sessionOf EXCEPT ![Sender(i)] = NoConn]
    BY <1>2 DEF sessionOf
<1>5. storedFor' = storedFor /\ blockedBy' = blockedBy
    BY <1>2 DEF storedFor, blockedBy
<1> QED BY <1>2, <1>3, <1>4, <1>5 DEF Mailbox!Leave

\* The end of a connection is Forget.
LEMMA ExitForgets ==
    ASSUME MailboxInv, NEW i \in DOMAIN clients_sockets, parseEXIT(i)
    PROVE  Mailbox!Forget(Sender(i))
<1>1. logClientOut(Client(i).sock, Fetched(i), {Sender(i)})
    BY DEF parseEXIT
<1>2. /\ sessionOf' = [k \in DOMAIN clientMap \ {Sender(i)} |->
                          IF k = Sender(i) THEN NoConn ELSE sessionOf[k]]
      /\ storedFor' = [k \in DOMAIN clientMap \ {Sender(i)} |-> storedFor[k]]
      /\ blockedBy' = [k \in DOMAIN clientMap \ {Sender(i)} |-> blockedBy[k]]
      /\ out' = out
  <2>1. {Sender(i)} \in SUBSET {Sender(i)}
    OBVIOUS
  <2> QED BY <1>1, <2>1, LogOutSessions
<1>3. Sender(i) \in Mailbox!Present /\ Mailbox!Known = DOMAIN clientMap
    BY SenderFacts, PresentFacts
<1>4. sessionOf' = [k \in DOMAIN clientMap \ {Sender(i)} |-> sessionOf[k]]
    BY <1>2
<1>5. /\ sessionOf[Sender(i)] = Wire(i) /\ Wire(i) \in Conns
      /\ shut[Wire(i)] /\ got[Wire(i)] = Len(wrote[Wire(i)]) /\ got' = got
    BY SenderFacts DEF parseEXIT, ReadEOF
<1>6. UNCHANGED Mailbox!asking
    BY <1>1 DEF logClientOut, netVars, Mailbox!asking
<1> QED BY <1>2, <1>3, <1>4, <1>5, <1>6 DEF Mailbox!Forget

\* A block list is changed by its host.
LEMMA BlockChooses ==
    ASSUME MailboxInv, NEW i \in DOMAIN clients_sockets,
           parseBLOCK(i) \/ parseUNBLOCK(i)
    PROVE  Mailbox!Choose(Sender(i))
<1> DEFINE x == Sender(i)
           y == Received(i).ip
<1>1. CoreInv /\ SessionsApart /\ ListedOnline
    BY DEF MailboxInv, IInv, Settled
<1>2. /\ x \in DOMAIN clientMap /\ clientMap[x] \in clientobj
      /\ DOMAIN Fetched(i) = DOMAIN clientMap
      /\ \A k \in DOMAIN clientMap : Fetched(i)[k] = clientMap[k]
    BY <1>1, FetchedSame
<1>3. Mailbox!Request(x) = Received(i)
    BY ReadTakes DEF parseBLOCK, parseUNBLOCK
<1>4. PICK B :
          /\ \/ /\ Mailbox!Takes(x, "BLOCK")
                /\ B = clientMap[x].blockedClients \cup {y}
             \/ /\ Mailbox!Takes(x, "UNBLOCK")
                /\ B = clientMap[x].blockedClients \ {y}
          /\ clientMap' = [Fetched(i) EXCEPT ![x].blockedClients = B]
          /\ file' = file /\ out' = out
  <2>1. CASE parseBLOCK(i)
    <3>1. /\ clientMap' = [Fetched(i) EXCEPT ![x].blockedClients =
                              Fetched(i)[x].blockedClients \cup {y}]
          /\ file' = file /\ out' = out
      BY <2>1 DEF parseBLOCK
    <3>2. Mailbox!Takes(x, "BLOCK")
      BY <2>1, ReadTakes DEF parseBLOCK
    <3> HIDE DEF x, y
    <3> QED BY <1>2, <3>1, <3>2
  <2>2. CASE parseUNBLOCK(i)
    <3>1. /\ clientMap' = [Fetched(i) EXCEPT ![x].blockedClients =
                              Fetched(i)[x].blockedClients \ {y}]
          /\ file' = file /\ out' = out
      BY <2>2 DEF parseUNBLOCK
    <3>2. Mailbox!Takes(x, "UNBLOCK")
      BY <2>2, ReadTakes DEF parseUNBLOCK
    <3> HIDE DEF x, y
    <3> QED BY <1>2, <3>1, <3>2
  <2> QED BY <2>1, <2>2
<1> HIDE DEF x, y
<1>5. /\ DOMAIN clientMap' = DOMAIN clientMap
      /\ clientMap'[x] = [clientMap[x] EXCEPT !.blockedClients = B]
      /\ \A k \in DOMAIN clientMap : k # x => clientMap'[k] = clientMap[k]
    BY <1>2, <1>4
<1>6. /\ clientMap'[x].blockedClients = B
      /\ clientMap'[x].online = clientMap[x].online
      /\ clientMap'[x].sock = clientMap[x].sock
      /\ clientMap'[x].ip = clientMap[x].ip
      /\ clientMap'[x].storedMessages = clientMap[x].storedMessages
    BY <1>2, <1>5 DEF clientobj
<1>7. Keeps(clientMap, clientMap')
    BY <1>5, <1>6 DEF Keeps
<1>8. sessionOf' = sessionOf
    BY <1>4, <1>5, <1>7, SessionsKept
<1>9. storedFor' = storedFor
  <2>1. \A k \in DOMAIN clientMap :
            clientMap'[k].storedMessages = clientMap[k].storedMessages
    BY <1>5, <1>6
  <2> QED BY <1>5, <2>1 DEF storedFor
<1>10. blockedBy' = [blockedBy EXCEPT ![x] = B]
  <2>1. \A k \in DOMAIN clientMap :
            clientMap'[k].blockedClients = IF k = x THEN B
                                           ELSE clientMap[k].blockedClients
    BY <1>5, <1>6
  <2> QED BY <1>5, <2>1 DEF blockedBy
<1>11. blockedBy[x] = clientMap[x].blockedClients
    BY <1>2 DEF blockedBy
<1>12. \/ /\ Mailbox!Takes(x, "BLOCK")
          /\ blockedBy' = [blockedBy EXCEPT ![x] = @ \cup {y}]
       \/ /\ Mailbox!Takes(x, "UNBLOCK")
          /\ blockedBy' = [blockedBy EXCEPT ![x] = @ \ {y}]
    BY <1>4, <1>10, <1>11
<1>13. y = Mailbox!Request(x).ip
    BY <1>3 DEF y
<1>14. Mailbox!Choose(x)
    BY <1>4, <1>8, <1>9, <1>12, <1>13 DEF Mailbox!Choose
<1> QED BY <1>14 DEF x

\* A message is relayed to each destination once, where it is heard: sent on
\* its session or stored.
LEMMA RelayPosts ==
    ASSUME MailboxInv, NEW i \in DOMAIN clients_sockets, NEW dests,
           Relay(i, dests), file' = file,
           Mailbox!Request(Sender(i)) = Received(i),
           \A j, k \in DOMAIN dests : dests[j] = dests[k] => j = k
    PROVE  Mailbox!Tell(Sender(i), Range(dests))
<1> DEFINE m == [Fetched(i) EXCEPT ![Sender(i)].msgssent = @ + 1]
           message == [type |-> "NEWMESSAGE", from |-> Sender(i),
                       text |-> Received(i).text]
           hearers == {y \in Range(dests) \cap DOMAIN m : Hears(m[y], Sender(i))}
           times(y) == Cardinality({k \in DOMAIN dests : dests[k] = y})
           T(up, via, c) == {k \in DOMAIN dests :
                                /\ dests[k] \in up
                                /\ ConnAt(via[dests[k]]) = c}
           sent(up, via) == [c \in Conns |->
                                Repeat(message, Cardinality(T(up, via, c)))]
<1>1. PICK up \in SUBSET hearers, via \in [hearers -> Fds \cup {Indet}] :
        /\ \A y \in hearers :
              /\ (y \in up) \in Readings(m[y].online, BOOLEAN)
              /\ via[y] \in Readings(m[y].sock, Fds \cup {Indet})
        /\ clientMap' = [y \in DOMAIN m |->
              IF y \in up
              THEN [m[y] EXCEPT !.msgsrecvd = @ + times(y)]
              ELSE IF y \in hearers
              THEN Stored(m[y], Repeat(message, times(y)))
              ELSE m[y]]
        /\ Transmit(sent(up, via))
    BY DEF Relay
<1>2. CoreInv /\ SessionsApart /\ ListedOnline
    BY DEF MailboxInv, IInv, Settled
<1>3. /\ DOMAIN m = DOMAIN clientMap
      /\ \A k \in DOMAIN clientMap :
            /\ m[k] \in clientobj
            /\ m[k].online = clientMap[k].online
            /\ m[k].sock = clientMap[k].sock
            /\ m[k].ip = clientMap[k].ip
            /\ m[k].storedMessages = clientMap[k].storedMessages
            /\ m[k].blockedClients = clientMap[k].blockedClients
    BY <1>2, CountedSame
<1>4. Keeps(clientMap, clientMap') /\ DOMAIN clientMap' = DOMAIN clientMap
    BY <1>2, RelayKeeps
<1>5. sessionOf' = sessionOf
    BY <1>4, SessionsKept
<1>6. hearers = {y \in Range(dests) \cap DOMAIN clientMap :
                    Sender(i) \notin blockedBy[y]}
    BY <1>3 DEF Hears, blockedBy
<1> HIDE DEF m
<1>7. \A y \in hearers : /\ y \in DOMAIN clientMap
                         /\ y \in up <=> y \in Listed
                         /\ y \in Listed => ConnAt(via[y]) = sessionOf[y]
  <2> SUFFICES ASSUME NEW y \in hearers
               PROVE  /\ y \in DOMAIN clientMap
                      /\ y \in up <=> y \in Listed
                      /\ y \in Listed => ConnAt(via[y]) = sessionOf[y]
    OBVIOUS
  <2>1. y \in DOMAIN clientMap
    BY <1>3
  <2>2. /\ (y \in up) \in Readings(m[y].online, BOOLEAN)
        /\ via[y] \in Readings(m[y].sock, Fds \cup {Indet})
    BY <1>1
  <2>3. clientMap[y].online # Indet /\ clientMap[y].sock # Indet
    BY <2>1 DEF MailboxInv, RecordsSet
  <2>4. (y \in up) = clientMap[y].online /\ via[y] = clientMap[y].sock
    BY <1>3, <2>1, <2>2, <2>3 DEF Readings
  <2>5. /\ y \in Listed => /\ clientMap[y].online = TRUE
                           /\ clientMap[y].sock \in Fds
                           /\ sessionOf[y] = file[clientMap[y].sock]
        /\ y \notin Listed => clientMap[y].online # TRUE
    BY <2>1, SessionFacts
  <2> QED BY <2>1, <2>4, <2>5 DEF ConnAt
<1> HIDE DEF hearers
<1>8. hearers \subseteq Range(dests)
    BY <1>6
<1>9. \A y \in Range(dests) : times(y) = 1
  <2> SUFFICES ASSUME NEW y \in Range(dests) PROVE times(y) = 1
    OBVIOUS
  <2>1. PICK k \in DOMAIN dests : dests[k] = y
    BY DEF Range
  <2>2. {l \in DOMAIN dests : dests[l] = y} = {k}
    BY <2>1
  <2> QED BY <2>2, FS_Singleton
<1> HIDE DEF times
<1>10. Repeat(message, 1) = <<message>> /\ Repeat(message, 0) = <<>>
    BY DEF Repeat
<1> DEFINE ears == {y \in Range(dests) \cap Mailbox!Known :
                       Sender(i) \notin blockedBy[y]}
<1>11. ears = hearers /\ Mailbox!Known = DOMAIN clientMap
       /\ Mailbox!Present = Listed
    BY <1>6, PresentFacts
<1> HIDE DEF message
<1>12. storedFor' = [y \in DOMAIN clientMap |->
                        IF y \in hearers \ Listed
                        THEN Append(storedFor[y], message)
                        ELSE storedFor[y]]
  <2>1. ASSUME NEW y \in DOMAIN clientMap
        PROVE  clientMap'[y].storedMessages =
                   IF y \in hearers \ Listed
                   THEN Append(clientMap[y].storedMessages, message)
                   ELSE clientMap[y].storedMessages
    <3>1. /\ m[y] \in clientobj
          /\ m[y].storedMessages = clientMap[y].storedMessages
          /\ clientMap'[y] = IF y \in up
                             THEN [m[y] EXCEPT !.msgsrecvd = @ + times(y)]
                             ELSE IF y \in hearers
                             THEN Stored(m[y], Repeat(message, times(y)))
                             ELSE m[y]
      BY <1>1, <1>3
    <3>2. CASE y \in up
      <4>1. y \notin hearers \ Listed
        BY <1>7, <3>2
      <4>2. clientMap'[y] = [m[y] EXCEPT !.msgsrecvd = @ + times(y)]
        BY <3>1, <3>2
      <4> QED BY <3>1, <4>1, <4>2 DEF clientobj
    <3>3. CASE y \notin up /\ y \in hearers
      <4>1. y \in hearers \ Listed /\ times(y) = 1
        BY <1>7, <1>8, <1>9, <3>3
      <4>2. clientMap'[y] = Stored(m[y], <<message>>)
        BY <1>10, <3>1, <3>3, <4>1
      <4>3. m[y].storedMessages \in Seq(NewMessage)
        BY <3>1 DEF clientobj
      <4>4. Stored(m[y], <<message>>).storedMessages =
                m[y].storedMessages \o <<message>>
        BY <3>1 DEF clientobj, Stored
      <4>5. m[y].storedMessages \o <<message>> =
                Append(m[y].storedMessages, message)
        BY <4>3
      <4> QED BY <3>1, <4>1, <4>2, <4>4, <4>5
    <3>4. CASE y \notin up /\ y \notin hearers
      BY <3>1, <3>4
    <3> QED BY <3>2, <3>3, <3>4
  <2> QED BY <1>4, <2>1 DEF storedFor
<1>13. blockedBy' = blockedBy
  <2>1. ASSUME NEW y \in DOMAIN clientMap
        PROVE  clientMap'[y].blockedClients = clientMap[y].blockedClients
    <3>1. /\ m[y] \in clientobj
          /\ m[y].blockedClients = clientMap[y].blockedClients
          /\ \/ clientMap'[y] = [m[y] EXCEPT !.msgsrecvd = @ + times(y)]
             \/ clientMap'[y] = Stored(m[y], Repeat(message, times(y)))
             \/ clientMap'[y] = m[y]
      BY <1>1, <1>3
    <3>2. Stored(m[y], Repeat(message, times(y))).blockedClients =
              m[y].blockedClients
      BY <3>1 DEF clientobj, Stored
    <3>3. [m[y] EXCEPT !.msgsrecvd = @ + times(y)].blockedClients =
              m[y].blockedClients
      BY <3>1 DEF clientobj
    <3> QED BY <3>1, <3>2, <3>3
  <2> QED BY <1>4, <2>1 DEF blockedBy
<1> DEFINE mail == [c \in Conns |->
                       IF \E y \in ears \cap Mailbox!Present : sessionOf[y] = c
                       THEN <<message>> ELSE <<>>]
<1>14. \A c \in Conns : T(up, via, c) =
           {k \in DOMAIN dests : /\ dests[k] \in hearers \cap Listed
                                 /\ sessionOf[dests[k]] = c}
    BY <1>1, <1>7
<1>15. \A c \in Conns :
           /\ (\E y \in hearers \cap Listed : sessionOf[y] = c)
                 => Cardinality(T(up, via, c)) = 1
           /\ ~(\E y \in hearers \cap Listed : sessionOf[y] = c)
                 => Cardinality(T(up, via, c)) = 0
  <2> SUFFICES ASSUME NEW c \in Conns
               PROVE  /\ (\E y \in hearers \cap Listed : sessionOf[y] = c)
                            => Cardinality(T(up, via, c)) = 1
                      /\ ~(\E y \in hearers \cap Listed : sessionOf[y] = c)
                            => Cardinality(T(up, via, c)) = 0
    OBVIOUS
  <2> HIDE DEF T
  <2>1. ASSUME NEW y \in hearers \cap Listed, sessionOf[y] = c
        PROVE  Cardinality(T(up, via, c)) = 1
    <3>1. PICK k \in DOMAIN dests : dests[k] = y
      BY <1>8, <2>1 DEF Range
    <3>2. \A x \in hearers \cap Listed : peer[sessionOf[x]] = x
      BY <1>7, SessionFacts
    <3>3. \A l \in T(up, via, c) : l = k
      BY <1>14, <2>1, <3>1, <3>2
    <3>4. T(up, via, c) = {k}
      BY <1>14, <2>1, <3>1, <3>3
    <3> QED BY <3>4, FS_Singleton
  <2>2. ASSUME ~(\E y \in hearers \cap Listed : sessionOf[y] = c)
        PROVE  Cardinality(T(up, via, c)) = 0
    <3>1. T(up, via, c) = {}
      BY <1>14, <2>2
    <3> QED BY <3>1, FS_EmptySet
  <2> QED BY <2>1, <2>2
<1> HIDE DEF T
<1>16. sent(up, via) = mail
    BY <1>10, <1>11, <1>15
<1> HIDE DEF sent, mail
<1>17. Mailbox!Hand(mail)
    BY <1>1, <1>16, TransmitHands
<1>18. storedFor' = [y \in Mailbox!Known |->
                        IF y \in ears \ Mailbox!Present
                        THEN Append(storedFor[y], message)
                        ELSE storedFor[y]]
    BY <1>11, <1>12
<1> QED BY <1>5, <1>13, <1>17, <1>18 DEF Mailbox!Tell, mail, message

\* parseSEND and parseBROADCAST.
LEMMA TextPosts ==
    ASSUME MailboxInv, NEW i \in DOMAIN clients_sockets,
           parseSEND(i) \/ parseBROADCAST(i)
    PROVE  Mailbox!Post(Sender(i))
<1>1. CoreInv /\ SessionsApart
    BY DEF MailboxInv, IInv, Settled
<1>2. CASE parseSEND(i)
  <2> DEFINE dests == <<Received(i).to>>
  <2>1. Relay(i, dests) /\ file' = file
    BY <1>2 DEF parseSEND
  <2>2. /\ Mailbox!Takes(Sender(i), "SEND")
        /\ Mailbox!Request(Sender(i)) = Received(i)
    BY <1>2, ReadTakes DEF parseSEND
  <2>3. /\ Range(dests) = {Received(i).to}
        /\ \A j, k \in DOMAIN dests : dests[j] = dests[k] => j = k
    BY DEF Range
  <2> HIDE DEF dests
  <2>4. Mailbox!Tell(Sender(i), Range(dests))
    BY <2>1, <2>2, <2>3, RelayPosts
  <2>5. Mailbox!Tell(Sender(i), {Mailbox!Request(Sender(i)).to})
    BY <2>2, <2>3, <2>4
  <2> QED BY <2>2, <2>5 DEF Mailbox!Post
<1>3. CASE parseBROADCAST(i)
  <2> DEFINE D == {l \in DOMAIN clients_sockets :
                      clients_sockets[l].ip # Sender(i)}
             dests == [k \in D |-> clients_sockets[k].ip]
  <2>1. Relay(i, dests) /\ file' = file
    BY <1>3 DEF parseBROADCAST
  <2>2. /\ Mailbox!Takes(Sender(i), "BROADCAST")
        /\ Mailbox!Request(Sender(i)) = Received(i)
    BY <1>3, ReadTakes DEF parseBROADCAST
  <2>3. \A j, k \in DOMAIN dests : dests[j] = dests[k] => j = k
    BY <1>1, ListedOnce
  <2>4. Range(dests) = Listed \ {Sender(i)}
    BY DEF Range, Listed
  <2> HIDE DEF dests
  <2>5. Mailbox!Tell(Sender(i), Range(dests))
    BY <2>1, <2>2, <2>3, RelayPosts
  <2>6. Range(dests) = Mailbox!Present \ {Sender(i)}
    BY <2>4, PresentFacts
  <2>7. Mailbox!Tell(Sender(i), Mailbox!Present \ {Sender(i)})
    BY <2>5, <2>6
  <2> QED BY <2>2, <2>7 DEF Mailbox!Post
<1> QED BY <1>2, <1>3

\* A list of distinct hosts has as many entries as hosts.
LEMMA ListingLength ==
    ASSUME NEW n \in Nat, NEW S, NEW f \in [1 .. n -> S],
           \A j, k \in 1 .. n : f[j] = f[k] => j = k,
           \A y \in S : \E k \in 1 .. n : f[k] = y
    PROVE  Cardinality(S) = n
<1>1. IsFiniteSet(1 .. n) /\ Cardinality(1 .. n) = n
    BY FS_Interval
<1>2. f \in Bijection(1 .. n, S)
    BY DEF Bijection, Injection, Surjection, IsInjective
<1>3. ExistsBijection(1 .. n, S)
    BY <1>2 DEF ExistsBijection
<1> QED BY <1>1, <1>3, FS_Bijection

\* The list as sent names each host present, once.
LEMMA ListedAll ==
    ASSUME MailboxInv, MailboxInv', NEW ips,
           Range(clients_sockets') = Range(clients_sockets),
           ips = [k \in DOMAIN clients_sockets' |-> clients_sockets'[k].ip]
    PROVE  ips \in Mailbox!Listings(Listed)
<1> DEFINE n == Len(clients_sockets')
<1>1. clients_sockets' \in Seq(Entry)
    BY DEF MailboxInv, IInv, CoreInv, TypeOK
<1>2. n \in Nat /\ DOMAIN clients_sockets' = 1 .. n
    BY <1>1
<1>3. OnlineIffListed'
  <2>1. IInv' /\ Settled' => OnlineIffListed'
    BY SettledAgrees, PTL
  <2> QED BY <2>1 DEF MailboxInv
<1>4. \A j, k \in DOMAIN clients_sockets' :
          clients_sockets'[j].ip = clients_sockets'[k].ip => j = k
    BY <1>3 DEF OnlineIffListed
<1>5. Listed = {clients_sockets'[k].ip : k \in DOMAIN clients_sockets'}
  <2>1. Listed = {e.ip : e \in Range(clients_sockets)}
    BY ListedInRange
  <2> QED BY <2>1 DEF Range
<1> HIDE DEF n
<1>6. /\ ips \in [1 .. n -> Listed]
      /\ \A j, k \in 1 .. n : ips[j] = ips[k] => j = k
      /\ \A y \in Listed : \E k \in 1 .. n : ips[k] = y
    BY <1>2, <1>4, <1>5
<1>7. Cardinality(Listed) = n
    BY <1>2, <1>6, ListingLength
<1>8. /\ ips \in [1 .. Cardinality(Listed) -> Listed]
      /\ \A y \in Listed : \E k \in DOMAIN ips : ips[k] = y
    BY <1>6, <1>7
<1>9. Mailbox!Cardinality(Listed) = Cardinality(Listed)
    BY DEF Mailbox!Cardinality, Cardinality
<1> QED BY <1>8, <1>9 DEF Mailbox!Listings

\* parseREFRESH and parseNEWCLIENT.
LEMMA ListShows ==
    ASSUME MailboxInv, MailboxInv', NEW i \in DOMAIN clients_sockets,
           parseREFRESH(i) \/ parseNEWCLIENT(i)
    PROVE  Mailbox!Show(Sender(i))
<1> DEFINE ips == [k \in DOMAIN clients_sockets' |-> clients_sockets'[k].ip]
           f == [type |-> "NEWLIST", ips |-> ips]
           sent == Frames(Client(i).sock, <<f>>)
           mail == [c \in Conns |-> IF c = sessionOf[Sender(i)]
                                    THEN <<f>> ELSE <<>>]
<1>1. CoreInv /\ SessionsApart /\ ListedOnline
    BY DEF MailboxInv, IInv, Settled
<1>2. PICK m :
          /\ m = Fetched(i) \/ /\ ReadFrame(i, "NEWCLIENT")
                               /\ m = [Fetched(i) EXCEPT ![Sender(i)].port =
                                          Received(i).port]
          /\ getListOfClients(m) /\ Transmit(sent) /\ file' = file
    BY DEF parseREFRESH, parseNEWCLIENT, sendListAndIPs
<1>3. IsClientMap(m)
    BY <1>1, <1>2, FetchedFacts, NewClientMap
<1>4. /\ DOMAIN m = DOMAIN clientMap
      /\ \A k \in DOMAIN clientMap :
            /\ m[k].storedMessages = clientMap[k].storedMessages
            /\ m[k].blockedClients = clientMap[k].blockedClients
  <2>1. /\ DOMAIN Fetched(i) = DOMAIN clientMap
        /\ Sender(i) \in DOMAIN clientMap
        /\ \A k \in DOMAIN clientMap : /\ Fetched(i)[k] = clientMap[k]
                                       /\ clientMap[k] \in clientobj
    BY <1>1, FetchedSame
  <2>2. CASE m = Fetched(i)
    BY <2>1, <2>2
  <2>3. CASE m = [Fetched(i) EXCEPT ![Sender(i)].port = Received(i).port]
    <3>1. \A k \in DOMAIN clientMap :
              m[k] = IF k = Sender(i)
                     THEN [clientMap[k] EXCEPT !.port = Received(i).port]
                     ELSE clientMap[k]
      BY <2>1, <2>3
    <3>2. ASSUME NEW k \in DOMAIN clientMap
          PROVE  /\ m[k].storedMessages = clientMap[k].storedMessages
                 /\ m[k].blockedClients = clientMap[k].blockedClients
      <4>1. CASE k = Sender(i)
        <5>1. m[k] = [clientMap[k] EXCEPT !.port = Received(i).port]
          BY <3>1, <4>1
        <5> QED BY <2>1, <5>1 DEF clientobj
      <4>2. CASE k # Sender(i)
        BY <3>1, <4>2
      <4> QED BY <4>1, <4>2
    <3>3. DOMAIN m = DOMAIN clientMap
      BY <2>1, <2>3
    <3> QED BY <3>2, <3>3
  <2> QED BY <1>2, <2>2, <2>3
<1>5. /\ DOMAIN clientMap' = DOMAIN clientMap
      /\ \A k \in DOMAIN clientMap : clientMap'[k] = m[k]
    BY <1>1, <1>2, <1>3, <1>4, ListSame
<1>6. storedFor' = storedFor /\ blockedBy' = blockedBy
    BY <1>4, <1>5 DEF storedFor, blockedBy
<1>7. /\ Keeps(clientMap, clientMap')
      /\ Range(clients_sockets') = Range(clients_sockets)
    BY <1>1, ConverseKeeps DEF Converse
<1>8. sessionOf' = sessionOf
    BY <1>2, <1>5, <1>7, SessionsKept
<1>9. ips \in Mailbox!Listings(Mailbox!Present)
  <2>1. Mailbox!Present = Listed
    BY PresentFacts
  <2> HIDE DEF ips
  <2>2. ips \in Mailbox!Listings(Listed)
    BY <1>7, ListedAll DEF ips
  <2> QED BY <2>1, <2>2
<1>10. Mailbox!Takes(Sender(i), "NEWCLIENT") \/ Mailbox!Takes(Sender(i), "REFRESH")
    BY ReadTakes DEF parseREFRESH, parseNEWCLIENT, sendListAndIPs
<1> HIDE DEF ips
<1>11. sent = mail
  <2>1. ConnAt(Client(i).sock) = sessionOf[Sender(i)]
    BY SenderFacts DEF ConnAt, Wire, Client
  <2> QED BY <2>1 DEF Frames
<1> HIDE DEF sent, mail
<1>12. Mailbox!Hand(mail)
    BY <1>2, <1>11, TransmitHands
<1> QED BY <1>6, <1>8, <1>9, <1>10, <1>12 DEF Mailbox!Show, mail

\* Only open connections are written to.
LEMMA UnheardSend ==
    ASSUME CoreInv, BacklogOnce, Unheard, NEW mail, Transmit(mail),
           UNCHANGED <<peer, backlog>>,
           \A c \in Conns : mail[c] # <<>> => \E fd \in Fds : file[fd] = c
    PROVE  Unheard'
<1> SUFFICES ASSUME NEW c \in Conns,
                    peer[c] = NoIP \/ \E k \in DOMAIN backlog : backlog[k] = c
             PROVE  out'[c] = <<>>
    BY DEF Unheard
<1>1. NoIP \notin IPs /\ NoConn \notin Conns
    BY ConstantsAssumption
<1>2. ASSUME NEW fd \in Fds, file[fd] = c PROVE FALSE
  <2>1. peer[c] \in IPs
    BY <1>1, <1>2, OpenFacts
  <2>2. \A k \in DOMAIN backlog : backlog[k] # c
    BY <1>2 DEF BacklogOnce
  <2> QED BY <1>1, <2>1, <2>2
<1>3. mail[c] = <<>>
    BY <1>2
<1>4. out[c] = <<>>
    BY DEF Unheard
<1>5. out'[c] = IF shut[c] THEN out[c] ELSE out[c] \o mail[c]
    BY DEF Transmit
<1>6. <<>> \o <<>> = <<>>
    OBVIOUS
<1> QED BY <1>3, <1>4, <1>5, <1>6

\* A relay sends nothing to a connection that was not accepted yet.
LEMMA RelayUnheard ==
    ASSUME CoreInv, BacklogOnce, Unheard, NEW i, NEW dests, Relay(i, dests),
           UNCHANGED <<peer, backlog>>
    PROVE  Unheard'
<1> DEFINE m == [Fetched(i) EXCEPT ![Sender(i)].msgssent = @ + 1]
           message == [type |-> "NEWMESSAGE", from |-> Sender(i),
                       text |-> Received(i).text]
           hearers == {y \in Range(dests) \cap DOMAIN m : Hears(m[y], Sender(i))}
           times(y) == Cardinality({k \in DOMAIN dests : dests[k] = y})
           T(up, via, c) == {k \in DOMAIN dests :
                                /\ dests[k] \in up
                                /\ ConnAt(via[dests[k]]) = c}
           sent(up, via) == [c \in Conns |->
                                Repeat(message, Cardinality(T(up, via, c)))]
<1>1. PICK up \in SUBSET hearers, via \in [hearers -> Fds \cup {Indet}] :
        /\ \A y \in hearers :
              /\ (y \in up) \in Readings(m[y].online, BOOLEAN)
              /\ via[y] \in Readings(m[y].sock, Fds \cup {Indet})
        /\ clientMap' = [y \in DOMAIN m |->
              IF y \in up
              THEN [m[y] EXCEPT !.msgsrecvd = @ + times(y)]
              ELSE IF y \in hearers
              THEN Stored(m[y], Repeat(message, times(y)))
              ELSE m[y]]
        /\ Transmit(sent(up, via))
    BY DEF Relay
<1> HIDE DEF m, message, hearers, times
<1>2. ASSUME NEW c \in Conns, sent(up, via)[c] # <<>>
      PROVE  \E fd \in Fds : file[fd] = c
  <2>1. Cardinality({}) = 0 /\ Repeat(message, 0) = <<>>
    BY FS_EmptySet DEF Repeat
  <2>2. T(up, via, c) # {}
    <3> HIDE DEF T
    <3> QED BY <1>2, <2>1
  <2>3. PICK k \in DOMAIN dests : ConnAt(via[dests[k]]) = c
    BY <2>2
  <2>4. c # NoConn
    BY ConstantsAssumption
  <2> QED BY <2>3, <2>4 DEF ConnAt
<1> HIDE DEF sent
<1> QED BY <1>1, <1>2, UnheardSend

\* Nothing is ever sent to a connection that was not accepted yet.
LEMMA UnheardStep ==
    ASSUME CoreInv, BacklogOnce, Unheard, [Next]_vars
    PROVE  Unheard'
<1>1. CoreInv /\ BacklogOnce
    OBVIOUS
<1>2. CASE UNCHANGED <<peer, backlog, out>>
    BY <1>2 DEF Unheard
<1>3. CASE Accept
  <2> DEFINE c == Head(backlog)
             mail == [NoMail EXCEPT ![c] =
                        <<[type |-> "BACKLOGGED_MESSAGES",
                           msgs |-> clientMap[peer[c]].storedMessages]>>]
  <2>1. /\ c \in Conns /\ peer[c] \in IPs /\ UNCHANGED peer
        /\ 1 \in DOMAIN backlog /\ c = backlog[1]
        /\ \A k \in DOMAIN backlog' : /\ k + 1 \in DOMAIN backlog
                                      /\ k + 1 # 1
                                      /\ backlog'[k] = backlog[k + 1]
    BY <1>1, <1>3, AcceptFacts
  <2>2. Transmit(mail) \/ out' = out
    BY <1>3 DEF Accept
  <2>3. ASSUME NEW d \in Conns,
               peer[d] = NoIP \/ \E k \in DOMAIN backlog' : backlog'[k] = d
        PROVE  out'[d] = <<>>
    <3>1. d # c
      <4>1. peer[c] # NoIP
        BY <2>1, ConstantsAssumption
      <4>2. \A k \in DOMAIN backlog' : backlog'[k] # c
        BY <1>1, <2>1 DEF BacklogOnce
      <4> QED BY <2>3, <4>1, <4>2
    <3>2. out[d] = <<>>
      BY <2>1, <2>3 DEF Unheard
    <3>3. mail[d] = <<>>
      BY <3>1 DEF NoMail
    <3> HIDE DEF mail
    <3>4. out'[d] = out[d] \/ out'[d] = out[d] \o mail[d]
      BY <2>2 DEF Transmit
    <3>5. <<>> \o <<>> = <<>>
      OBVIOUS
    <3> QED BY <3>2, <3>3, <3>4, <3>5
  <2> QED BY <2>1, <2>3 DEF Unheard
<1>4. ASSUME NEW i \in DOMAIN clients_sockets,
             parseREFRESH(i) \/ parseNEWCLIENT(i)
      PROVE  Unheard'
  <2>1. PICK fs : /\ Transmit(Frames(Client(i).sock, fs))
                  /\ UNCHANGED <<peer, backlog>>
    BY <1>4 DEF parseREFRESH, parseNEWCLIENT, sendListAndIPs, netVars
  <2>2. \A c \in Conns : Frames(Client(i).sock, fs)[c] # <<>> =>
            \E fd \in Fds : file[fd] = c
    BY <1>1, EntryFacts DEF Frames, ConnAt
  <2> QED BY <1>1, <2>1, <2>2, UnheardSend
<1>5. ASSUME NEW i \in DOMAIN clients_sockets, parseSEND(i)
      PROVE  Unheard'
    BY <1>1, <1>5, RelayUnheard DEF parseSEND, netVars
<1>6. ASSUME NEW i \in DOMAIN clients_sockets, parseBROADCAST(i)
      PROVE  Unheard'
  <2> DEFINE dests == [k \in {l \in DOMAIN clients_sockets :
                                 clients_sockets[l].ip # Sender(i)} |->
                          clients_sockets[k].ip]
  <2>1. Relay(i, dests) /\ UNCHANGED <<peer, backlog>>
    BY <1>6 DEF parseBROADCAST, netVars
  <2> HIDE DEF dests
  <2> QED BY <1>1, <2>1, RelayUnheard
<1>7. ASSUME NEW i \in DOMAIN clients_sockets,
             \/ parseLOGOUT(i) \/ parseEXIT(i)
             \/ parseBLOCK(i) \/ parseUNBLOCK(i)
      PROVE  UNCHANGED <<peer, backlog, out>>
    BY <1>7 DEF parseLOGOUT, parseEXIT, parseBLOCK, parseUNBLOCK,
                logClientOut, netVars
<1>8. ASSUME NEW c \in Conns, NEW ip \in IPs, ClientLogin(c, ip)
      PROVE  Unheard'
  <2>1. /\ peer[c] = NoIP /\ peer' = [peer EXCEPT ![c] = ip]
        /\ backlog' = Append(backlog, c) /\ out' = out
    BY <1>8 DEF ClientLogin, Opens
  <2>2. backlog \in Seq(Conns) /\ peer \in [Conns -> Keys]
    BY <1>1 DEF CoreInv, TypeOK
  <2>3. \A k \in DOMAIN backlog' :
            \/ backlog'[k] = c
            \/ k \in DOMAIN backlog /\ backlog'[k] = backlog[k]
    BY <2>1, <2>2
  <2>4. \A d \in Conns : d # c => peer'[d] = peer[d]
    BY <2>1, <2>2
  <2> QED BY <2>1, <2>3, <2>4 DEF Unheard
<1>9. ASSUME NEW c \in Conns, NEW f, ClientCommand(c, f) \/ ClientExit(c)
      PROVE  UNCHANGED <<peer, backlog, out>>
    BY <1>9 DEF ClientCommand, ClientExit
<1>10. ConsoleStep => UNCHANGED <<peer, backlog, out>>
    BY DEF ConsoleStep, doLIST, doSTATISTICS, doBLOCKED, netVars
<1>11. AcceptUnresolved \/ Select \/ ScanDone
           => UNCHANGED <<peer, backlog, out>>
    BY DEF AcceptUnresolved, Select, ScanDone, netVars
<1>12. CASE ServerStep
    BY <1>2, <1>3, <1>4, <1>5, <1>6, <1>7, <1>11, <1>12 DEF ServerStep, Serve
<1>13. CASE ClientStep
    BY <1>2, <1>8, <1>9, <1>13 DEF ClientStep
<1>14. CASE UNCHANGED vars
    BY <1>2, <1>14 DEF vars
<1> QED BY <1>2, <1>10, <1>12, <1>13, <1>14 DEF Next

\* No client has closed a connection that nobody opened.
UnusedAreOpen == \A c \in Conns : peer[c] = NoIP => ~shut[c]

LEMMA OpenStep ==
    ASSUME CoreInv, UnusedAreOpen, [Next]_vars
    PROVE  UnusedAreOpen'
<1>1. CASE UNCHANGED <<peer, shut>>
    BY <1>1 DEF UnusedAreOpen
<1>2. ASSUME NEW c \in Conns, NEW ip \in IPs, ClientLogin(c, ip)
      PROVE  UnusedAreOpen'
  <2>1. peer' = [peer EXCEPT ![c] = ip] /\ shut' = shut
    BY <1>2 DEF ClientLogin, Opens
  <2>2. peer \in [Conns -> Keys] /\ ip # NoIP
    BY ConstantsAssumption DEF CoreInv, TypeOK
  <2> QED BY <2>1, <2>2 DEF UnusedAreOpen
<1>3. ASSUME NEW c \in Conns, NEW f, ClientCommand(c, f) \/ ClientExit(c)
      PROVE  UnusedAreOpen'
  <2>1. /\ peer' = peer /\ peer[c] # NoIP
        /\ \A d \in Conns : d # c => shut'[d] = shut[d]
    <3>1. shut \in [Conns -> BOOLEAN]
      BY DEF CoreInv, TypeOK
    <3> QED BY <1>3, <3>1 DEF ClientCommand, ClientExit
  <2> QED BY <2>1 DEF UnusedAreOpen
<1>4. ServerStep \/ ConsoleStep => UNCHANGED <<peer, shut>>
    BY DEF ServerStep, Accept, AcceptUnresolved, Select, ScanDone, Serve,
           parseREFRESH, parseNEWCLIENT, sendListAndIPs, parseLOGOUT, parseEXIT,
           logClientOut, parseSEND, parseBROADCAST, parseBLOCK, parseUNBLOCK,
           ConsoleStep, doLIST, doSTATISTICS, doBLOCKED, netVars
<1>5. CASE ClientStep
    BY <1>2, <1>3, <1>5 DEF ClientStep
<1>6. CASE UNCHANGED vars
    BY <1>1, <1>6 DEF vars
<1> QED BY <1>1, <1>4, <1>5, <1>6 DEF Next

\* The records and descriptors stay as they are while the clients ask.
LEMMA AskingOnly ==
    ASSUME UNCHANGED <<clientMap, file, out, got>>
    PROVE  UNCHANGED <<sessionOf, storedFor, blockedBy, out, got>>
BY DEF sessionOf, storedFor, blockedBy, ConnAt

\* What a client writes is what its session asks for.
LEMMA ClientAsks ==
    ASSUME MailboxInv, UnusedAreOpen, ClientStep
    PROVE  \E c \in Conns :
              \/ Mailbox!Hangup(c)
              \/ \E r \in ClientFrame \cup NewClient : Mailbox!Ask(c, r)
<1>1. /\ wrote \in [Conns -> Seq(ClientFrame \cup NewClient)]
      /\ shut \in [Conns -> BOOLEAN] /\ UnusedAreSilent
    BY DEF MailboxInv, IInv, CoreInv, TypeOK
<1>2. UNCHANGED <<clientMap, file, out, got>>
    BY DEF ClientStep, ClientLogin, ClientCommand, ClientExit
<1>3. UNCHANGED <<sessionOf, storedFor, blockedBy, out, got>>
    BY <1>2, AskingOnly
<1>4. ASSUME NEW c \in Conns, NEW ip \in IPs, ClientLogin(c, ip)
      PROVE  \E r \in ClientFrame \cup NewClient : Mailbox!Ask(c, r)
  <2>1. PICK p \in ListenPorts[ip] :
            wrote' = [wrote EXCEPT ![c] = <<[type |-> "NEWCLIENT", port |-> p]>>]
    BY <1>4 DEF ClientLogin
  <2> DEFINE r == [type |-> "NEWCLIENT", port |-> p]
  <2>2. r \in NewClient /\ r.type # "LOGOUT"
    <3>1. p \in Ports
      BY ConstantsAssumption
    <3> QED BY <3>1 DEF NewClient
  <2> HIDE DEF r
  <2>3. peer[c] = NoIP /\ shut' = shut
    BY <1>4 DEF ClientLogin, Opens
  <2>4. wrote[c] = <<>> /\ ~shut[c]
    BY <1>1, <2>3 DEF UnusedAreSilent, UnusedAreOpen
  <2>5. wrote' = [wrote EXCEPT ![c] = Append(@, r)]
    <3>1. Append(<<>>, r) = <<r>>
      OBVIOUS
    <3> QED BY <1>1, <2>1, <2>4, <3>1 DEF r
  <2>6. Mailbox!Ask(c, r)
    BY <1>3, <2>2, <2>3, <2>4, <2>5 DEF Mailbox!Ask
  <2> QED BY <2>2, <2>6
<1>5. ASSUME NEW c \in Conns, NEW f \in UNION Range(Commands), ClientCommand(c, f)
      PROVE  \E r \in ClientFrame \cup NewClient : Mailbox!Ask(c, r)
  <2>1. /\ ~shut[c] /\ wrote' = [wrote EXCEPT ![c] = Append(@, f)]
        /\ shut' = [shut EXCEPT ![c] = (f.type = "LOGOUT")]
    BY <1>5 DEF ClientCommand
  <2>2. f \in ClientFrame
    BY ConstantsAssumption DEF Range
  <2>3. {d \in Conns : shut'[d]} = IF f.type = "LOGOUT"
                                   THEN {d \in Conns : shut[d]} \cup {c}
                                   ELSE {d \in Conns : shut[d]}
    BY <1>1, <2>1
  <2>4. Mailbox!Ask(c, f)
    BY <1>3, <2>1, <2>3 DEF Mailbox!Ask
  <2> QED BY <2>2, <2>4
<1>6. ASSUME NEW c \in Conns, ClientExit(c) PROVE Mailbox!Hangup(c)
  <2>1. ~shut[c] /\ shut' = [shut EXCEPT ![c] = TRUE] /\ wrote' = wrote
    BY <1>6 DEF ClientExit
  <2>2. {d \in Conns : shut'[d]} = {d \in Conns : shut[d]} \cup {c}
    BY <1>1, <2>1
  <2> QED BY <1>3, <2>1, <2>2 DEF Mailbox!Hangup
<1> QED BY <1>4, <1>5, <1>6 DEF ClientStep

\* Every step is one of Mailboxes or invisible there.
LEMMA MailboxStep ==
    ASSUME "BLOCKED" \notin Console, MailboxInv, MailboxInv', Unheard,
           UnusedAreOpen, [Next]_vars
    PROVE  Mailbox!Next \/ UNCHANGED Mailbox!mailboxVars
<1>1. CoreInv /\ ListedOnline /\ RecordsSet
    BY DEF MailboxInv, IInv, Settled
<1>2. CASE UNCHANGED <<clientMap, file, out, wrote, shut, got>>
    BY <1>2, MailboxStutter
<1>3. CASE Accept
    BY <1>3, AcceptArrives DEF Mailbox!Next
<1>4. CASE ConsoleStep
  <2>1. /\ file' = file /\ out' = out /\ UNCHANGED <<wrote, shut, got>>
        /\ DOMAIN clientMap' = DOMAIN clientMap
        /\ \A k \in DOMAIN clientMap : clientMap'[k] = clientMap[k]
    BY <1>1, <1>4, ConsoleKeeps
    DEF ConsoleStep, doLIST, doSTATISTICS, doBLOCKED, netVars
  <2> QED BY <2>1, MailboxStutter
<1>5. ASSUME NEW i \in DOMAIN clients_sockets, Serve(i)
      PROVE  Mailbox!Next
  <2>1. Sender(i) \in IPs
    BY SenderFacts
  <2>2. CASE parseREFRESH(i) \/ parseNEWCLIENT(i)
    BY <2>1, <2>2, ListShows DEF Mailbox!Next
  <2>3. CASE parseLOGOUT(i)
    BY <2>1, <2>3, LogoutLeaves DEF Mailbox!Next
  <2>4. CASE parseEXIT(i)
    BY <2>1, <2>4, ExitForgets DEF Mailbox!Next
  <2>5. CASE parseSEND(i) \/ parseBROADCAST(i)
    BY <2>1, <2>5, TextPosts DEF Mailbox!Next
  <2>6. CASE parseBLOCK(i) \/ parseUNBLOCK(i)
    BY <2>1, <2>6, BlockChooses DEF Mailbox!Next
  <2> QED BY <1>5, <2>2, <2>3, <2>4, <2>5, <2>6 DEF Serve
<1>6. AcceptUnresolved \/ Select \/ ScanDone
          => UNCHANGED <<clientMap, file, out, wrote, shut, got>>
    BY DEF AcceptUnresolved, Select, ScanDone, netVars
<1>7. CASE ClientStep
    BY <1>7, ClientAsks DEF Mailbox!Next
<1>8. CASE ServerStep
    BY <1>2, <1>3, <1>5, <1>6, <1>8 DEF ServerStep
<1>9. CASE UNCHANGED vars
    BY <1>2, <1>9 DEF vars
<1> QED BY <1>2, <1>4, <1>7, <1>8, <1>9 DEF Next

\* Without overlapping sessions, and without the operator's BLOCKED, the server
\* is no more than its mailboxes: it does what each frame it takes asks for; a
\* message for a host that is logged in is sent on the host's one session, unless
\* that session's client has ended, and one for a host that is away is kept for
\* its next login, in order.
THEOREM ServerImplementsMailboxes ==
    ASSUME Overlap = FALSE, "BLOCKED" \notin Console
    PROVE  Spec => ImplementsMailboxes
<1>1. Init => Mailbox!Init
  <2> SUFFICES ASSUME Init PROVE Mailbox!Init
    OBVIOUS
  <2>1. /\ DOMAIN clientMap = {} /\ out = [c \in Conns |-> <<>>]
        /\ wrote = [c \in Conns |-> <<>>] /\ got = [c \in Conns |-> 0]
        /\ {c \in Conns : shut[c]} = {}
    BY DEF Init
  <2>2. /\ sessionOf = [y \in {} |-> NoConn]
        /\ storedFor = [y \in {} |-> <<>>]
        /\ blockedBy = [y \in {} |-> {}]
    BY <2>1 DEF sessionOf, storedFor, blockedBy
  <2> QED BY <2>1, <2>2 DEF Mailbox!Init
<1>2. Init => Unheard /\ UnusedAreOpen
    BY DEF Init, Unheard, UnusedAreOpen
<1>3. Spec => []MailboxInv
    BY Settlement, RecordsStaySet, PTL DEF MailboxInv
<1>4. MailboxInv /\ Unheard /\ UnusedAreOpen /\ [Next]_vars
          => Unheard' /\ UnusedAreOpen'
    BY UnheardStep, OpenStep DEF MailboxInv, IInv, Settled, SessionsApart
<1>5. Spec => [](Unheard /\ UnusedAreOpen)
    BY <1>2, <1>3, <1>4, PTL DEF Spec
<1>6. MailboxInv /\ MailboxInv' /\ Unheard /\ UnusedAreOpen /\ [Next]_vars
          => [Mailbox!Next]_(Mailbox!mailboxVars)
    BY MailboxStep
<1> QED BY <1>1, <1>3, <1>5, <1>6, PTL
        DEF Spec, ImplementsMailboxes, Mailbox!Spec

=============================================================================
