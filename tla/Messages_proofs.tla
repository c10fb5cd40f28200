-------------------------- MODULE Messages_proofs --------------------------
(***************************************************************************)
(* What the server sent and stores, as a whole, for any number of hosts    *)
(* and connections: what a host said in one session reaches every          *)
(* connection in the order it was typed, however sessions overlap; and,    *)
(* where none overlap, whatever is on a connection or in store was typed   *)
(* for that host.  Both follow a message from the frame it was read from.  *)
(***************************************************************************)
EXTENDS Mailboxes_proofs

-----------------------------------------------------------------------------
(* A connection that waits was never written to. *)

\* A connection that waits waits once and has no descriptor, however the
\* sessions of its host overlap.
LEMMA BacklogStep ==
    ASSUME CoreInv, BacklogOnce, [Next]_vars
    PROVE  BacklogOnce'
<1>1. CASE UNCHANGED <<file, backlog>>
    BY <1>1 DEF BacklogOnce
<1>2. CASE Accept
  <2>1. PICK fd \in Fds : file' = [file EXCEPT ![fd] = Head(backlog)]
    BY <1>2 DEF Accept
  <2>2. /\ 1 \in DOMAIN backlog /\ Head(backlog) = backlog[1]
        /\ \A k \in DOMAIN backlog' : /\ k + 1 \in DOMAIN backlog
                                      /\ k + 1 # 1
                                      /\ backlog'[k] = backlog[k + 1]
    BY <1>2, AcceptFacts
  <2>3. file \in [Fds -> Conns \cup {NoConn}] /\ backlog \in Seq(Conns)
        /\ backlog' = Tail(backlog)
    BY <1>2 DEF Accept, CoreInv, TypeOK
  <2>4. /\ file'[fd] = backlog[1]
        /\ \A g \in Fds : g # fd => file'[g] = file[g]
    BY <2>1, <2>2, <2>3
  <2>5. \A k \in DOMAIN backlog' : k \in Nat
    BY <2>3
  <2>6. \A j, k \in DOMAIN backlog' : backlog'[j] = backlog'[k] => j = k
    <3> SUFFICES ASSUME NEW j \in DOMAIN backlog', NEW k \in DOMAIN backlog',
                        backlog'[j] = backlog'[k]
                 PROVE  j = k
      OBVIOUS
    <3>1. j + 1 = k + 1
      BY <2>2 DEF BacklogOnce
    <3> QED BY <2>5, <3>1
  <2>7. \A k \in DOMAIN backlog', g \in Fds : file'[g] # backlog'[k]
    BY <2>2, <2>4 DEF BacklogOnce
  <2> QED BY <2>6, <2>7 DEF BacklogOnce
<1>3. ASSUME NEW c \in Conns, NEW ip \in IPs, ClientLogin(c, ip)
      PROVE  BacklogOnce'
  <2>1. peer[c] = NoIP /\ backlog' = Append(backlog, c) /\ file' = file
    BY <1>3 DEF ClientLogin, Opens
  <2>2. Reaped(c)
    BY <2>1, UnusedAreReaped
  <2>3. backlog \in Seq(Conns)
    BY DEF CoreInv, TypeOK
  <2>4. \A k \in DOMAIN backlog' :
            \/ k = Len(backlog) + 1 /\ backlog'[k] = c
            \/ k \in DOMAIN backlog /\ backlog'[k] = backlog[k]
    BY <2>1, <2>3
  <2> QED BY <2>1, <2>2, <2>4 DEF BacklogOnce, Reaped
<1>4. ASSUME NEW i \in DOMAIN clients_sockets, parseLOGOUT(i) \/ parseEXIT(i)
      PROVE  BacklogOnce'
  <2>1. backlog' = backlog /\ file' = [file EXCEPT ![Client(i).sock] = NoConn]
    BY <1>4 DEF parseLOGOUT, parseEXIT, logClientOut, Closed
  <2>2. file \in [Fds -> Conns \cup {NoConn}] /\ backlog \in Seq(Conns)
    BY DEF CoreInv, TypeOK
  <2>3. \A k \in DOMAIN backlog : backlog[k] # NoConn
    BY <2>2, ConstantsAssumption
  <2> QED BY <2>1, <2>2, <2>3 DEF BacklogOnce
<1>5. ASSUME NEW i \in DOMAIN clients_sockets, Converse(i)
      PROVE  UNCHANGED <<file, backlog>>
    BY <1>5 DEF Converse, parseREFRESH, parseNEWCLIENT, sendListAndIPs,
                parseSEND, parseBROADCAST, parseBLOCK, parseUNBLOCK
<1>6. ConsoleStep => UNCHANGED <<file, backlog>>
    BY DEF ConsoleStep, doLIST, doSTATISTICS, doBLOCKED
<1>7. AcceptUnresolved \/ Select \/ ScanDone => UNCHANGED <<file, backlog>>
    BY DEF AcceptUnresolved, Select, ScanDone
<1>8. ASSUME NEW c \in Conns, NEW f, ClientCommand(c, f) \/ ClientExit(c)
      PROVE  UNCHANGED <<file, backlog>>
    BY <1>8 DEF ClientCommand, ClientExit
<1>9. CASE ServerStep
    BY <1>1, <1>2, <1>4, <1>5, <1>7, <1>9 DEF ServerStep, Serve, Converse
<1>10. CASE ClientStep
    BY <1>1, <1>3, <1>8, <1>10 DEF ClientStep
<1>11. CASE UNCHANGED vars
    BY <1>1, <1>11 DEF vars
<1> QED BY <1>1, <1>6, <1>9, <1>10, <1>11 DEF Next

BaseInv == IInv /\ BacklogOnce /\ Unheard

\* So every connection that accept() takes is a fresh one.
LEMMA BaseHolds == Spec => []BaseInv
<1>1. Init => BaseInv
  <2> SUFFICES ASSUME Init PROVE BacklogOnce /\ Unheard
    BY InitInv DEF BaseInv
  <2>1. DOMAIN backlog = {} /\ \A c \in Conns : out[c] = <<>>
    BY DEF Init
  <2> QED BY <2>1 DEF BacklogOnce, Unheard
<1>2. BaseInv /\ [Next]_vars => BaseInv'
    BY NextInv, BacklogStep, UnheardStep DEF BaseInv, IInv
<1> QED BY <1>1, <1>2, PTL DEF Spec

-----------------------------------------------------------------------------
(* What a step does to the messages in store and on the connections. *)

\* The messages in store for y, none if y has no record.
StoreOf(y) == IF y \in DOMAIN clientMap THEN clientMap[y].storedMessages
              ELSE <<>>

\* What is sent in this step carries one of the sequences in S.
Sends(S) ==
    \A c \in Conns : \A k \in DOMAIN out'[c] :
        \/ k \in DOMAIN out[c] /\ out'[c][k] = out[c][k]
        \/ k \notin DOMAIN out[c] /\ Carried(out'[c][k]) \in S

\* The message that client i's frame is relayed as.
Relayed(i) == [type |-> "NEWMESSAGE", from |-> Sender(i),
               text |-> Received(i).text]

\* Some text may have been read; nothing was sent on or stored.
Quiet == /\ Sends({<<>>})
         /\ \A y : StoreOf(y)' = StoreOf(y) \/ StoreOf(y)' = <<>>

\* The text client i's frame holds is sent on, or stored, for some in Y.
HandsOver(i, Y) ==
    /\ IsText(Received(i))
    /\ got[Wire(i)] + 1 \in DOMAIN wrote[Wire(i)]
    /\ got[Wire(i)] + 1 <= got'[Wire(i)]
    /\ UNCHANGED <<peer, wrote>>
    /\ Sends({<<Relayed(i)>>})
    /\ \A y : \/ StoreOf(y)' = StoreOf(y)
              \/ y \in Y /\ \E n \in Nat :
                    StoreOf(y)' = StoreOf(y) \o Repeat(Relayed(i), n)

\* The store of a host is handed to a connection of its that is new.
Hands ==
    /\ UNCHANGED <<peer, wrote>>
    /\ \A y : StoreOf(y)' = StoreOf(y)
    /\ \A c \in Conns :
          \/ out'[c] = out[c]
          \/ /\ out[c] = <<>> /\ DOMAIN out'[c] = {1}
             /\ Carried(out'[c][1]) = StoreOf(peer[c])

\* What was sent stays, and what is new comes after it.
LEMMA SendsAppended ==
    ASSUME CoreInv, NEW mail \in [Conns -> Seq(ServerFrame)], NEW S,
           \A c \in Conns : \A k \in DOMAIN mail[c] : Carried(mail[c][k]) \in S,
           Transmit(mail)
    PROVE  Sends(S)
<1> SUFFICES ASSUME NEW c \in Conns, NEW k \in DOMAIN out'[c]
             PROVE  \/ k \in DOMAIN out[c] /\ out'[c][k] = out[c][k]
                    \/ k \notin DOMAIN out[c] /\ Carried(out'[c][k]) \in S
    BY DEF Sends
<1>1. out'[c] = IF shut[c] THEN out[c] ELSE out[c] \o mail[c]
    BY DEF Transmit
<1>2. out[c] \in Seq(ServerFrame) /\ mail[c] \in Seq(ServerFrame)
    BY DEF CoreInv, TypeOK
<1>3. \/ k \in DOMAIN out[c] /\ out'[c][k] = out[c][k]
      \/ /\ k \notin DOMAIN out[c]
         /\ k - Len(out[c]) \in DOMAIN mail[c]
         /\ out'[c][k] = mail[c][k - Len(out[c])]
    BY <1>1, <1>2
<1> QED BY <1>3

\* A step that sends nothing.
LEMMA SendsNothing ==
    ASSUME NEW S, out' = out
    PROVE  Sends(S)
BY DEF Sends

\* A lookup changes nobody's store.
LEMMA TouchStores ==
    ASSUME NEW m, IsClientMap(m), NEW K \in SUBSET Keys,
           \A y \in DOMAIN m : m[y].storedMessages = StoreOf(y),
           \A y : y \notin DOMAIN m => StoreOf(y) = <<>>,
           clientMap' = Touch(m, K)
    PROVE  \A y : StoreOf(y)' = StoreOf(y)
<1>1. /\ DOMAIN Touch(m, K) = DOMAIN m \cup K
      /\ \A k \in DOMAIN m : Touch(m, K)[k] = m[k]
      /\ \A k \in K \ DOMAIN m : Touch(m, K)[k] = DefaultClient
    BY TouchFacts
<1>2. DefaultClient.storedMessages = <<>>
    BY DEF DefaultClient
<1> QED BY <1>1, <1>2 DEF StoreOf

\* The lookup at the head of the loop, and what the handlers write of the
\* record, leave the stores.
LEMMA FetchedStores ==
    ASSUME CoreInv, NEW i \in DOMAIN clients_sockets
    PROVE  /\ IsClientMap(Fetched(i)) /\ Sender(i) \in DOMAIN Fetched(i)
           /\ \A y \in DOMAIN Fetched(i) :
                 Fetched(i)[y].storedMessages = StoreOf(y)
           /\ \A y : y \notin DOMAIN Fetched(i) => StoreOf(y) = <<>>
<1>1. IsClientMap(clientMap) /\ {Sender(i)} \subseteq Keys
    BY EntryFacts DEF CoreInv, TypeOK, Keys
<1>2. /\ DOMAIN Fetched(i) = DOMAIN clientMap \cup {Sender(i)}
      /\ \A k \in DOMAIN clientMap : Fetched(i)[k] = clientMap[k]
      /\ \A k \in {Sender(i)} \ DOMAIN clientMap : Fetched(i)[k] = DefaultClient
    BY <1>1, TouchFacts DEF Fetched
<1>3. DefaultClient.storedMessages = <<>>
    BY DEF DefaultClient
<1>4. IsClientMap(Fetched(i)) /\ Sender(i) \in DOMAIN Fetched(i)
    BY FetchedFacts
<1> QED BY <1>2, <1>3, <1>4 DEF StoreOf

\* Writing one field of a record leaves its store.
LEMMA StoreFields ==
    ASSUME NEW r \in clientobj, NEW x
    PROVE  /\ [r EXCEPT !.port = x].storedMessages = r.storedMessages
           /\ [r EXCEPT !.blockedClients = x].storedMessages = r.storedMessages
           /\ [r EXCEPT !.msgssent = x].storedMessages = r.storedMessages
           /\ [r EXCEPT !.msgsrecvd = x].storedMessages = r.storedMessages
           /\ Stored(r, x).storedMessages = r.storedMessages \o x
BY DEF clientobj, Stored

\* A change of the sender's record that leaves its store.
LEMMA EditStores ==
    ASSUME CoreInv, NEW i \in DOMAIN clients_sockets, NEW r,
           r.storedMessages = Fetched(i)[Sender(i)].storedMessages,
           NEW m, m = [Fetched(i) EXCEPT ![Sender(i)] = r]
    PROVE  /\ \A y \in DOMAIN m : m[y].storedMessages = StoreOf(y)
           /\ \A y : y \notin DOMAIN m => StoreOf(y) = <<>>
<1>1. /\ Sender(i) \in DOMAIN Fetched(i)
      /\ \A y \in DOMAIN Fetched(i) : Fetched(i)[y].storedMessages = StoreOf(y)
      /\ \A y : y \notin DOMAIN Fetched(i) => StoreOf(y) = <<>>
    BY FetchedStores
<1>2. DOMAIN m = DOMAIN Fetched(i)
    OBVIOUS
<1>3. \A y \in DOMAIN m : m[y] = IF y = Sender(i) THEN r ELSE Fetched(i)[y]
    BY <1>1, <1>2
<1> QED BY <1>1, <1>2, <1>3

\* Making the list changes nobody's store.
LEMMA ListStores ==
    ASSUME CoreInv, NEW m, IsClientMap(m), getListOfClients(m),
           \A y \in DOMAIN m : m[y].storedMessages = StoreOf(y),
           \A y : y \notin DOMAIN m => StoreOf(y) = <<>>
    PROVE  \A y : StoreOf(y)' = StoreOf(y)
<1>1. clientMap' = Touch(m, Listed)
    BY DEF getListOfClients
<1>2. Listed \in SUBSET Keys
    BY EntryFacts DEF Listed, Sender, Keys
<1> QED BY <1>1, <1>2, TouchStores

\* REFRESH and NEWCLIENT send a list.
LEMMA ListQuiet ==
    ASSUME CoreInv, NEW i \in DOMAIN clients_sockets,
           parseREFRESH(i) \/ parseNEWCLIENT(i)
    PROVE  Quiet
<1> DEFINE n == [Fetched(i) EXCEPT ![Sender(i)].port = Received(i).port]
           r == [Fetched(i)[Sender(i)] EXCEPT !.port = Received(i).port]
           ips == [k \in DOMAIN clients_sockets' |-> clients_sockets'[k].ip]
           f == [type |-> "NEWLIST", ips |-> ips]
<1>1. PICK m : /\ m = Fetched(i) \/ /\ ReadFrame(i, "NEWCLIENT")
                                    /\ m = [Fetched(i) EXCEPT ![Sender(i)].port =
                                               Received(i).port]
               /\ getListOfClients(m)
               /\ Transmit(Frames(Client(i).sock, <<f>>))
    BY DEF parseREFRESH, parseNEWCLIENT, sendListAndIPs
<1>2. /\ IsClientMap(m) /\ OnlineIn(m, Range(clients_sockets))
      /\ \A y \in DOMAIN m : m[y].storedMessages = StoreOf(y)
      /\ \A y : y \notin DOMAIN m => StoreOf(y) = <<>>
  <2>1. CASE m = Fetched(i)
    BY <2>1, FetchedStores, FetchedOnline
  <2>2. CASE m = n /\ ReadFrame(i, "NEWCLIENT")
    <3>1. Fetched(i)[Sender(i)] \in clientobj
      BY FetchedFacts DEF IsClientMap
    <3>2. r.storedMessages = Fetched(i)[Sender(i)].storedMessages
      BY <3>1, StoreFields
    <3>3. n = [Fetched(i) EXCEPT ![Sender(i)] = r]
      OBVIOUS
    <3>4. IsClientMap(n) /\ OnlineIn(n, Range(clients_sockets))
      BY <2>2, NewClientMap
    <3> HIDE DEF n, r
    <3> QED BY <2>2, <3>2, <3>3, <3>4, EditStores
  <2> QED BY <1>1, <2>1, <2>2
<1>3. \A y : StoreOf(y)' = StoreOf(y)
    BY <1>1, <1>2, ListStores
<1>4. f \in ServerFrame
  <2>1. clients_sockets' \in Seq(Entry)
    BY <1>1, <1>2, ListFacts
  <2>2. \A k \in DOMAIN clients_sockets' : clients_sockets'[k] \in Entry
    BY <2>1
  <2>3. ips \in Seq(IPs)
    BY <2>1, <2>2 DEF Entry
  <2> QED BY <2>3 DEF ServerFrame
<1>5. Carried(f) = <<>>
    BY DEF Carried
<1> HIDE DEF f
<1> DEFINE mail == Frames(Client(i).sock, <<f>>)
<1>6. <<f>> \in Seq(ServerFrame)
    BY <1>4
<1>7. mail \in [Conns -> Seq(ServerFrame)]
    BY <1>6, FramesType
<1>8. \A c \in Conns : \A k \in DOMAIN mail[c] : Carried(mail[c][k]) \in {<<>>}
    BY <1>5 DEF Frames
<1> HIDE DEF mail
<1>9. Sends({<<>>})
    BY <1>1, <1>7, <1>8, SendsAppended DEF mail
<1> QED BY <1>3, <1>9 DEF Quiet

\* BLOCK and UNBLOCK send and store nothing.
LEMMA BlockQuiet ==
    ASSUME CoreInv, NEW i \in DOMAIN clients_sockets,
           parseBLOCK(i) \/ parseUNBLOCK(i)
    PROVE  Quiet
<1>1. PICK B : /\ clientMap' = [Fetched(i) EXCEPT
                                    ![Sender(i)].blockedClients = B]
               /\ out' = out
    BY DEF parseBLOCK, parseUNBLOCK
<1> DEFINE r == [Fetched(i)[Sender(i)] EXCEPT !.blockedClients = B]
<1>2. Fetched(i)[Sender(i)] \in clientobj
    BY FetchedFacts DEF IsClientMap
<1>3. r.storedMessages = Fetched(i)[Sender(i)].storedMessages
    BY <1>2, StoreFields
<1>4. clientMap' = [Fetched(i) EXCEPT ![Sender(i)] = r]
    BY <1>1
<1> HIDE DEF r
<1> DEFINE m == [Fetched(i) EXCEPT ![Sender(i)] = r]
<1>5. /\ \A y \in DOMAIN m : m[y].storedMessages = StoreOf(y)
      /\ \A y : y \notin DOMAIN m => StoreOf(y) = <<>>
    BY <1>3, EditStores
<1>6. \A y : StoreOf(y)' = StoreOf(y)
    BY <1>4, <1>5 DEF StoreOf
<1> QED BY <1>1, <1>6, SendsNothing DEF Quiet

\* A session that ends takes the store with it, or leaves it.
LEMMA LogOutQuiet ==
    ASSUME CoreInv, NEW i \in DOMAIN clients_sockets,
           parseLOGOUT(i) \/ parseEXIT(i)
    PROVE  Quiet
<1>1. PICK K \in SUBSET {Sender(i)} :
          logClientOut(Client(i).sock, Fetched(i), K)
  <2>1. {} \in SUBSET {Sender(i)} /\ {Sender(i)} \in SUBSET {Sender(i)}
    OBVIOUS
  <2> QED BY <2>1 DEF parseLOGOUT, parseEXIT
<1>2. PICK k \in DOMAIN clients_sockets :
        /\ clientMap' = [h \in DOMAIN Touch(Fetched(i),
                                            {clients_sockets[k].ip}) \ K |->
              IF h = clients_sockets[k].ip
              THEN LoggedOut(Touch(Fetched(i), {clients_sockets[k].ip})[h])
              ELSE Touch(Fetched(i), {clients_sockets[k].ip})[h]]
        /\ out' = out
    BY <1>1 DEF logClientOut
<1> DEFINE ip == clients_sockets[k].ip
           n == Touch(Fetched(i), {ip})
<1>3. {ip} \subseteq Keys
    BY EntryFacts DEF Sender, Keys
<1> HIDE DEF ip
<1>4. /\ IsClientMap(Fetched(i))
      /\ \A y \in DOMAIN Fetched(i) : Fetched(i)[y].storedMessages = StoreOf(y)
      /\ \A y : y \notin DOMAIN Fetched(i) => StoreOf(y) = <<>>
    BY FetchedStores
<1>5. /\ IsClientMap(n)
      /\ DOMAIN n = DOMAIN Fetched(i) \cup {ip}
      /\ \A h \in DOMAIN Fetched(i) : n[h] = Fetched(i)[h]
      /\ \A h \in {ip} \ DOMAIN Fetched(i) : n[h] = DefaultClient
    BY ZenonT(60), <1>3, <1>4, TouchFacts
<1>6. DefaultClient.storedMessages = <<>>
    BY DEF DefaultClient
<1>7. /\ \A h \in DOMAIN n : n[h].storedMessages = StoreOf(h)
      /\ \A h : h \notin DOMAIN n => StoreOf(h) = <<>>
    BY <1>4, <1>5, <1>6
<1>8. \A h \in DOMAIN n : LoggedOut(n[h]).storedMessages = n[h].storedMessages
    BY <1>5, LoggedOutFields DEF IsClientMap
<1>9. /\ DOMAIN clientMap' = DOMAIN n \ K
      /\ \A h \in DOMAIN n \ K :
            clientMap'[h] = IF h = ip THEN LoggedOut(n[h]) ELSE n[h]
    BY <1>2 DEF ip
<1> HIDE DEF n
<1>10. \A h \in DOMAIN n \ K : clientMap'[h].storedMessages = StoreOf(h)
    BY <1>7, <1>8, <1>9
<1>11. \A y : StoreOf(y)' = StoreOf(y) \/ StoreOf(y)' = <<>>
    BY <1>9, <1>10 DEF StoreOf
<1> QED BY <1>2, <1>11, SendsNothing DEF Quiet

\* The console changes nobody's store.
LEMMA ConsoleQuiet ==
    ASSUME CoreInv, ConsoleStep
    PROVE  Quiet
<1>1. /\ IsClientMap(clientMap)
      /\ \A y \in DOMAIN clientMap : clientMap[y].storedMessages = StoreOf(y)
      /\ \A y : y \notin DOMAIN clientMap => StoreOf(y) = <<>>
    BY DEF CoreInv, TypeOK, StoreOf
<1>2. CASE doLIST
  <2>1. getListOfClients(clientMap) /\ out' = out
    BY <1>2 DEF doLIST
  <2> QED BY <1>1, <2>1, ListStores, SendsNothing DEF Quiet
<1>3. CASE doSTATISTICS
  <2> DEFINE K == {clientMap[k].ip : k \in DOMAIN clientMap}
  <2>1. clientMap' = Touch(clientMap, K) /\ out' = out
    BY <1>3 DEF doSTATISTICS
  <2>2. K \in SUBSET Keys
    BY <1>1, RecordKeys
  <2> HIDE DEF K
  <2> QED BY <1>1, <2>1, <2>2, TouchStores, SendsNothing DEF Quiet
<1>4. ASSUME NEW ip \in IPs, doBLOCKED(ip) PROVE Quiet
  <2> DEFINE blocked == clientMap[ip].blockedClients
             m == Touch(clientMap, blocked)
             K == {m[k].ip : k \in blocked}
  <2>1. ip \in DOMAIN clientMap /\ clientMap' = Touch(m, K) /\ out' = out
    BY <1>4 DEF doBLOCKED
  <2>2. blocked \in SUBSET Keys
    BY <1>1, <2>1, RecordKeys
  <2> HIDE DEF blocked
  <2>3. /\ IsClientMap(m) /\ DOMAIN m = DOMAIN clientMap \cup blocked
        /\ \A k \in DOMAIN clientMap : m[k] = clientMap[k]
        /\ \A k \in blocked \ DOMAIN clientMap : m[k] = DefaultClient
    BY <1>1, <2>2, TouchFacts
  <2>4. DefaultClient.storedMessages = <<>>
    BY DEF DefaultClient
  <2> HIDE DEF m
  <2>5. /\ \A y \in DOMAIN m : m[y].storedMessages = StoreOf(y)
        /\ \A y : y \notin DOMAIN m => StoreOf(y) = <<>>
    BY <1>1, <2>3, <2>4
  <2>6. K \in SUBSET Keys
    BY <2>3, RecordKeys
  <2> HIDE DEF K
  <2> QED BY <2>1, <2>3, <2>5, <2>6, TouchStores, SendsNothing DEF Quiet
<1> QED BY <1>2, <1>3, <1>4 DEF ConsoleStep

\* A relay stores and sends its message and no other, and stores it only for
\* whom it is for.
LEMMA RelayPasses ==
    ASSUME CoreInv, NEW i \in DOMAIN clients_sockets,
           NEW dests, IsFiniteSet(DOMAIN dests), Relay(i, dests),
           Received(i).text \in Texts
    PROVE  /\ Sends({<<Relayed(i)>>})
           /\ \A y : \/ StoreOf(y)' = StoreOf(y)
                     \/ y \in Range(dests) /\ \E n \in Nat :
                           StoreOf(y)' = StoreOf(y) \o Repeat(Relayed(i), n)
<1> DEFINE m == [Fetched(i) EXCEPT ![Sender(i)].msgssent = @ + 1]
           r == [Fetched(i)[Sender(i)] EXCEPT !.msgssent = @ + 1]
           message == [type |-> "NEWMESSAGE", from |-> Sender(i),
                       text |-> Received(i).text]
           hearers == {y \in Range(dests) \cap DOMAIN m : Hears(m[y], Sender(i))}
           times(y) == Cardinality({k \in DOMAIN dests : dests[k] = y})
           T(up, via, c) == {k \in DOMAIN dests :
                                /\ dests[k] \in up
                                /\ ConnAt(via[dests[k]]) = c}
           sent(up, via) == [c \in Conns |->
                                Repeat(message, Cardinality(T(up, via, c)))]
<1>1. PICK up \in SUBSET hearers, via \in [hearers -> Fds \cup {Indet}] :
        /\ \A y \in hearers :
              /\ (y \in up) \in Readings(m[y].online, BOOLEAN)
              /\ via[y] \in Readings(m[y].sock, Fds \cup {Indet})
        /\ clientMap' = [y \in DOMAIN m |->
              IF y \in up
              THEN [m[y] EXCEPT !.msgsrecvd = @ + times(y)]
              ELSE IF y \in hearers
              THEN Stored(m[y], Repeat(message, times(y)))
              ELSE m[y]]
        /\ Transmit(sent(up, via))
    BY DEF Relay
<1>2. message = Relayed(i) /\ message \in NewMessage
    BY EntryFacts DEF NewMessage, Relayed
<1>3. \A S \in SUBSET DOMAIN dests : Cardinality(S) \in Nat
    BY FS_Subset, FS_CardinalityType
<1>4. \A y : times(y) \in Nat
    BY <1>3
<1>5. /\ \A y \in DOMAIN m : m[y].storedMessages = StoreOf(y)
      /\ \A y : y \notin DOMAIN m => StoreOf(y) = <<>>
      /\ IsClientMap(m)
  <2>1. IsClientMap(Fetched(i)) /\ Fetched(i)[Sender(i)] \in clientobj
    BY FetchedFacts DEF IsClientMap
  <2>2. r.storedMessages = Fetched(i)[Sender(i)].storedMessages /\ r \in clientobj
    BY <2>1, CountSent DEF clientobj
  <2>3. m = [Fetched(i) EXCEPT ![Sender(i)] = r]
    OBVIOUS
  <2> HIDE DEF m, r
  <2>4. /\ \A y \in DOMAIN m : m[y].storedMessages = StoreOf(y)
        /\ \A y : y \notin DOMAIN m => StoreOf(y) = <<>>
    BY <2>2, <2>3, EditStores
  <2>5. IsClientMap(m)
    BY <2>1, <2>2, <2>3 DEF IsClientMap
  <2> QED BY <2>4, <2>5
<1> HIDE DEF m, message, times, r
<1>6. DOMAIN clientMap' = DOMAIN m
    BY <1>1
<1>7. ASSUME NEW y
      PROVE  \/ StoreOf(y)' = StoreOf(y)
             \/ y \in Range(dests) /\ \E n \in Nat :
                   StoreOf(y)' = StoreOf(y) \o Repeat(message, n)
  <2>1. CASE y \notin DOMAIN m
    BY <1>5, <1>6, <2>1 DEF StoreOf
  <2>2. CASE y \in DOMAIN m
    <3>1. m[y] \in clientobj /\ m[y].storedMessages = StoreOf(y)
      BY <1>5, <2>2 DEF IsClientMap
    <3>2. StoreOf(y)' = clientMap'[y].storedMessages
      BY <1>6, <2>2 DEF StoreOf
    <3>3. CASE y \in up
      <4>1. clientMap'[y] = [m[y] EXCEPT !.msgsrecvd = @ + times(y)]
        BY <1>1, <2>2, <3>3
      <4> QED BY <3>1, <3>2, <4>1, StoreFields
    <3>4. CASE y \notin up /\ y \in hearers
      <4>1. clientMap'[y] = Stored(m[y], Repeat(message, times(y)))
        BY <1>1, <2>2, <3>4
      <4>2. Stored(m[y], Repeat(message, times(y))).storedMessages
                = m[y].storedMessages \o Repeat(message, times(y))
        BY <3>1, StoreFields
      <4>3. StoreOf(y)' = StoreOf(y) \o Repeat(message, times(y))
        BY <3>1, <3>2, <4>1, <4>2
      <4>4. y \in Range(dests)
        BY <3>4
      <4> QED BY <1>4, <4>3, <4>4
    <3>5. CASE y \notin up /\ y \notin hearers
      <4>1. clientMap'[y] = m[y]
        BY <1>1, <2>2, <3>5
      <4> QED BY <3>1, <3>2, <4>1
    <3> QED BY <3>3, <3>4, <3>5
  <2> QED BY <2>1, <2>2
<1>8. Sends({<<message>>})
  <2> DEFINE mail == sent(up, via)
  <2>1. \A c : Cardinality(T(up, via, c)) \in Nat
    BY <1>3
  <2>2. message \in ServerFrame
    BY <1>2 DEF ServerFrame
  <2> HIDE DEF T
  <2>3. \A c \in Conns : mail[c] \in Seq(ServerFrame)
    BY <2>1, <2>2, RepeatType
  <2>4. mail \in [Conns -> Seq(ServerFrame)]
    BY <2>3
  <2>5. Carried(message) = <<message>>
    BY DEF message, Carried
  <2>6. \A c \in Conns : \A k \in DOMAIN mail[c] :
            Carried(mail[c][k]) \in {<<message>>}
    BY <2>5 DEF Repeat
  <2>7. Transmit(mail)
    BY <1>1 DEF T
  <2> HIDE DEF sent, mail
  <2> QED BY <2>4, <2>6, <2>7, SendsAppended
<1> QED BY <1>2, <1>7, <1>8

\* Whom the text that client i's frame holds is for.
For(i) == {y \in IPs : Meant(Received(i), y, Sender(i))}

\* SEND and BROADCAST pass their text on to whom it is for.
LEMMA TextPasses ==
    ASSUME CoreInv, NEW i \in DOMAIN clients_sockets,
           parseSEND(i) \/ parseBROADCAST(i)
    PROVE  HandsOver(i, For(i))
<1>1. PICK type \in {"SEND", "BROADCAST"} :
          /\ type = "SEND" => parseSEND(i)
          /\ type = "BROADCAST" => parseBROADCAST(i)
    OBVIOUS
<1>2. ReadFrame(i, type) /\ UNCHANGED <<peer, wrote>>
    BY <1>1 DEF parseSEND, parseBROADCAST, netVars
<1>3. /\ Received(i) \in ClientFrame \cup NewClient
      /\ Received(i).type = type
    BY <1>2, ReadFrameFacts
<1>4. IsText(Received(i)) /\ Received(i).text \in Texts
    BY <1>3 DEF IsText, ClientFrame, NewClient
<1>5. /\ got[Wire(i)] + 1 \in DOMAIN wrote[Wire(i)]
      /\ got[Wire(i)] + 1 <= got'[Wire(i)]
  <2>1. /\ Wire(i) \in Conns /\ got \in [Conns -> Nat]
        /\ wrote[Wire(i)] \in Seq(ClientFrame \cup NewClient)
    BY EntryFacts DEF CoreInv, TypeOK
  <2>2. PICK k \in (got[Wire(i)] + 1) .. Len(wrote[Wire(i)]) :
            got' = [got EXCEPT ![Wire(i)] = k]
    BY <1>2 DEF ReadFrame, Taken
  <2> QED BY <2>1, <2>2
<1>6. /\ Sends({<<Relayed(i)>>})
      /\ \A y : \/ StoreOf(y)' = StoreOf(y)
                \/ y \in For(i) /\ \E n \in Nat :
                      StoreOf(y)' = StoreOf(y) \o Repeat(Relayed(i), n)
  <2>1. CASE type = "SEND"
    <3> DEFINE dests == <<Received(i).to>>
    <3>1. Relay(i, dests)
      BY <1>1, <2>1 DEF parseSEND
    <3>2. DOMAIN dests = {1} /\ Range(dests) = {Received(i).to}
      BY DEF Range
    <3>3. IsFiniteSet(DOMAIN dests)
      BY <3>2, FS_Singleton
    <3>4. Range(dests) \subseteq For(i)
      BY <1>3, <2>1, <3>2 DEF For, Meant, ClientFrame, NewClient
    <3> HIDE DEF dests
    <3> QED BY <1>4, <3>1, <3>3, <3>4, RelayPasses
  <2>2. CASE type = "BROADCAST"
    <3> DEFINE dests == [k \in {l \in DOMAIN clients_sockets :
                                   clients_sockets[l].ip # Sender(i)} |->
                            clients_sockets[k].ip]
    <3>1. Relay(i, dests)
      BY <1>1, <2>2 DEF parseBROADCAST
    <3>2. IsFiniteSet(DOMAIN dests)
      BY BroadcastFinite
    <3>3. Range(dests) \subseteq For(i)
      BY <1>3, <2>2, EntryFacts DEF Range, For, Meant, Sender
    <3> HIDE DEF dests
    <3> QED BY <1>4, <3>1, <3>2, <3>3, RelayPasses
  <2> QED BY <2>1, <2>2
<1> QED BY <1>2, <1>4, <1>5, <1>6 DEF HandsOver

\* accept() hands the host that connects what is stored for it.
LEMMA AcceptHands ==
    ASSUME BaseInv, Accept
    PROVE  Hands
<1> DEFINE c == Head(backlog)
           ip == peer[c]
           f == [type |-> "BACKLOGGED_MESSAGES",
                 msgs |-> clientMap[ip].storedMessages]
           mail == [NoMail EXCEPT ![c] = <<f>>]
<1>1. CoreInv /\ out[c] = <<>> /\ c \in Conns /\ ip \in IPs
  <2>1. CoreInv /\ Unheard
    BY DEF BaseInv, IInv
  <2>2. c \in Conns /\ ip \in IPs /\ 1 \in DOMAIN backlog /\ c = backlog[1]
    BY <2>1, AcceptFacts
  <2> QED BY <2>1, <2>2 DEF Unheard
<1>2. /\ UNCHANGED <<peer, wrote>>
      /\ \/ ip \in DOMAIN clientMap /\ Transmit(mail)
         \/ out' = out
    BY DEF Accept, netVars
<1>3. \A y : StoreOf(y)' = StoreOf(y)
  <2>1. PICK fd \in Fds :
            /\ DOMAIN clientMap' = DOMAIN clientMap \cup {ip}
            /\ \A k \in DOMAIN clientMap :
                  k # ip => clientMap'[k] = clientMap[k]
            /\ clientMap'[ip] = IF ip \in DOMAIN clientMap
                                THEN LoggedIn(clientMap[ip], fd)
                                ELSE [DefaultClient EXCEPT !.sock = fd,
                                                           !.ip = ip,
                                                           !.online = TRUE]
    BY <1>1, AcceptFacts
  <2>2. ASSUME ip \in DOMAIN clientMap
        PROVE  clientMap'[ip].storedMessages = clientMap[ip].storedMessages
    <3>1. clientMap[ip] \in clientobj
      BY <1>1, <2>2 DEF CoreInv, TypeOK, IsClientMap
    <3>2. LoggedIn(clientMap[ip], fd).storedMessages
              = clientMap[ip].storedMessages
      BY <3>1, LoggedInFields
    <3> QED BY <2>1, <2>2, <3>2
  <2>3. ip \notin DOMAIN clientMap => clientMap'[ip].storedMessages = <<>>
    BY <2>1 DEF DefaultClient
  <2> HIDE DEF ip
  <2> QED BY <2>1, <2>2, <2>3 DEF StoreOf
<1>4. ASSUME NEW d \in Conns, ip \in DOMAIN clientMap, Transmit(mail)
      PROVE  \/ out'[d] = out[d]
             \/ /\ out[d] = <<>> /\ DOMAIN out'[d] = {1}
                /\ Carried(out'[d][1]) = StoreOf(peer[d])
  <2>1. mail[d] = IF d = c THEN <<f>> ELSE <<>>
    BY <1>1 DEF NoMail
  <2>2. out'[d] = out[d] \/ out'[d] = out[d] \o mail[d]
    <3> HIDE DEF mail
    <3> QED BY <1>4 DEF Transmit
  <2>3. out[d] \o <<>> = out[d]
    BY <1>1 DEF CoreInv, TypeOK
  <2>4. d = c /\ out'[d] = out[d] \o mail[d] =>
            DOMAIN out'[d] = {1} /\ out'[d][1] = f
    <3>1. <<>> \o <<f>> = <<f>>
      OBVIOUS
    <3> HIDE DEF f
    <3> QED BY <1>1, <2>1, <3>1
  <2>5. Carried(f) = StoreOf(ip)
    BY <1>4 DEF Carried, StoreOf
  <2> QED BY <1>1, <2>1, <2>2, <2>3, <2>4, <2>5
<1> HIDE DEF mail
<1> QED BY <1>2, <1>3, <1>4 DEF Hands

\* Every step is one of these.
LEMMA StepSays ==
    ASSUME BaseInv, [Next]_vars
    PROVE  Quiet \/ Hands \/ \E i \in DOMAIN clients_sockets :
                                (parseSEND(i) \/ parseBROADCAST(i))
                                /\ HandsOver(i, For(i))
<1>1. CoreInv
    BY DEF BaseInv, IInv
<1>2. UNCHANGED <<clientMap, out>> => Quiet
    BY SendsNothing DEF Quiet, StoreOf
<1>3. AcceptUnresolved \/ Select \/ ScanDone => UNCHANGED <<clientMap, out>>
    BY DEF AcceptUnresolved, Select, ScanDone
<1>4. ClientStep => UNCHANGED <<clientMap, out>>
    BY DEF ClientStep, ClientLogin, ClientCommand, ClientExit
<1>5. ConsoleStep => Quiet
    BY <1>1, ConsoleQuiet
<1>6. Accept => Hands
    BY AcceptHands
<1>7. ASSUME NEW i \in DOMAIN clients_sockets, Serve(i)
      PROVE  Quiet \/ /\ parseSEND(i) \/ parseBROADCAST(i)
                      /\ HandsOver(i, For(i))
    BY <1>1, <1>7, ListQuiet, LogOutQuiet, BlockQuiet, TextPasses DEF Serve
<1>8. CASE ServerStep
    BY <1>2, <1>3, <1>6, <1>7, <1>8 DEF ServerStep
<1>9. CASE UNCHANGED vars
    BY <1>2, <1>9 DEF vars
<1> QED BY <1>2, <1>4, <1>5, <1>8, <1>9 DEF Next

-----------------------------------------------------------------------------
(* From the frame a message was read from. *)

\* What was written stays, and no read is undone.
Grows == \A d \in Conns :
            /\ peer[d] # NoIP => peer'[d] = peer[d]
            /\ \A k \in DOMAIN wrote[d] : /\ k \in DOMAIN wrote'[d]
                                          /\ wrote'[d][k] = wrote[d][k]
            /\ got[d] <= got'[d]

\* Every step only adds to what was written and read.
LEMMA StepGrows == ASSUME IInv, [Next]_vars PROVE Grows
<1>1. /\ peer \in [Conns -> Keys] /\ got \in [Conns -> Nat]
      /\ wrote \in [Conns -> Seq(ClientFrame \cup NewClient)]
      /\ CoreInv
    BY DEF IInv, CoreInv, TypeOK
<1>2. CASE UNCHANGED <<peer, wrote, got>>
    BY <1>1, <1>2 DEF Grows
<1>3. ASSUME UNCHANGED <<peer, wrote>>,
             NEW i \in DOMAIN clients_sockets, NEW type, ReadFrame(i, type)
      PROVE  Grows
  <2>1. Wire(i) \in Conns
    BY <1>1, EntryFacts
  <2>2. PICK k \in (got[Wire(i)] + 1) .. Len(wrote[Wire(i)]) :
            got' = [got EXCEPT ![Wire(i)] = k]
    BY <1>3 DEF ReadFrame, Taken
  <2>3. \A d \in Conns : got[d] <= got'[d]
    BY <1>1, <2>1, <2>2
  <2> QED BY <1>3, <2>3 DEF Grows
<1>4. ASSUME NEW i \in DOMAIN clients_sockets, Serve(i)
      PROVE  Grows
  <2>1. UNCHANGED <<peer, wrote>>
    BY <1>4 DEF Serve, parseREFRESH, parseNEWCLIENT, parseLOGOUT, parseEXIT,
                parseSEND, parseBROADCAST, parseBLOCK, parseUNBLOCK,
                sendListAndIPs, logClientOut, netVars
  <2>2. got' = got \/ \E type \in {"REFRESH", "NEWCLIENT", "LOGOUT", "SEND",
                                   "BROADCAST", "BLOCK", "UNBLOCK"} :
                          ReadFrame(i, type)
    BY <1>4 DEF Serve, parseREFRESH, parseNEWCLIENT, parseLOGOUT, parseEXIT,
                parseSEND, parseBROADCAST, parseBLOCK, parseUNBLOCK, ReadEOF
  <2> QED BY <1>2, <1>3, <2>1, <2>2
<1>5. Accept \/ AcceptUnresolved \/ Select \/ ScanDone
          => UNCHANGED <<peer, wrote, got>>
    BY DEF Accept, AcceptUnresolved, Select, ScanDone, netVars
<1>6. ConsoleStep => UNCHANGED <<peer, wrote, got>>
    BY DEF ConsoleStep, doLIST, doSTATISTICS, doBLOCKED, netVars
<1>7. ASSUME NEW c \in Conns, NEW ip \in IPs, ClientLogin(c, ip)
      PROVE  Grows
  <2>1. /\ peer[c] = NoIP /\ peer' = [peer EXCEPT ![c] = ip] /\ got' = got
        /\ wrote[c] = <<>>
    BY <1>7 DEF ClientLogin, Opens, IInv, UnusedAreSilent
  <2>2. PICK w : wrote' = [wrote EXCEPT ![c] = w]
    BY <1>7 DEF ClientLogin
  <2> QED BY <1>1, <2>1, <2>2 DEF Grows
<1>8. ASSUME NEW c \in Conns, NEW f, ClientCommand(c, f)
      PROVE  Grows
    BY <1>1, <1>8 DEF ClientCommand, Grows
<1>9. ASSUME NEW c \in Conns, ClientExit(c)
      PROVE  UNCHANGED <<peer, wrote, got>>
    BY <1>9 DEF ClientExit
<1>10. CASE ServerStep
    BY <1>2, <1>4, <1>5, <1>10 DEF ServerStep
<1>11. CASE ClientStep
    BY <1>2, <1>7, <1>8, <1>9, <1>11 DEF ClientStep
<1>12. CASE UNCHANGED vars
    BY <1>2, <1>12 DEF vars
<1> QED BY <1>2, <1>6, <1>10, <1>11, <1>12 DEF Next

\* Some session of the host a message is from wrote its text, and the server
\* has read that.
Read(m) ==
    \E d \in Conns : \E k \in DOMAIN wrote[d] :
        /\ peer[d] = m.from /\ k <= got[d]
        /\ IsText(wrote[d][k]) /\ wrote[d][k].text = m.text

\* What was read stays read.
LEMMA ReadKept ==
    ASSUME IInv, Grows, IInv', NEW m \in NewMessage, Read(m)
    PROVE  Read(m)'
<1>1. PICK d \in Conns : \E k \in DOMAIN wrote[d] :
          /\ peer[d] = m.from /\ k <= got[d]
          /\ IsText(wrote[d][k]) /\ wrote[d][k].text = m.text
    BY DEF Read
<1>2. PICK k \in DOMAIN wrote[d] :
          /\ peer[d] = m.from /\ k <= got[d]
          /\ IsText(wrote[d][k]) /\ wrote[d][k].text = m.text
    BY <1>1
<1>3. peer[d] # NoIP
    BY <1>2, ConstantsAssumption DEF NewMessage
<1>4. /\ peer'[d] = m.from /\ k \in DOMAIN wrote'[d]
      /\ wrote'[d][k] = wrote[d][k] /\ got[d] <= got'[d]
    BY <1>2, <1>3 DEF Grows
<1>5. k \in Nat /\ got[d] \in Nat /\ got'[d] \in Nat
    BY <1>1 DEF IInv, CoreInv, TypeOK
<1>6. k <= got'[d]
    BY <1>2, <1>4, <1>5
<1> QED BY <1>2, <1>4, <1>6 DEF Read

\* In a session that is its host's only one, and where no text is typed twice,
\* a text that was read has one place.
LEMMA OnePlace ==
    ASSUME NEW x \in IPs, NEW d \in Conns, Sole(x, d),
           NEW m, m.from = x, Read(m)
    PROVE  \E k \in DOMAIN wrote[d] : k <= got[d] /\ TypedAt(m, d) = {k}
<1>1. PICK e \in Conns : peer[e] = x /\ \E k \in DOMAIN wrote[e] :
          k <= got[e] /\ IsText(wrote[e][k]) /\ wrote[e][k].text = m.text
    BY DEF Read
<1>2. e = d
    BY <1>1 DEF Sole
<1>3. PICK k \in DOMAIN wrote[d] :
          k <= got[d] /\ IsText(wrote[d][k]) /\ wrote[d][k].text = m.text
    BY <1>1, <1>2
<1>4. TypedAt(m, d) = {k}
    BY <1>3 DEF Sole, TypedAt
<1> QED BY <1>3, <1>4

\* A session that is the only one, with no text twice, was so before, if
\* anything was read from its host.
LEMMA SoleBefore ==
    ASSUME Grows, NEW x \in IPs, NEW d \in Conns, Sole(x, d)',
           NEW m \in NewMessage, m.from = x, Read(m)
    PROVE  Sole(x, d)
<1>1. x # NoIP
    BY ConstantsAssumption
<1>2. PICK e \in Conns : peer[e] = x
    BY DEF Read
<1>3. \A c \in Conns : peer[c] = x => peer'[c] = x
    BY <1>1 DEF Grows
<1>4. \A c \in Conns : peer[c] = x <=> c = d
    BY <1>2, <1>3 DEF Sole
<1>5. \A j, k \in DOMAIN wrote[d] :
          /\ IsText(wrote[d][j]) /\ IsText(wrote[d][k])
          /\ wrote[d][j].text = wrote[d][k].text
          => j = k
    BY DEF Grows, Sole
<1> QED BY <1>4, <1>5 DEF Sole

\* Two messages that were read keep their order.
LEMMA FollowsKept ==
    ASSUME Grows, NEW x \in IPs, NEW d \in Conns, Sole(x, d)',
           NEW m \in NewMessage, NEW n \in NewMessage, m.from = x, n.from = x,
           Read(m), Read(n), Sole(x, d) => Follows(m, n, d)
    PROVE  Follows(m, n, d)'
<1>1. Sole(x, d)
    BY SoleBefore
<1>2. PICK j \in DOMAIN wrote[d] : TypedAt(m, d) = {j}
    BY <1>1, OnePlace
<1>3. PICK k \in DOMAIN wrote[d] : TypedAt(n, d) = {k}
    BY <1>1, OnePlace
<1>4. j <= k
    BY <1>1, <1>2, <1>3 DEF Follows
<1>5. j \in TypedAt(m, d) /\ k \in TypedAt(n, d)
    BY <1>2, <1>3
<1>6. TypedAt(m, d)' = {j}
    BY <1>5 DEF TypedAt, Grows, Sole
<1>7. TypedAt(n, d)' = {k}
    BY <1>5 DEF TypedAt, Grows, Sole
<1>8. Follows(m, n, d)' <=> \A a \in TypedAt(m, d)', b \in TypedAt(n, d)' : a <= b
    BY DEF Follows
<1> QED BY <1>4, <1>6, <1>7, <1>8

\* The text in hand comes after all that was read, and not before itself.
LEMMA FollowsNew ==
    ASSUME IInv, NEW i \in DOMAIN clients_sockets, HandsOver(i, For(i)),
           NEW x \in IPs, NEW d \in Conns, Sole(x, d)', Sender(i) = x,
           NEW n \in NewMessage, n = Relayed(i),
           NEW m \in NewMessage, m.from = x, Read(m) \/ m = n
    PROVE  Follows(m, n, d)'
<1> DEFINE p == got[d] + 1
<1>1. UNCHANGED <<peer, wrote>>
    BY DEF HandsOver
<1>2. Sole(x, d)
    BY <1>1 DEF Sole
<1>3. /\ Wire(i) = d
      /\ n.text = wrote[d][p].text
      /\ p \in DOMAIN wrote[d] /\ IsText(wrote[d][p])
      /\ got[d] \in Nat /\ wrote[d] \in Seq(ClientFrame \cup NewClient)
  <2>1. Wire(i) \in Conns /\ peer[Wire(i)] = x
    BY EntryFacts DEF IInv
  <2>2. Wire(i) = d
    BY <1>2, <2>1 DEF Sole
  <2> QED BY <2>1, <2>2 DEF HandsOver, Received, Relayed, IInv, CoreInv, TypeOK
<1>4. TypedAt(n, d) = {p}
    BY <1>2, <1>3 DEF TypedAt, Sole
<1>5. \A j \in TypedAt(m, d) : j <= p
  <2>1. CASE Read(m)
    <3>1. PICK k \in DOMAIN wrote[d] : k <= got[d] /\ TypedAt(m, d) = {k}
      BY <1>2, <2>1, OnePlace
    <3> QED BY <1>3, <3>1
  <2>2. CASE m = n
    BY <1>3, <1>4, <2>2
  <2> QED BY <2>1, <2>2
<1>6. TypedAt(m, d)' = TypedAt(m, d) /\ TypedAt(n, d)' = {p}
    BY <1>1, <1>4 DEF TypedAt
<1>7. Follows(m, n, d)' <=>
          \A a \in TypedAt(m, d)', b \in TypedAt(n, d)' : a <= b
    BY DEF Follows
<1> QED BY <1>5, <1>6, <1>7

-----------------------------------------------------------------------------
(* The order of what a host says. *)

\* Every message sent or in store was read from its host.
AllRead ==
    /\ \A y \in Keys : \A p \in DOMAIN StoreOf(y) : Read(StoreOf(y)[p])
    /\ \A c \in Conns : \A k \in DOMAIN out[c] :
          \A p \in DOMAIN Carried(out[c][k]) : Read(Carried(out[c][k])[p])

\* Stored messages are in the order they were typed.
StoreInOrder ==
    \A x \in IPs, d \in Conns : Sole(x, d) =>
        \A y \in Keys : \A p, q \in DOMAIN StoreOf(y) :
            LET m == StoreOf(y)[p]
                n == StoreOf(y)[q]
            IN  m.from = x /\ n.from = x /\ p <= q => Follows(m, n, d)

OrderInv == BaseInv /\ AllRead /\ StoreInOrder /\ InOrder

\* Stores and frames hold messages.
LEMMA MessageTypes ==
    ASSUME CoreInv
    PROVE  /\ \A y : StoreOf(y) \in Seq(NewMessage)
           /\ \A c \in Conns : \A k \in DOMAIN out[c] :
                 Carried(out[c][k]) \in Seq(NewMessage)
<1>1. <<>> \in Seq(NewMessage) /\ \A m \in NewMessage : <<m>> \in Seq(NewMessage)
    OBVIOUS
<1>2. \A y \in DOMAIN clientMap : clientMap[y].storedMessages \in Seq(NewMessage)
    BY DEF CoreInv, TypeOK, IsClientMap, clientobj
<1>3. \A y : StoreOf(y) \in Seq(NewMessage)
    BY <1>1, <1>2 DEF StoreOf
<1>4. ASSUME NEW f \in ServerFrame PROVE Carried(f) \in Seq(NewMessage)
  <2>1. CASE f \in NewMessage
    <3>1. f.type = "NEWMESSAGE"
      BY <2>1 DEF NewMessage
    <3>2. Carried(f) = <<f>>
      BY <3>1 DEF Carried
    <3> QED BY <1>1, <2>1, <3>2
  <2>2. CASE f \in [type : {"BACKLOGGED_MESSAGES"}, msgs : Seq(NewMessage)]
    <3>1. f.type = "BACKLOGGED_MESSAGES" /\ f.msgs \in Seq(NewMessage)
      BY <2>2
    <3>2. Carried(f) = f.msgs
      BY <3>1 DEF Carried
    <3> QED BY <3>1, <3>2
  <2>3. CASE f \in [type : {"NEWLIST"}, ips : Seq(IPs)]
    <3>1. f.type = "NEWLIST"
      BY <2>3
    <3>2. Carried(f) = <<>>
      BY <3>1 DEF Carried
    <3> QED BY <1>1, <3>2
  <2> QED BY <2>1, <2>2, <2>3 DEF ServerFrame
<1>5. \A c \in Conns : \A k \in DOMAIN out[c] : out[c][k] \in ServerFrame
    BY DEF CoreInv, TypeOK
<1> QED BY <1>3, <1>4, <1>5

\* Repetitions of one message come after what is there.
LEMMA AddedLast ==
    ASSUME NEW S, NEW s \in Seq(S), NEW x \in S, NEW k \in Nat,
           NEW t, t = s \o Repeat(x, k)
    PROVE  /\ \A p \in DOMAIN t : IF p \in DOMAIN s THEN t[p] = s[p] ELSE t[p] = x
           /\ \A p, q \in DOMAIN t : p <= q /\ q \in DOMAIN s => p \in DOMAIN s
<1> DEFINE r == Repeat(x, k)
<1>1. r \in Seq(S) /\ \A p \in DOMAIN r : r[p] = x
    BY RepeatType DEF Repeat
<1>2. t = s \o r
    OBVIOUS
<1> HIDE DEF r
<1>3. \A p \in DOMAIN t : IF p \in DOMAIN s THEN t[p] = s[p]
                          ELSE p - Len(s) \in DOMAIN r /\ t[p] = r[p - Len(s)]
    BY <1>1, <1>2
<1>4. \A p, q \in DOMAIN t : p <= q /\ q \in DOMAIN s => p \in DOMAIN s
    BY <1>1, <1>2
<1> QED BY <1>1, <1>3, <1>4

\* The message a text becomes, and that it is read with the text.
LEMMA RelayedFacts ==
    ASSUME IInv, NEW i \in DOMAIN clients_sockets, HandsOver(i, For(i))
    PROVE  \E n \in NewMessage : /\ n = Relayed(i) /\ n.from = Sender(i)
                                 /\ n.from \in IPs /\ Read(n)'
<1>1. /\ Sender(i) \in IPs /\ Wire(i) \in Conns /\ peer[Wire(i)] = Sender(i)
      /\ wrote[Wire(i)] \in Seq(ClientFrame \cup NewClient)
    BY EntryFacts DEF IInv, CoreInv, TypeOK
<1>2. Received(i) \in ClientFrame \cup NewClient /\ IsText(Received(i))
    BY <1>1 DEF HandsOver, Received
<1>3. Received(i).text \in Texts
    BY <1>2 DEF IsText, ClientFrame, NewClient
<1>4. Relayed(i) \in NewMessage
    BY <1>1, <1>3 DEF Relayed, NewMessage
<1>5. PICK n \in NewMessage : n = Relayed(i)
    BY <1>4
<1>6. n.from = Sender(i) /\ n.text = wrote[Wire(i)][got[Wire(i)] + 1].text
    BY <1>5 DEF Relayed, Received
<1>7. Read(n)'
    BY <1>1, <1>2, <1>6 DEF HandsOver, Read, Received
<1> QED BY <1>1, <1>5, <1>6, <1>7

\* A message in store after a step was there, or is the one just passed on.
StoredBefore(y, i) ==
    /\ \A p \in DOMAIN StoreOf(y)' :
          \/ p \in DOMAIN StoreOf(y) /\ StoreOf(y)'[p] = StoreOf(y)[p]
          \/ /\ p \notin DOMAIN StoreOf(y) /\ i \in DOMAIN clients_sockets
             /\ HandsOver(i, For(i)) /\ y \in For(i)
             /\ StoreOf(y)'[p] = Relayed(i)
    /\ \A p, q \in DOMAIN StoreOf(y)' :
          p <= q /\ q \in DOMAIN StoreOf(y) => p \in DOMAIN StoreOf(y)

\* A message on c after a step was there, comes from the store of c's host, or
\* is the one just passed on.
SentBefore(c, i) ==
    \A k \in DOMAIN out'[c] :
        \/ k \in DOMAIN out[c] /\ out'[c][k] = out[c][k]
        \/ /\ k \notin DOMAIN out[c]
           /\ \/ Carried(out'[c][k]) = <<>>
              \/ /\ i \in DOMAIN clients_sockets /\ HandsOver(i, For(i))
                 /\ Carried(out'[c][k]) = <<Relayed(i)>>
                 /\ parseSEND(i) \/ parseBROADCAST(i)
              \/ /\ DOMAIN out[c] = {} /\ DOMAIN out'[c] = {k}
                 /\ UNCHANGED <<peer, wrote>>
                 /\ Carried(out'[c][k]) = StoreOf(peer[c])

\* So it is with every step.
LEMMA StepTraces ==
    ASSUME BaseInv, [Next]_vars
    PROVE  \E i : /\ \A y : StoredBefore(y, i)
                  /\ \A c \in Conns : SentBefore(c, i)
<1>1. CoreInv /\ \A y : StoreOf(y) \in Seq(NewMessage)
    BY MessageTypes DEF BaseInv, IInv
<1>2. ASSUME NEW y, NEW i, StoreOf(y)' = StoreOf(y) \/ StoreOf(y)' = <<>>
      PROVE  StoredBefore(y, i)
    BY <1>1, <1>2 DEF StoredBefore
<1>3. CASE Quiet
  <2>1. \A y : StoredBefore(y, 0)
    BY <1>2, <1>3 DEF Quiet
  <2>2. \A c \in Conns : SentBefore(c, 0)
    BY <1>3 DEF Quiet, Sends, SentBefore
  <2> QED BY <2>1, <2>2
<1>4. CASE Hands
  <2>1. \A y : StoredBefore(y, 0)
    BY <1>2, <1>4 DEF Hands
  <2>2. \A c \in Conns : SentBefore(c, 0)
    <3> SUFFICES ASSUME NEW c \in Conns PROVE SentBefore(c, 0)
      OBVIOUS
    <3>1. CASE out'[c] = out[c]
      BY <3>1 DEF SentBefore
    <3>2. CASE /\ out[c] = <<>> /\ DOMAIN out'[c] = {1}
               /\ Carried(out'[c][1]) = StoreOf(peer[c])
      BY <1>4, <3>2 DEF SentBefore, Hands
    <3> QED BY <1>4, <3>1, <3>2 DEF Hands
  <2> QED BY <2>1, <2>2
<1>5. ASSUME NEW i \in DOMAIN clients_sockets, HandsOver(i, For(i)),
             parseSEND(i) \/ parseBROADCAST(i)
      PROVE  /\ \A y : StoredBefore(y, i)
             /\ \A c \in Conns : SentBefore(c, i)
  <2>1. ASSUME NEW y PROVE StoredBefore(y, i)
    <3>1. CASE StoreOf(y)' = StoreOf(y)
      BY <1>2, <3>1
    <3>2. ASSUME y \in For(i), NEW k \in Nat,
                 StoreOf(y)' = StoreOf(y) \o Repeat(Relayed(i), k)
          PROVE  StoredBefore(y, i)
      <4>1. PICK x \in NewMessage : x = Relayed(i)
        BY <1>5, RelayedFacts DEF BaseInv
      <4>2. PICK s \in Seq(NewMessage), t \in {StoreOf(y)'} :
                    s = StoreOf(y) /\ t = StoreOf(y)'
        BY <1>1
      <4>3. t = s \o Repeat(x, k)
        BY <3>2, <4>1, <4>2
      <4>4. \A p \in DOMAIN t : IF p \in DOMAIN s THEN t[p] = s[p] ELSE t[p] = x
        BY <4>3, AddedLast
      <4>5. \A p, q \in DOMAIN t : p <= q /\ q \in DOMAIN s => p \in DOMAIN s
        BY <4>3, AddedLast
      <4> QED BY <1>5, <3>2, <4>1, <4>2, <4>4, <4>5 DEF StoredBefore
    <3> QED BY <1>5, <3>1, <3>2 DEF HandsOver
  <2>2. \A c \in Conns : SentBefore(c, i)
    BY <1>5 DEF HandsOver, Sends, SentBefore
  <2> QED BY <2>1, <2>2
<1> QED BY <1>3, <1>4, <1>5, StepSays

\* The messages in the store and on the connections have their type.
MessagesTyped ==
    /\ \A y : StoreOf(y) \in Seq(NewMessage)
    /\ \A c \in Conns : \A k \in DOMAIN out[c] :
          Carried(out[c][k]) \in Seq(NewMessage)

\* CoreInv types them, before a step and after it.
LEMMA MessagesHaveType ==
    /\ CoreInv => MessagesTyped
    /\ CoreInv' => MessagesTyped'
<1>1. CoreInv => MessagesTyped
    BY MessageTypes DEF MessagesTyped
<1> QED BY <1>1, PTL

\* Every step keeps the order.
LEMMA OrderStep ==
    ASSUME OrderInv, BaseInv', [Next]_vars
    PROVE  (AllRead /\ StoreInOrder /\ InOrder)'
<1>1. PICK i : /\ \A y : StoredBefore(y, i)
               /\ \A c \in Conns : SentBefore(c, i)
    BY StepTraces DEF OrderInv
<1>2. IInv /\ IInv' /\ CoreInv /\ CoreInv'
    BY DEF OrderInv, BaseInv, IInv
<1>3. Grows
    BY <1>2, StepGrows
<1>4. /\ \A y : StoreOf(y) \in Seq(NewMessage) /\ StoreOf(y)' \in Seq(NewMessage)
      /\ \A c \in Conns : \A k \in DOMAIN out[c] :
            Carried(out[c][k]) \in Seq(NewMessage)
      /\ \A c \in Conns : \A k \in DOMAIN out'[c] :
            Carried(out'[c][k]) \in Seq(NewMessage)
    BY <1>2, MessagesHaveType DEF MessagesTyped
<1>5. ASSUME i \in DOMAIN clients_sockets, HandsOver(i, For(i))
      PROVE  \E n \in NewMessage : /\ n = Relayed(i) /\ n.from = Sender(i)
                                   /\ n.from \in IPs /\ Read(n)'
    BY <1>2, <1>5, RelayedFacts
<1>6. \A m \in NewMessage : Read(m) => Read(m)'
    BY <1>2, <1>3, ReadKept
<1>7. ASSUME NEW y \in Keys, NEW p \in DOMAIN StoreOf(y)'
      PROVE  \E m \in NewMessage :
                /\ m = StoreOf(y)'[p] /\ Read(m)'
                /\ \/ p \in DOMAIN StoreOf(y) /\ m = StoreOf(y)[p] /\ Read(m)
                   \/ /\ p \notin DOMAIN StoreOf(y) /\ m = Relayed(i)
                      /\ i \in DOMAIN clients_sockets /\ HandsOver(i, For(i))
  <2>1. PICK m \in NewMessage : m = StoreOf(y)'[p]
    BY <1>4
  <2>2. CASE p \in DOMAIN StoreOf(y) /\ StoreOf(y)'[p] = StoreOf(y)[p]
    <3>1. Read(m)
      BY <2>1, <2>2 DEF OrderInv, AllRead
    <3> QED BY <1>6, <2>1, <2>2, <3>1
  <2>3. CASE /\ p \notin DOMAIN StoreOf(y) /\ i \in DOMAIN clients_sockets
             /\ HandsOver(i, For(i)) /\ StoreOf(y)'[p] = Relayed(i)
    BY <1>5, <2>1, <2>3
  <2> QED BY <1>1, <2>2, <2>3 DEF StoredBefore
<1>8. ASSUME NEW c \in Conns, NEW k \in DOMAIN out'[c],
             NEW p \in DOMAIN Carried(out'[c][k])
      PROVE  \E m \in NewMessage :
                /\ m = Carried(out'[c][k])[p] /\ Read(m)'
                /\ \/ /\ k \in DOMAIN out[c] /\ out'[c][k] = out[c][k]
                      /\ m = Carried(out[c][k])[p] /\ Read(m)
                   \/ /\ k \notin DOMAIN out[c] /\ m = Relayed(i)
                      /\ i \in DOMAIN clients_sockets /\ HandsOver(i, For(i))
                   \/ /\ DOMAIN out[c] = {} /\ DOMAIN out'[c] = {k}
                      /\ UNCHANGED <<peer, wrote>>
                      /\ Carried(out'[c][k]) = StoreOf(peer[c])
                      /\ peer[c] \in Keys /\ p \in DOMAIN StoreOf(peer[c])
                      /\ m = StoreOf(peer[c])[p] /\ Read(m)
  <2>1. PICK m \in NewMessage : m = Carried(out'[c][k])[p]
    BY <1>4
  <2>2. CASE k \in DOMAIN out[c] /\ out'[c][k] = out[c][k]
    <3>1. Read(m)
      BY <2>1, <2>2 DEF OrderInv, AllRead
    <3> QED BY <1>6, <2>1, <2>2, <3>1
  <2>3. CASE /\ k \notin DOMAIN out[c] /\ Carried(out'[c][k]) = <<Relayed(i)>>
             /\ i \in DOMAIN clients_sockets /\ HandsOver(i, For(i))
    <3>1. p = 1 /\ m = Relayed(i)
      BY <2>1, <2>3
    <3> QED BY <1>5, <2>1, <2>3, <3>1
  <2>4. CASE /\ DOMAIN out[c] = {} /\ DOMAIN out'[c] = {k}
             /\ UNCHANGED <<peer, wrote>>
             /\ Carried(out'[c][k]) = StoreOf(peer[c])
    <3>1. peer[c] \in Keys
      BY <1>2 DEF CoreInv, TypeOK
    <3>2. p \in DOMAIN StoreOf(peer[c]) /\ m = StoreOf(peer[c])[p]
      BY <2>1, <2>4
    <3>3. Read(m)
      BY <3>1, <3>2 DEF OrderInv, AllRead
    <3> QED BY <1>6, <2>1, <2>4, <3>1, <3>2, <3>3
  <2> QED BY <1>1, <2>2, <2>3, <2>4 DEF SentBefore
<1>9. AllRead'
  <2>1. \A y \in Keys : \A p \in DOMAIN StoreOf(y)' : Read(StoreOf(y)[p])'
    BY <1>7 DEF Read
  <2>2. ASSUME NEW c \in Conns, NEW k \in DOMAIN out'[c],
               NEW p \in DOMAIN Carried(out'[c][k])
        PROVE  Read(Carried(out[c][k])[p])'
    <3>1. PICK m \in NewMessage : m = Carried(out'[c][k])[p] /\ Read(m)'
      BY <1>8
    <3> QED BY <3>1 DEF Read
  <2> QED BY <2>1, <2>2 DEF AllRead
<1>10. ASSUME NEW x \in IPs, NEW d \in Conns, Sole(x, d)',
              i \in DOMAIN clients_sockets, HandsOver(i, For(i)),
              NEW n \in NewMessage, n = Relayed(i), n.from = x,
              NEW m \in NewMessage, m.from = x, Read(m) \/ m = n
       PROVE  Follows(m, n, d)'
  <2>1. Sender(i) = x
    BY <1>5, <1>10
  <2> QED BY <1>2, <1>10, <2>1, FollowsNew
<1>11. ASSUME NEW x \in IPs, NEW d \in Conns, Sole(x, d)',
              NEW y \in Keys, NEW p \in DOMAIN StoreOf(y)',
              NEW q \in DOMAIN StoreOf(y)', p <= q,
              NEW m \in NewMessage, m = StoreOf(y)'[p], m.from = x,
              NEW n \in NewMessage, n = StoreOf(y)'[q], n.from = x
       PROVE  Follows(m, n, d)'
  <2>1. CASE q \in DOMAIN StoreOf(y) /\ n = StoreOf(y)[q] /\ Read(n)
    <3>1. p \in DOMAIN StoreOf(y)
      BY <1>1, <1>11, <2>1 DEF StoredBefore
    <3>2. m = StoreOf(y)[p] /\ Read(m)
      BY <1>7, <1>11, <3>1
    <3>3. Sole(x, d) => Follows(m, n, d)
      BY <1>11, <2>1, <3>1, <3>2 DEF OrderInv, StoreInOrder
    <3> QED BY <1>3, <1>11, <2>1, <3>2, <3>3, FollowsKept
  <2>2. CASE /\ n = Relayed(i) /\ i \in DOMAIN clients_sockets
             /\ HandsOver(i, For(i))
    <3>1. Read(m) \/ m = n
      BY <1>7, <1>11, <2>2
    <3> QED BY <1>10, <1>11, <2>2, <3>1
  <2> QED BY <1>7, <1>11, <2>1, <2>2
<1>12. StoreInOrder'
  <2> SUFFICES ASSUME NEW x \in IPs, NEW d \in Conns, Sole(x, d)',
                      NEW y \in Keys, NEW p \in DOMAIN StoreOf(y)',
                      NEW q \in DOMAIN StoreOf(y)', p <= q,
                      StoreOf(y)'[p].from = x, StoreOf(y)'[q].from = x
               PROVE  Follows(StoreOf(y)[p], StoreOf(y)[q], d)'
    BY DEF StoreInOrder
  <2>1. PICK m \in NewMessage : m = StoreOf(y)'[p]
    BY <1>4
  <2>2. PICK n \in NewMessage : n = StoreOf(y)'[q]
    BY <1>4
  <2>3. Follows(m, n, d)'
    BY <1>11, <2>1, <2>2
  <2> QED BY <2>1, <2>2, <2>3 DEF Follows, TypedAt
<1>13. ASSUME NEW x \in IPs, NEW d \in Conns, Sole(x, d)', NEW c \in Conns,
              NEW j \in DOMAIN out'[c], NEW k \in DOMAIN out'[c],
              NEW p \in DOMAIN Carried(out'[c][j]),
              NEW q \in DOMAIN Carried(out'[c][k]),
              j < k \/ (j = k /\ p <= q),
              NEW m \in NewMessage, m = Carried(out'[c][j])[p], m.from = x,
              NEW n \in NewMessage, n = Carried(out'[c][k])[q], n.from = x
       PROVE  Follows(m, n, d)'
  <2>1. /\ j \in DOMAIN out'[c] /\ k \in DOMAIN out'[c]
        /\ out[c] \in Seq(ServerFrame) /\ out'[c] \in Seq(ServerFrame)
    BY <1>2 DEF CoreInv, TypeOK
  <2>2. k \in DOMAIN out[c] => j \in DOMAIN out[c]
    BY <1>13, <2>1
  <2>3. CASE /\ k \in DOMAIN out[c] /\ out'[c][k] = out[c][k]
             /\ n = Carried(out[c][k])[q] /\ Read(n)
    <3>1. /\ j \in DOMAIN out[c] /\ out'[c][j] = out[c][j]
          /\ m = Carried(out[c][j])[p] /\ Read(m)
      BY SMTT(40), <1>8, <1>13, <2>2, <2>3
    <3>2. Sole(x, d) => Follows(m, n, d)
      BY <1>13, <2>3, <3>1 DEF OrderInv, InOrder
    <3> QED BY <1>3, <1>13, <2>3, <3>1, <3>2, FollowsKept
  <2>4. CASE /\ n = Relayed(i) /\ i \in DOMAIN clients_sockets
             /\ HandsOver(i, For(i))
    <3>1. PICK l \in NewMessage :
             /\ l = Carried(out'[c][j])[p]
             /\ \/ l = Carried(out[c][j])[p] /\ Read(l)
                \/ l = Relayed(i)
                \/ l = StoreOf(peer[c])[p] /\ Read(l)
      BY SMTT(40), <1>8, <1>13
    <3>2. Read(m) \/ m = n
      BY <1>13, <2>4, <3>1
    <3> QED BY <1>10, <1>13, <2>4, <3>2
  <2>5. CASE /\ DOMAIN out'[c] = {k}
             /\ UNCHANGED <<peer, wrote>>
             /\ Carried(out'[c][k]) = StoreOf(peer[c])
             /\ peer[c] \in Keys
             /\ n = StoreOf(peer[c])[q] /\ Read(n)
    <3>1. j = k /\ p <= q
      BY <1>13, <2>1, <2>5
    <3>2. /\ p \in DOMAIN StoreOf(peer[c]) /\ q \in DOMAIN StoreOf(peer[c])
          /\ m = StoreOf(peer[c])[p]
      BY <1>13, <2>5, <3>1
    <3>3. Read(m)
      BY <2>5, <3>2 DEF OrderInv, AllRead
    <3>4. Sole(x, d) => Follows(m, n, d)
      BY <1>13, <2>5, <3>1, <3>2 DEF OrderInv, StoreInOrder
    <3> QED BY <1>3, <1>13, <2>5, <3>3, <3>4, FollowsKept
  <2> QED BY SMTT(40), <1>8, <1>13, <2>3, <2>4, <2>5
<1>14. InOrder'
  <2> SUFFICES ASSUME NEW x \in IPs, NEW d \in Conns, Sole(x, d)',
                      NEW c \in Conns,
                      NEW j \in DOMAIN out'[c], NEW k \in DOMAIN out'[c],
                      NEW p \in DOMAIN Carried(out'[c][j]),
                      NEW q \in DOMAIN Carried(out'[c][k]),
                      j < k \/ (j = k /\ p <= q),
                      Carried(out'[c][j])[p].from = x,
                      Carried(out'[c][k])[q].from = x
               PROVE  Follows(Carried(out[c][j])[p], Carried(out[c][k])[q], d)'
    BY DEF InOrder
  <2>1. PICK m \in NewMessage : m = Carried(out'[c][j])[p]
    BY <1>4
  <2>2. PICK n \in NewMessage : n = Carried(out'[c][k])[q]
    BY <1>4
  <2>3. Follows(m, n, d)'
    BY <1>13, <2>1, <2>2
  <2> QED BY <2>1, <2>2, <2>3 DEF Follows, TypedAt
<1> QED BY <1>9, <1>12, <1>14

\* What a host says in one session, each text once, reaches every connection
\* in the order it was typed: through the server's store, a later login of the
\* host it is for, and sessions that overlap.
THEOREM SpokenInOrder == Spec => []InOrder
<1>1. Init => AllRead /\ StoreInOrder /\ InOrder
  <2> SUFFICES ASSUME Init PROVE AllRead /\ StoreInOrder /\ InOrder
    OBVIOUS
  <2>1. /\ \A y : StoreOf(y) = <<>>
        /\ \A c \in Conns : out[c] = <<>>
    BY DEF Init, StoreOf
  <2> QED BY <2>1 DEF AllRead, StoreInOrder, InOrder
<1>2. OrderInv /\ BaseInv' /\ [Next]_vars => OrderInv'
    BY OrderStep DEF OrderInv
<1>3. OrderInv => InOrder
    BY DEF OrderInv
<1>4. OrderInv <=> BaseInv /\ (AllRead /\ StoreInOrder /\ InOrder)
    BY DEF OrderInv
<1> QED BY <1>1, <1>2, <1>3, <1>4, BaseHolds, PTL DEF Spec
-----------------------------------------------------------------------------
(* From whom it is, to whom it is for. *)

\* Every message in store was typed for the host that has it.
StoredSaid ==
    \A y \in Keys : \A p \in DOMAIN StoreOf(y) : Said(StoreOf(y)[p], y)

\* Every message on a connection was typed for the host at its other end.
SentSaid ==
    \A c \in Conns : \A k \in DOMAIN out[c] : \A p \in DOMAIN Carried(out[c][k]) :
        Said(Carried(out[c][k])[p], peer[c])

AddressedInv == BaseInv /\ Settled /\ RecordsSet /\ StoredSaid /\ SentSaid

\* What was said stays said.
LEMMA SaidKept ==
    ASSUME Grows, NEW m \in NewMessage, NEW y, Said(m, y)
    PROVE  \A z : z = y => Said(m, z)'
<1>1. m.from \in IPs
    BY DEF NewMessage
<1>2. m.from # NoIP
    BY <1>1, ConstantsAssumption
<1>3. PICK d \in Conns : /\ peer[d] = m.from
                         /\ \E k \in DOMAIN wrote[d] :
                               /\ Meant(wrote[d][k], y, m.from)
                               /\ wrote[d][k].text = m.text
    BY DEF Said
<1>4. PICK k \in DOMAIN wrote[d] : /\ Meant(wrote[d][k], y, m.from)
                                   /\ wrote[d][k].text = m.text
    BY <1>3
<1>5. /\ peer'[d] = m.from /\ k \in DOMAIN wrote'[d]
      /\ wrote'[d][k] = wrote[d][k]
    BY <1>2, <1>3 DEF Grows
<1> QED BY <1>4, <1>5 DEF Said, Meant

\* The text that is passed on was said by its sender, to whom it is for.
LEMMA SaidNow ==
    ASSUME IInv, NEW i \in DOMAIN clients_sockets, HandsOver(i, For(i)),
           NEW y, Meant(Received(i), y, Sender(i)),
           NEW m \in NewMessage, m = Relayed(i)
    PROVE  Said(m, y)
<1>1. Wire(i) \in Conns /\ peer[Wire(i)] = Sender(i)
    BY EntryFacts DEF IInv
<1>2. m.from = Sender(i) /\ m.text = wrote[Wire(i)][got[Wire(i)] + 1].text
    BY DEF Relayed, Received
<1>3. /\ got[Wire(i)] + 1 \in DOMAIN wrote[Wire(i)]
      /\ Received(i) = wrote[Wire(i)][got[Wire(i)] + 1]
    BY DEF HandsOver, Received
<1> QED BY <1>1, <1>2, <1>3 DEF Said

\* A connection that a relay writes to is one of a host the text is for.
LEMMA RelayedToAddressee ==
    ASSUME MailboxInv, [Next]_vars, NEW i \in DOMAIN clients_sockets,
           parseSEND(i) \/ parseBROADCAST(i),
           NEW c \in Conns, out'[c] # out[c]
    PROVE  Meant(Received(i), peer[c], Sender(i))
<1>1. Listed \subseteq DOMAIN clientMap
    BY ListedRecords DEF MailboxInv, Settled
<1>2. \A y : ~Uninitialised(y)
    BY <1>1 DEF MailboxInv, RecordsSet, Uninitialised
<1>3. vars' # vars
    BY DEF vars
<1>4. RelayReachesAddressee
    BY <1>3, RelayStepIsRight DEF MailboxInv
<1>5. IF Received(i).type = "SEND" THEN peer[c] = Received(i).to
                                   ELSE peer[c] # Sender(i)
    BY <1>2, <1>4 DEF RelayReachesAddressee
<1>6. Received(i).type \in {"SEND", "BROADCAST"}
    BY DEF parseSEND, parseBROADCAST, ReadFrame
<1> QED BY <1>5, <1>6 DEF Meant

\* Every step keeps what is in store and on the connections said.
LEMMA AddressedStep ==
    ASSUME AddressedInv, [Next]_vars, BaseInv'
    PROVE  StoredSaid' /\ SentSaid'
<1>1. PICK i : /\ \A y : StoredBefore(y, i)
               /\ \A c \in Conns : SentBefore(c, i)
    BY StepTraces DEF AddressedInv
<1>2. IInv /\ IInv' /\ CoreInv /\ CoreInv' /\ MailboxInv /\ Unheard
    BY DEF AddressedInv, BaseInv, IInv, MailboxInv
<1>3. Grows
    BY <1>2, StepGrows
<1>4. MessagesTyped /\ MessagesTyped'
    BY <1>2, MessagesHaveType
<1>5. ASSUME NEW m \in NewMessage, NEW y, Said(m, y)
      PROVE  \A z : z = y => Said(m, z)'
    BY <1>3, <1>5, SaidKept
<1>6. ASSUME i \in DOMAIN clients_sockets, HandsOver(i, For(i)),
             NEW m \in NewMessage, m = Relayed(i),
             NEW y, Meant(Received(i), y, Sender(i))
      PROVE  \A z : z = y => Said(m, z)'
    BY <1>2, <1>5, <1>6, SaidNow
<1>7. StoredSaid'
  <2> SUFFICES ASSUME NEW y \in Keys, NEW p \in DOMAIN StoreOf(y)'
               PROVE  Said(StoreOf(y)[p], y)'
    BY DEF StoredSaid
  <2>1. PICK m \in NewMessage : m = StoreOf(y)'[p]
    BY <1>4 DEF MessagesTyped
  <2>2. CASE p \in DOMAIN StoreOf(y) /\ StoreOf(y)'[p] = StoreOf(y)[p]
    <3>1. Said(m, y)
      BY <2>1, <2>2 DEF AddressedInv, StoredSaid
    <3> QED BY <1>5, <2>1, <3>1 DEF Said
  <2>3. CASE /\ i \in DOMAIN clients_sockets /\ HandsOver(i, For(i))
             /\ y \in For(i) /\ StoreOf(y)'[p] = Relayed(i)
    <3>1. Meant(Received(i), y, Sender(i))
      BY <2>3 DEF For
    <3> QED BY <1>6, <2>1, <2>3, <3>1 DEF Said
  <2> QED BY <1>1, <2>2, <2>3 DEF StoredBefore
<1>8. SentSaid'
  <2> SUFFICES ASSUME NEW c \in Conns, NEW k \in DOMAIN out'[c],
                      NEW p \in DOMAIN Carried(out'[c][k])
               PROVE  Said(Carried(out[c][k])[p], peer[c])'
    BY DEF SentSaid
  <2>1. PICK m \in NewMessage : m = Carried(out'[c][k])[p]
    BY <1>4 DEF MessagesTyped
  <2>2. CASE k \in DOMAIN out[c] /\ out'[c][k] = out[c][k]
    <3>1. Said(m, peer[c])
      BY <2>1, <2>2 DEF AddressedInv, SentSaid
    <3>2. peer[c] # NoIP
      BY <1>2, <2>2 DEF Unheard
    <3>3. peer'[c] = peer[c]
      BY <1>3, <3>2 DEF Grows
    <3> QED BY <1>5, <2>1, <3>1, <3>3 DEF Said
  <2>3. CASE /\ i \in DOMAIN clients_sockets /\ HandsOver(i, For(i))
             /\ Carried(out'[c][k]) = <<Relayed(i)>>
             /\ parseSEND(i) \/ parseBROADCAST(i)
             /\ k \notin DOMAIN out[c]
    <3>1. Meant(Received(i), peer[c], Sender(i))
      BY <1>2, <2>3, RelayedToAddressee
    <3>2. m = Relayed(i) /\ peer'[c] = peer[c]
      BY <2>1, <2>3 DEF HandsOver
    <3> QED BY <1>6, <2>1, <2>3, <3>1, <3>2 DEF Said
  <2>4. CASE /\ UNCHANGED <<peer, wrote>>
             /\ Carried(out'[c][k]) = StoreOf(peer[c])
    <3>1. peer[c] \in Keys /\ p \in DOMAIN StoreOf(peer[c])
          /\ m = StoreOf(peer[c])[p]
      BY <1>2, <2>1, <2>4 DEF CoreInv, TypeOK
    <3>2. Said(m, peer[c])
      BY <3>1 DEF AddressedInv, StoredSaid
    <3> QED BY <1>5, <2>1, <2>4, <3>2 DEF Said
  <2> QED BY <1>1, <2>2, <2>3, <2>4 DEF SentBefore
<1> QED BY <1>7, <1>8

\* What is said of positions in stores and frames is said of their messages.
LEMMA SaidOfAll ==
    ASSUME CoreInv, RecordsSet, StoredSaid, SentSaid
    PROVE  OnlyAddressed
<1>1. ASSUME NEW c \in Conns, NEW k \in DOMAIN out[c],
             NEW m \in Range(Carried(out[c][k]))
      PROVE  Said(m, peer[c])
    BY <1>1 DEF SentSaid, Range
<1>2. ASSUME NEW y \in DOMAIN clientMap,
             NEW m \in Range(clientMap[y].storedMessages)
      PROVE  Said(m, y)
  <2>1. y \in Keys /\ StoreOf(y) = clientMap[y].storedMessages
    BY <1>2 DEF RecordsSet, Keys, StoreOf
  <2> QED BY <1>2, <2>1 DEF StoredSaid, Range
<1> QED BY <1>1, <1>2 DEF OnlyAddressed

\* Where no host logs in again before the server is done with it, and the
\* operator does not ask for BLOCKED, every message on a connection, relayed or
\* out of a backlog, and every message in store was typed for that host by the
\* host it says it is from.
THEOREM OnlyToAddressees ==
    ASSUME Overlap = FALSE, "BLOCKED" \notin Console
    PROVE  Spec => []OnlyAddressed
<1>1. Init => StoredSaid /\ SentSaid
  <2> SUFFICES ASSUME Init PROVE StoredSaid /\ SentSaid
    OBVIOUS
  <2>1. /\ \A y : StoreOf(y) = <<>>
        /\ \A c \in Conns : out[c] = <<>>
    BY DEF Init, StoreOf
  <2> QED BY <2>1 DEF StoredSaid, SentSaid
<1>2. AddressedInv /\ [Next]_vars /\ BaseInv' => StoredSaid' /\ SentSaid'
    BY AddressedStep
<1>3. AddressedInv <=> BaseInv /\ Settled /\ RecordsSet /\ (StoredSaid /\ SentSaid)
    BY DEF AddressedInv
<1>4. AddressedInv => OnlyAddressed
    BY SaidOfAll DEF AddressedInv, BaseInv, IInv
<1> QED BY <1>1, <1>2, <1>3, <1>4, BaseHolds, Settlement, RecordsStaySet, PTL
        DEF Spec
=============================================================================
