------------------------- MODULE ChatServer_proofs -------------------------
(***************************************************************************)
(* For any number of hosts, connections and descriptors, any commands, and *)
(* sessions that may overlap: the types, the agreement of clients_sockets  *)
(* with the open descriptors, and that a record which says online leads to *)
(* its host.  The three are proved together: each needs the others.        *)
(***************************************************************************)
EXTENDS ChatServer, SelectionSort_proofs, SequenceTheorems, FiniteSetTheorems

\* A connection that waits to be accepted was opened by a host.
BacklogHasPeers == \A k \in DOMAIN backlog : peer[backlog[k]] \in IPs

\* On a connection nobody opened nothing was written, so that the first frame
\* of a session is the first the server can read.
UnusedAreSilent == \A c \in Conns : peer[c] = NoIP => wrote[c] = <<>>

\* What the server's steps preserve by themselves.
CoreInv == /\ TypeOK
           /\ BacklogHasPeers
           /\ SocketsAreOpenDescriptors
           /\ OnlineHasLiveSocket

\* The inductive invariant.
IInv == CoreInv /\ UnusedAreSilent

-----------------------------------------------------------------------------
(* The helpers. *)

\* What operator[] does to the map: new keys get the default record, the
\* others keep theirs.
LEMMA TouchFacts ==
    ASSUME NEW m, NEW K, IsClientMap(m), K \subseteq Keys
    PROVE  /\ IsClientMap(Touch(m, K))
           /\ DOMAIN Touch(m, K) = DOMAIN m \cup K
           /\ \A k \in DOMAIN m : Touch(m, K)[k] = m[k]
           /\ \A k \in K \ DOMAIN m : Touch(m, K)[k] = DefaultClient
<1>1. DefaultClient \in clientobj
    BY DEF DefaultClient, clientobj, Keys
<1> QED BY <1>1 DEF IsClientMap, Touch

\* Touch creates no record that says online.
LEMMA TouchOnline ==
    ASSUME NEW m, NEW K, IsClientMap(m), K \subseteq Keys,
           NEW k \in DOMAIN Touch(m, K), Touch(m, K)[k].online = TRUE
    PROVE  k \in DOMAIN m /\ Touch(m, K)[k] = m[k]
<1>1. DefaultClient.online # TRUE
    BY ConstantsAssumption DEF DefaultClient
<1>2. /\ DOMAIN Touch(m, K) = DOMAIN m \cup K
      /\ \A h \in DOMAIN m : Touch(m, K)[h] = m[h]
      /\ \A h \in K \ DOMAIN m : Touch(m, K)[h] = DefaultClient
    BY ZenonT(60), TouchFacts
<1> QED BY <1>1, <1>2

\* A message repeated k times is a sequence of k of them.
LEMMA RepeatType ==
    ASSUME NEW S, NEW x \in S, NEW k \in Nat
    PROVE  Repeat(x, k) \in Seq(S) /\ Len(Repeat(x, k)) = k
BY DEF Repeat

\* Sending keeps the types of what it changes.
LEMMA TransmitType ==
    ASSUME NEW mail \in [Conns -> Seq(ServerFrame)], TypeOK, Transmit(mail)
    PROVE  /\ out' \in [Conns -> Seq(ServerFrame)]
           /\ reset' \in [Conns -> BOOLEAN]
           /\ alive' \in BOOLEAN
<1>1. \A c \in Conns : out[c] \o mail[c] \in Seq(ServerFrame)
    BY DEF TypeOK
<1>2. out' \in [Conns -> Seq(ServerFrame)]
    BY <1>1 DEF TypeOK, Transmit
<1>3. reset' \in [Conns -> BOOLEAN]
    BY DEF TypeOK, Transmit
<1>4. alive' \in BOOLEAN
    BY DEF Transmit
<1> QED BY <1>2, <1>3, <1>4

\* The entry the loop is at has a socket, an address and a connection.
LEMMA EntryFacts ==
    ASSUME CoreInv, NEW i \in DOMAIN clients_sockets
    PROVE  /\ Client(i).sock \in Fds
           /\ Sender(i) \in IPs
           /\ Wire(i) \in Conns
           /\ file[Client(i).sock] = Wire(i)
           /\ peer[Wire(i)] = Sender(i)
           /\ i \in Nat
<1>1. clients_sockets \in Seq(Entry)
    BY DEF CoreInv, TypeOK
<1>2. clients_sockets[i] \in Entry /\ i \in Nat
    BY <1>1
<1>3. file[clients_sockets[i].sock] # NoConn
    BY DEF CoreInv, SocketsAreOpenDescriptors
<1>4. file[clients_sockets[i].sock] \in Conns
    BY <1>2, <1>3 DEF CoreInv, TypeOK, Entry
<1>5. peer[Wire(i)] = clients_sockets[i].ip
    BY DEF CoreInv, SocketsAreOpenDescriptors
<1> QED BY <1>2, <1>4, <1>5 DEF Client, Sender, Wire, Entry

\* What a read takes was written, and is a frame of a client.
LEMMA ReadFrameFacts ==
    ASSUME CoreInv, NEW i \in DOMAIN clients_sockets, NEW type,
           ReadFrame(i, type)
    PROVE  /\ got' \in [Conns -> Nat]
           /\ \A c \in Conns : got'[c] <= Len(wrote[c])
           /\ scan' \in Nat
           /\ Received(i) \in ClientFrame \cup NewClient
           /\ Received(i).type = type
<1> DEFINE c == Wire(i)
<1>1. c \in Conns /\ i \in Nat
    BY EntryFacts
<1>2. /\ wrote[c] \in Seq(ClientFrame \cup NewClient)
      /\ got[c] \in Nat
      /\ got[c] < Len(wrote[c])
    BY <1>1 DEF CoreInv, TypeOK, ReadFrame
<1>3. PICK k \in (got[c] + 1) .. Len(wrote[c]) : got' = [got EXCEPT ![c] = k]
    BY DEF ReadFrame, Taken
<1>4. k \in Nat /\ k <= Len(wrote[c])
    BY <1>2, <1>3
<1>5. got' \in [Conns -> Nat] /\ \A d \in Conns : got'[d] <= Len(wrote[d])
    BY <1>1, <1>3, <1>4 DEF CoreInv, TypeOK
<1>6. scan' \in Nat
    BY <1>1 DEF ReadFrame
<1>7. wrote[c][got[c] + 1] \in ClientFrame \cup NewClient
    BY <1>2
<1> QED BY <1>5, <1>6, <1>7 DEF Received, ReadFrame

\* The map as the handlers get it from the head of the loop.
LEMMA FetchedFacts ==
    ASSUME CoreInv, NEW i \in DOMAIN clients_sockets
    PROVE  /\ IsClientMap(Fetched(i))
           /\ Sender(i) \in DOMAIN Fetched(i)
           /\ \A k \in DOMAIN Fetched(i) : Fetched(i)[k].online = TRUE =>
                 k \in DOMAIN clientMap /\ Fetched(i)[k] = clientMap[k]
<1>1. Sender(i) \in IPs
    BY EntryFacts
<1>2. IsClientMap(clientMap)
    BY DEF CoreInv, TypeOK
<1>3. {Sender(i)} \subseteq Keys
    BY <1>1 DEF Keys
<1>4. /\ IsClientMap(Fetched(i))
      /\ DOMAIN Fetched(i) = DOMAIN clientMap \cup {Sender(i)}
    BY <1>2, <1>3, TouchFacts DEF Fetched
<1>5. \A k \in DOMAIN Fetched(i) : Fetched(i)[k].online = TRUE =>
        k \in DOMAIN clientMap /\ Fetched(i)[k] = clientMap[k]
    BY <1>2, <1>3, TouchOnline DEF Fetched
<1> QED BY <1>4, <1>5

-----------------------------------------------------------------------------
(* What the operations do to clients_sockets. *)

\* vector::erase of one element.
LEMMA RemoveAtFacts ==
    ASSUME NEW S, NEW s \in Seq(S), NEW i \in 1 .. Len(s)
    PROVE  /\ RemoveAt(s, i) \in Seq(S)
           /\ DOMAIN RemoveAt(s, i) = 1 .. (Len(s) - 1)
           /\ \A k \in 1 .. (i - 1) : RemoveAt(s, i)[k] = s[k]
           /\ \A k \in i .. (Len(s) - 1) : RemoveAt(s, i)[k] = s[k + 1]
<1> DEFINE p == SubSeq(s, 1, i - 1)
           q == SubSeq(s, i + 1, Len(s))
<1>1. Len(s) \in Nat /\ \A k \in 1 .. Len(s) : s[k] \in S
    OBVIOUS
<1>2. /\ p \in Seq(S) /\ Len(p) = i - 1
      /\ \A k \in 1 .. (i - 1) : p[k] = s[k]
    BY <1>1, SubSeqProperties
<1>3. /\ q \in Seq(S) /\ Len(q) = Len(s) - i
      /\ \A k \in 1 .. (Len(s) - i) : q[k] = s[i + k]
    BY <1>1, SubSeqProperties
<1> HIDE DEF p, q
<1>4. /\ p \o q \in Seq(S) /\ Len(p \o q) = Len(s) - 1
      /\ \A k \in 1 .. (Len(s) - 1) :
            (p \o q)[k] = IF k <= i - 1 THEN p[k] ELSE q[k - (i - 1)]
  <2>1. /\ p \o q \in Seq(S) /\ Len(p \o q) = Len(p) + Len(q)
        /\ \A k \in 1 .. (Len(p) + Len(q)) :
              (p \o q)[k] = IF k <= Len(p) THEN p[k] ELSE q[k - Len(p)]
    BY <1>2, <1>3, ConcatProperties
  <2>2. Len(p) = i - 1 /\ Len(p) + Len(q) = Len(s) - 1
    BY <1>1, <1>2, <1>3
  <2> QED BY <2>1, <2>2
<1>5. \A k \in 1 .. (i - 1) : (p \o q)[k] = s[k]
    BY <1>1, <1>2, <1>4
<1>6. \A k \in i .. (Len(s) - 1) : (p \o q)[k] = s[k + 1]
    BY <1>1, <1>3, <1>4
<1>7. RemoveAt(s, i) = p \o q
    BY DEF RemoveAt, p, q
<1>8. DOMAIN (p \o q) = 1 .. (Len(s) - 1)
    BY <1>4
<1> QED BY <1>4, <1>5, <1>6, <1>7, <1>8

\* No two entries have the same descriptor.
DistinctSocks(s) == \A k, l \in DOMAIN s : s[k].sock = s[l].sock => k = l

\* In a list with distinct descriptors, erase() takes away one entry and no
\* other.
LEMMA RemoveEntry ==
    ASSUME NEW s \in Seq(Entry), DistinctSocks(s), NEW i \in DOMAIN s
    PROVE  /\ RemoveAt(s, i) \in Seq(Entry)
           /\ DistinctSocks(RemoveAt(s, i))
           /\ Range(RemoveAt(s, i)) = Range(s) \ {s[i]}
<1> DEFINE t == RemoveAt(s, i)
<1>1. i \in 1 .. Len(s) /\ Len(s) \in Nat /\ DOMAIN s = 1 .. Len(s)
    OBVIOUS
<1>2. /\ t \in Seq(Entry)
      /\ DOMAIN t = 1 .. (Len(s) - 1)
      /\ \A k \in 1 .. (i - 1) : t[k] = s[k]
      /\ \A k \in i .. (Len(s) - 1) : t[k] = s[k + 1]
    BY <1>1, RemoveAtFacts
<1> HIDE DEF t
<1>3. \A k \in DOMAIN t : \E h \in DOMAIN s :
          /\ h = IF k < i THEN k ELSE k + 1
          /\ t[k] = s[h] /\ h # i
    BY <1>1, <1>2
<1>4. DistinctSocks(t)
  <2> SUFFICES ASSUME NEW k \in DOMAIN t, NEW l \in DOMAIN t,
                      t[k].sock = t[l].sock
               PROVE  k = l
    BY DEF DistinctSocks
  <2>1. PICK h \in DOMAIN s : /\ h = IF k < i THEN k ELSE k + 1
                              /\ t[k] = s[h]
    BY <1>3
  <2>2. PICK g \in DOMAIN s : /\ g = IF l < i THEN l ELSE l + 1
                              /\ t[l] = s[g]
    BY <1>3
  <2>3. h = g
    BY <2>1, <2>2 DEF DistinctSocks
  <2> QED BY <1>1, <1>2, <2>1, <2>2, <2>3
<1>5. Range(t) \subseteq Range(s) \ {s[i]}
    BY <1>3 DEF Range, DistinctSocks
<1>6. \A h \in DOMAIN s : h # i => \E k \in DOMAIN t : t[k] = s[h]
  <2> SUFFICES ASSUME NEW h \in DOMAIN s, h # i
               PROVE  \E k \in DOMAIN t : t[k] = s[h]
    OBVIOUS
  <2>1. CASE h < i
    BY <1>1, <1>2, <2>1
  <2>2. CASE h > i
    <3>1. h - 1 \in i .. (Len(s) - 1) /\ h - 1 \in DOMAIN t
      BY <1>1, <1>2, <2>2
    <3>2. t[h - 1] = s[(h - 1) + 1]
      BY <1>2, <3>1
    <3> QED BY <1>1, <3>1, <3>2
  <2> QED BY <1>1, <2>1, <2>2
<1>7. Range(s) \ {s[i]} \subseteq Range(t)
    BY <1>6 DEF Range
<1> QED BY <1>2, <1>4, <1>5, <1>7 DEF t

\* Sorting keeps every entry, and their descriptors distinct.
LEMMA RearrangeEntries ==
    ASSUME NEW s \in Seq(Entry), DistinctSocks(s),
           NEW order \in Rearrangements(Len(s)),
           NEW t, t = [k \in 1 .. Len(s) |-> s[order[k]]]
    PROVE  t \in Seq(Entry) /\ DistinctSocks(t) /\ Range(t) = Range(s)
<1>1. Len(s) \in Nat /\ DOMAIN s = 1 .. Len(s)
    OBVIOUS
<1>2. /\ order \in [1 .. Len(s) -> 1 .. Len(s)]
      /\ \A x, y \in 1 .. Len(s) : order[x] = order[y] => x = y
      /\ \A y \in 1 .. Len(s) : \E x \in 1 .. Len(s) : order[x] = y
    BY DEF Rearrangements, Orders
<1>3. \A k \in 1 .. Len(s) : s[order[k]] \in Entry
    BY <1>1, <1>2
<1>4. t \in Seq(Entry) /\ DOMAIN t = 1 .. Len(s)
    BY <1>1, <1>3
<1>5. \A k \in 1 .. Len(s) : t[k] = s[order[k]] /\ order[k] \in DOMAIN s
    BY <1>1, <1>2
<1>6. DistinctSocks(t)
  <2> SUFFICES ASSUME NEW k \in 1 .. Len(s), NEW l \in 1 .. Len(s),
                      t[k].sock = t[l].sock
               PROVE  k = l
    BY <1>4 DEF DistinctSocks
  <2>1. s[order[k]].sock = s[order[l]].sock
    BY <1>5
  <2>2. order[k] = order[l]
    BY <1>5, <2>1 DEF DistinctSocks
  <2> QED BY <1>2, <2>2
<1>7. Range(t) \subseteq Range(s)
    BY <1>4, <1>5 DEF Range
<1>8. \A y \in DOMAIN s : \E x \in DOMAIN t : t[x] = s[y]
    BY <1>1, <1>2, <1>4, <1>5
<1>9. Range(s) \subseteq Range(t)
    BY <1>8 DEF Range
<1> QED BY <1>4, <1>6, <1>7, <1>9

\* push_back of a client with a new descriptor.
LEMMA AppendEntry ==
    ASSUME NEW s \in Seq(Entry), DistinctSocks(s), NEW e \in Entry,
           \A k \in DOMAIN s : s[k].sock # e.sock
    PROVE  /\ Append(s, e) \in Seq(Entry)
           /\ DistinctSocks(Append(s, e))
           /\ Range(Append(s, e)) = Range(s) \cup {e}
<1> DEFINE t == Append(s, e)
<1>1. /\ t \in Seq(Entry) /\ Len(t) = Len(s) + 1 /\ Len(s) \in Nat
      /\ \A k \in 1 .. Len(s) : t[k] = s[k]
      /\ t[Len(s) + 1] = e
    OBVIOUS
<1>2. DOMAIN s = 1 .. Len(s) /\ DOMAIN t = 1 .. (Len(s) + 1)
    BY <1>1
<1> HIDE DEF t
<1>3. DistinctSocks(t)
    BY <1>1, <1>2 DEF DistinctSocks
<1>4. Range(t) \subseteq Range(s) \cup {e}
    BY <1>1, <1>2 DEF Range
<1>5. Range(s) \cup {e} \subseteq Range(t)
    BY <1>1, <1>2 DEF Range
<1> QED BY <1>1, <1>3, <1>4, <1>5 DEF t

-----------------------------------------------------------------------------
(* The invariants in terms of the set of entries. *)

SocketsByEntry ==
    /\ DistinctSocks(clients_sockets)
    /\ {e.sock : e \in Range(clients_sockets)}
          = {fd \in Fds : file[fd] # NoConn}
    /\ \A e \in Range(clients_sockets) : peer[file[e.sock]] = e.ip

\* SocketsAreOpenDescriptors, said of the set of entries.
LEMMA SocketsAsRange == SocketsAreOpenDescriptors <=> SocketsByEntry
<1>1. {clients_sockets[k].sock : k \in DOMAIN clients_sockets}
          = {e.sock : e \in Range(clients_sockets)}
    BY DEF Range
<1>2. (\A k \in DOMAIN clients_sockets : peer[Wire(k)] = clients_sockets[k].ip)
          <=> \A e \in Range(clients_sockets) : peer[file[e.sock]] = e.ip
    BY DEF Range, Wire
<1> QED BY <1>1, <1>2 DEF SocketsAreOpenDescriptors, DistinctSocks,
                           SocketsByEntry

\* The record a host's online status and socket are in, if it says online.
OnlineIn(m, entries) ==
    \A k \in DOMAIN m :
        m[k].online = TRUE => [sock |-> m[k].sock, ip |-> k] \in entries

\* OnlineHasLiveSocket, said of the set of entries.
LEMMA OnlineAsRange ==
    OnlineHasLiveSocket <=> OnlineIn(clientMap, Range(clients_sockets))
<1>1. \A x : x \in Range(clients_sockets) <=>
                 \E i \in DOMAIN clients_sockets : clients_sockets[i] = x
    BY DEF Range
<1> QED BY <1>1 DEF OnlineHasLiveSocket, OnlineIn

EInv == /\ TypeOK
        /\ BacklogHasPeers
        /\ SocketsByEntry
        /\ OnlineIn(clientMap, Range(clients_sockets))

\* The invariant, said of the set of entries.
LEMMA InvByEntry == CoreInv <=> EInv
BY SocketsAsRange, OnlineAsRange DEF CoreInv, EInv

\* Records that keep their status and socket keep pointing at their entries.
LEMMA OnlineKept ==
    ASSUME NEW m, NEW n, NEW R, OnlineIn(m, R),
           \A k \in DOMAIN n : n[k].online = TRUE =>
               k \in DOMAIN m /\ m[k].online = TRUE /\ m[k].sock = n[k].sock
    PROVE  OnlineIn(n, R)
BY DEF OnlineIn

\* A step that leaves clients_sockets, the descriptors and the clients' ends
\* alone, and puts nobody online.
LEMMA QuietStep ==
    ASSUME CoreInv, TypeOK',
           UNCHANGED <<peer, file, backlog, clients_sockets>>,
           OnlineIn(clientMap', Range(clients_sockets))
    PROVE  CoreInv'
<1>1. EInv
    BY InvByEntry
<1>2. EInv'
    BY <1>1 DEF EInv, SocketsByEntry, BacklogHasPeers
<1>3. CoreInv' <=> EInv'
    BY InvByEntry, PTL
<1> QED BY <1>2, <1>3

-----------------------------------------------------------------------------
(* The handlers that end a session. *)

\* logClientOut, called for the entry the loop is at, keeps the invariant,
\* whether that host's record is erased afterwards or not.
LEMMA LogOutStep ==
    ASSUME CoreInv, NEW i \in DOMAIN clients_sockets,
           NEW K \in SUBSET {Sender(i)},
           logClientOut(Client(i).sock, Fetched(i), K),
           got' \in [Conns -> Nat],
           \A c \in Conns : got'[c] <= Len(wrote[c]),
           scan' \in Nat
    PROVE  CoreInv'
<1> DEFINE e == clients_sockets[i]
           R == Range(clients_sockets)
           ip == Sender(i)
           n == Touch(Fetched(i), {ip})
<1>1. EInv
    BY InvByEntry
<1>2. /\ clients_sockets \in Seq(Entry)
      /\ DistinctSocks(clients_sockets)
      /\ file \in [Fds -> Conns \cup {NoConn}]
      /\ {x.sock : x \in R} = {fd \in Fds : file[fd] # NoConn}
      /\ \A x \in R : peer[file[x.sock]] = x.ip
      /\ OnlineIn(clientMap, R)
    BY <1>1 DEF EInv, TypeOK, SocketsByEntry
<1>3. /\ e.sock \in Fds /\ e.ip = ip /\ ip \in IPs /\ e \in R
      /\ Client(i).sock = e.sock
    BY EntryFacts DEF Client, Sender, Range
<1>4. PICK k \in DOMAIN clients_sockets :
        /\ clients_sockets[k].sock = e.sock
        /\ clientMap' = [h \in DOMAIN Touch(Fetched(i),
                                            {clients_sockets[k].ip}) \ K |->
              IF h = clients_sockets[k].ip
              THEN LoggedOut(Touch(Fetched(i), {clients_sockets[k].ip})[h])
              ELSE Touch(Fetched(i), {clients_sockets[k].ip})[h]]
        /\ clients_sockets' = RemoveAt(clients_sockets, k)
        /\ file' = [file EXCEPT ![e.sock] = NoConn]
        /\ ready' = ready \ {e.sock}
        /\ UNCHANGED <<netVars, backlog, out, reset, alive>>
    BY <1>3 DEF logClientOut, Closed
<1>5. k = i
    BY <1>2, <1>4 DEF DistinctSocks
<1>6. clientMap' = [h \in DOMAIN n \ K |->
                       IF h = ip THEN LoggedOut(n[h]) ELSE n[h]]
    BY <1>3, <1>4, <1>5
<1>7. /\ clients_sockets' \in Seq(Entry)
      /\ DistinctSocks(clients_sockets')
      /\ Range(clients_sockets') = R \ {e}
    BY <1>2, <1>4, <1>5, RemoveEntry
<1>8. /\ IsClientMap(n)
      /\ \A h \in DOMAIN n : n[h].online = TRUE =>
            h \in DOMAIN clientMap /\ n[h] = clientMap[h]
  <2>1. {ip} \subseteq Keys
    BY <1>3 DEF Keys
  <2>2. /\ IsClientMap(Fetched(i))
        /\ \A h \in DOMAIN Fetched(i) : Fetched(i)[h].online = TRUE =>
              h \in DOMAIN clientMap /\ Fetched(i)[h] = clientMap[h]
    BY FetchedFacts
  <2>3. IsClientMap(n)
    BY <2>1, <2>2, TouchFacts
  <2>4. \A h \in DOMAIN n : n[h].online = TRUE =>
            h \in DOMAIN Fetched(i) /\ n[h] = Fetched(i)[h]
    BY <2>1, <2>2, TouchOnline
  <2> QED BY <2>2, <2>3, <2>4
<1> HIDE DEF n
<1>9. IsClientMap(clientMap')
  <2>1. \A r \in clientobj : LoggedOut(r) \in clientobj
    BY DEF clientobj, LoggedOut
  <2> QED BY <1>6, <1>8, <2>1 DEF IsClientMap
<1>10. OnlineIn(clientMap', R \ {e})
  <2> SUFFICES ASSUME NEW h \in DOMAIN clientMap',
                      clientMap'[h].online = TRUE
               PROVE  [sock |-> clientMap'[h].sock, ip |-> h] \in R \ {e}
    BY DEF OnlineIn
  <2>1. h \in DOMAIN n /\ n[h] \in clientobj
    BY <1>6, <1>8 DEF IsClientMap
  <2>2. h # ip
    BY <1>6, <2>1 DEF clientobj, LoggedOut
  <2>3. clientMap'[h] = n[h] /\ h \in DOMAIN clientMap /\ n[h] = clientMap[h]
    BY <1>6, <1>8, <2>1, <2>2
  <2>4. [sock |-> clientMap'[h].sock, ip |-> h] \in R
    BY <1>2, <2>3 DEF OnlineIn
  <2> QED BY <1>3, <2>2, <2>4
<1>11. \A x \in R \ {e} : x.sock # e.sock
    BY <1>2 DEF Range, DistinctSocks
<1>12. {x.sock : x \in R \ {e}} = {fd \in Fds : file'[fd] # NoConn}
    BY <1>2, <1>3, <1>4, <1>11
<1>13. \A x \in R : x.sock \in Fds
    BY <1>2
<1>14. \A x \in R \ {e} : peer'[file'[x.sock]] = x.ip
    BY <1>2, <1>4, <1>11, <1>13 DEF netVars
<1>15. SocketsByEntry'
    BY <1>7, <1>12, <1>14 DEF SocketsByEntry
<1>16. TypeOK'
    BY <1>1, <1>3, <1>4, <1>7, <1>9 DEF EInv, TypeOK, netVars
<1>17. BacklogHasPeers'
    BY <1>1, <1>4 DEF EInv, BacklogHasPeers, netVars
<1>18. EInv'
    BY <1>7, <1>10, <1>15, <1>16, <1>17 DEF EInv
<1>19. CoreInv' <=> EInv'
    BY InvByEntry, PTL
<1> QED BY <1>18, <1>19

\* LOGOUT keeps the invariant.
LEMMA LogoutInv ==
    ASSUME CoreInv, NEW i \in DOMAIN clients_sockets, parseLOGOUT(i)
    PROVE  CoreInv'
<1>1. ReadFrame(i, "LOGOUT") /\ logClientOut(Client(i).sock, Fetched(i), {})
    BY DEF parseLOGOUT
<1>2. /\ got' \in [Conns -> Nat]
      /\ \A c \in Conns : got'[c] <= Len(wrote[c])
      /\ scan' \in Nat
    BY <1>1, ReadFrameFacts
<1>3. {} \in SUBSET {Sender(i)}
    OBVIOUS
<1> QED BY <1>1, <1>2, <1>3, LogOutStep

\* The end of a connection keeps the invariant.
LEMMA ExitInv ==
    ASSUME CoreInv, NEW i \in DOMAIN clients_sockets, parseEXIT(i)
    PROVE  CoreInv'
<1>1. logClientOut(Client(i).sock, Fetched(i), {Sender(i)})
    BY DEF parseEXIT
<1>2. /\ got' \in [Conns -> Nat]
      /\ \A c \in Conns : got'[c] <= Len(wrote[c])
      /\ scan' \in Nat
    BY EntryFacts DEF parseEXIT, ReadEOF, CoreInv, TypeOK
<1> QED BY <1>1, <1>2, LogOutStep

-----------------------------------------------------------------------------
(* A session begins. *)

\* A record's store makes a frame the server may send.
LEMMA BacklogType ==
    ASSUME NEW msgs \in Seq(NewMessage)
    PROVE  [type |-> "BACKLOGGED_MESSAGES", msgs |-> msgs] \in ServerFrame
BY DEF ServerFrame

\* One frame for one connection is mail.
LEMMA OneMail ==
    ASSUME NEW c \in Conns, NEW f \in ServerFrame
    PROVE  [NoMail EXCEPT ![c] = <<f>>] \in [Conns -> Seq(ServerFrame)]
<1>1. <<>> \in Seq(ServerFrame) /\ <<f>> \in Seq(ServerFrame)
    OBVIOUS
<1> QED BY <1>1 DEF NoMail

\* Counting received messages leaves a record a record.
LEMMA CountReceived ==
    ASSUME NEW r \in clientobj, NEW k \in Nat
    PROVE  [r EXCEPT !.msgsrecvd = @ + k] \in clientobj
BY DEF clientobj

\* A record put online is a record and names the new descriptor.
LEMMA SetOnline ==
    ASSUME NEW r \in clientobj, NEW fd \in Fds
    PROVE  LoggedIn(r, fd) \in clientobj /\ LoggedIn(r, fd).sock = fd
<1> DEFINE k == Len(r.storedMessages)
<1>k. k \in Nat
    BY DEF clientobj
<1> HIDE DEF k
<1>1. [r EXCEPT !.online = TRUE, !.sock = fd] \in clientobj
    BY DEF clientobj
<1>2. [[r EXCEPT !.online = TRUE, !.sock = fd] EXCEPT !.msgsrecvd = @ + k]
          \in clientobj
    BY <1>1, <1>k, CountReceived
<1>3. [r EXCEPT !.online = TRUE, !.sock = fd, !.msgsrecvd = @ + k] =
          [[r EXCEPT !.online = TRUE, !.sock = fd] EXCEPT !.msgsrecvd = @ + k]
    OBVIOUS
<1>4. [r EXCEPT !.online = TRUE, !.sock = fd, !.msgsrecvd = @ + k].sock = fd
    BY DEF clientobj
<1> QED BY <1>2, <1>3, <1>4 DEF LoggedIn, k

\* So is, and does, the record of a host that is new.
LEMMA NewRecord ==
    ASSUME NEW ip \in IPs, NEW fd \in Fds
    PROVE  /\ [DefaultClient EXCEPT !.sock = fd, !.ip = ip, !.online = TRUE]
                 \in clientobj
           /\ [DefaultClient EXCEPT !.sock = fd, !.ip = ip,
                                    !.online = TRUE].sock = fd
<1>1. DefaultClient \in clientobj
    BY DEF clientobj, DefaultClient, Keys
<1>2. \A q \in clientobj : /\ [q EXCEPT !.sock = fd, !.ip = ip] \in clientobj
                           /\ [q EXCEPT !.sock = fd, !.ip = ip].sock = fd
    BY DEF clientobj, Keys
<1>3. \A q \in clientobj : /\ [q EXCEPT !.online = TRUE] \in clientobj
                           /\ [q EXCEPT !.online = TRUE].sock = q.sock
    BY DEF clientobj
<1>4. [DefaultClient EXCEPT !.sock = fd, !.ip = ip, !.online = TRUE] =
          [[DefaultClient EXCEPT !.sock = fd, !.ip = ip] EXCEPT !.online = TRUE]
    OBVIOUS
<1> HIDE DEF DefaultClient
<1> QED BY <1>1, <1>2, <1>3, <1>4

\* accept() and addClient keep the invariant.
LEMMA AcceptInv == ASSUME CoreInv, Accept PROVE CoreInv'
<1> DEFINE c == Head(backlog)
           ip == peer[c]
           R == Range(clients_sockets)
           stored == clientMap[ip].storedMessages
<1>1. EInv
    BY InvByEntry
<1>2. /\ clients_sockets \in Seq(Entry)
      /\ DistinctSocks(clients_sockets)
      /\ file \in [Fds -> Conns \cup {NoConn}]
      /\ {x.sock : x \in R} = {fd \in Fds : file[fd] # NoConn}
      /\ \A x \in R : peer[file[x.sock]] = x.ip
      /\ OnlineIn(clientMap, R)
      /\ backlog \in Seq(Conns)
      /\ IsClientMap(clientMap)
      /\ TypeOK
    BY <1>1 DEF EInv, TypeOK, SocketsByEntry
<1>3. /\ backlog # <<>> /\ backlog' = Tail(backlog)
      /\ UNCHANGED <<netVars, got, scan, ready>>
    BY DEF Accept
<1>4. /\ c \in Conns /\ 1 \in DOMAIN backlog /\ c = backlog[1]
      /\ backlog' \in Seq(Conns)
      /\ DOMAIN backlog' = 1 .. (Len(backlog) - 1)
      /\ \A k \in DOMAIN backlog' : /\ k + 1 \in DOMAIN backlog
                                    /\ backlog'[k] = backlog[k + 1]
    BY <1>2, <1>3
<1>5. ip \in IPs
    BY <1>1, <1>4 DEF EInv, BacklogHasPeers
<1>6. PICK fd \in Fds :
        /\ file[fd] = NoConn
        /\ file' = [file EXCEPT ![fd] = c]
        /\ clients_sockets' = Append(clients_sockets, [sock |-> fd, ip |-> ip])
        /\ \/ /\ ip \in DOMAIN clientMap
              /\ clientMap' = [clientMap EXCEPT ![ip] = LoggedIn(@, fd)]
              /\ Transmit([NoMail EXCEPT ![c] =
                     <<[type |-> "BACKLOGGED_MESSAGES", msgs |-> stored]>>])
           \/ /\ ip \notin DOMAIN clientMap
              /\ clientMap' = [k \in DOMAIN clientMap \cup {ip} |->
                     IF k = ip
                     THEN [DefaultClient EXCEPT !.sock = fd,
                                                !.ip = ip,
                                                !.online = TRUE]
                     ELSE clientMap[k]]
              /\ UNCHANGED <<out, reset, alive>>
    BY DEF Accept
<1> DEFINE e == [sock |-> fd, ip |-> ip]
<1>7. e \in Entry /\ \A k \in DOMAIN clients_sockets :
                         clients_sockets[k].sock # e.sock
  <2>1. \A k \in DOMAIN clients_sockets :
            clients_sockets[k].sock \in {x.sock : x \in R}
    BY DEF Range
  <2>2. fd \notin {x.sock : x \in R}
    BY <1>2, <1>6
  <2> QED BY <1>5, <2>1, <2>2 DEF Entry
<1>8. /\ clients_sockets' \in Seq(Entry)
      /\ DistinctSocks(clients_sockets')
      /\ Range(clients_sockets') = R \cup {e}
    BY <1>2, <1>6, <1>7, AppendEntry
<1>9. /\ IsClientMap(clientMap')
      /\ OnlineIn(clientMap', R \cup {e})
      /\ out' \in [Conns -> Seq(ServerFrame)]
      /\ reset' \in [Conns -> BOOLEAN]
      /\ alive' \in BOOLEAN
  <2>1. CASE ip \in DOMAIN clientMap
    <3>1. clientMap[ip] \in clientobj
      BY <1>2, <2>1 DEF IsClientMap
    <3>2. stored \in Seq(NewMessage) /\ Len(stored) \in Nat
      BY <3>1 DEF clientobj
    <3>3. /\ DOMAIN clientMap' = DOMAIN clientMap
          /\ clientMap'[ip] = LoggedIn(clientMap[ip], fd)
          /\ \A k \in DOMAIN clientMap : k # ip => clientMap'[k] = clientMap[k]
      BY <1>6, <2>1
    <3>4. clientMap'[ip] \in clientobj /\ clientMap'[ip].sock = fd
      BY <3>1, <3>3, SetOnline
    <3>5. IsClientMap(clientMap')
      BY <1>2, <3>3, <3>4 DEF IsClientMap
    <3>6. OnlineIn(clientMap', R \cup {e})
      BY <1>2, <3>3, <3>4 DEF OnlineIn
    <3>7. Transmit([NoMail EXCEPT ![c] =
              <<[type |-> "BACKLOGGED_MESSAGES", msgs |-> stored]>>])
      BY <1>6, <2>1
    <3>8. [type |-> "BACKLOGGED_MESSAGES", msgs |-> stored] \in ServerFrame
      BY <3>2, BacklogType
    <3>9. [NoMail EXCEPT ![c] =
              <<[type |-> "BACKLOGGED_MESSAGES", msgs |-> stored]>>]
                 \in [Conns -> Seq(ServerFrame)]
      BY <1>4, <3>8, OneMail
    <3>10. /\ out' \in [Conns -> Seq(ServerFrame)]
           /\ reset' \in [Conns -> BOOLEAN]
           /\ alive' \in BOOLEAN
      BY <1>2, <3>7, <3>9, TransmitType
    <3> QED BY <3>5, <3>6, <3>10
  <2>2. CASE ip \notin DOMAIN clientMap
    <3>1. /\ DOMAIN clientMap' = DOMAIN clientMap \cup {ip}
          /\ clientMap'[ip] = [DefaultClient EXCEPT
                                  !.sock = fd, !.ip = ip, !.online = TRUE]
          /\ \A k \in DOMAIN clientMap : clientMap'[k] = clientMap[k]
      BY <1>6, <2>2
    <3>2. clientMap'[ip] \in clientobj /\ clientMap'[ip].sock = fd
      <4> DEFINE r == [DefaultClient EXCEPT !.sock = fd, !.ip = ip,
                                            !.online = TRUE]
      <4>1. r \in clientobj /\ r.sock = fd
        BY <1>5, NewRecord
      <4> QED BY <3>1, <4>1
    <3>3. IsClientMap(clientMap')
      BY <1>2, <1>5, <3>1, <3>2 DEF IsClientMap, Keys
    <3>4. OnlineIn(clientMap', R \cup {e})
      BY <1>2, <3>1, <3>2 DEF OnlineIn
    <3> QED BY <1>2, <1>6, <2>2, <3>3, <3>4 DEF TypeOK
  <2> QED BY <2>1, <2>2
<1>10. file' \in [Fds -> Conns \cup {NoConn}]
    BY <1>2, <1>4, <1>6
<1>11. NoConn \notin Conns
    BY ConstantsAssumption
<1>12. {x.sock : x \in R \cup {e}} = {g \in Fds : file'[g] # NoConn}
    BY <1>2, <1>4, <1>6, <1>11
<1>13. \A x \in R : x.sock \in Fds /\ x.sock # fd
    BY <1>2, <1>6
<1>14. \A x \in R \cup {e} : peer'[file'[x.sock]] = x.ip
    BY <1>2, <1>3, <1>6, <1>13 DEF netVars
<1>15. SocketsByEntry'
    BY <1>8, <1>12, <1>14 DEF SocketsByEntry
<1>16. TypeOK'
    BY <1>2, <1>3, <1>4, <1>8, <1>9, <1>10 DEF TypeOK, netVars
<1>17. BacklogHasPeers'
    BY <1>1, <1>3, <1>4 DEF EInv, BacklogHasPeers, netVars
<1>18. EInv'
    BY <1>8, <1>9, <1>15, <1>16, <1>17 DEF EInv
<1>19. CoreInv' <=> EInv'
    BY InvByEntry, PTL
<1> QED BY <1>18, <1>19

-----------------------------------------------------------------------------
(* The client list. *)

\* getListOfClients creates records, none of them online, and reorders the
\* entries.
LEMMA ListFacts ==
    ASSUME CoreInv, NEW m, IsClientMap(m),
           OnlineIn(m, Range(clients_sockets)), getListOfClients(m)
    PROVE  /\ IsClientMap(clientMap')
           /\ OnlineIn(clientMap', Range(clients_sockets))
           /\ clients_sockets' \in Seq(Entry)
           /\ DistinctSocks(clients_sockets')
           /\ Range(clients_sockets') = Range(clients_sockets)
<1>1. clients_sockets \in Seq(Entry) /\ DistinctSocks(clients_sockets)
    BY InvByEntry DEF EInv, TypeOK, SocketsByEntry
<1>2. Listed \subseteq Keys
  <2>1. \A k \in DOMAIN clients_sockets : clients_sockets[k] \in Entry
    BY <1>1
  <2> QED BY <2>1 DEF Listed, Entry, Keys
<1>3. clientMap' = Touch(m, Listed)
    BY DEF getListOfClients
<1>4. IsClientMap(clientMap')
    BY <1>2, <1>3, TouchFacts
<1>5. \A k \in DOMAIN Touch(m, Listed) : Touch(m, Listed)[k].online = TRUE =>
          k \in DOMAIN m /\ Touch(m, Listed)[k] = m[k]
    BY <1>2, TouchOnline
<1>6. OnlineIn(clientMap', Range(clients_sockets))
    BY <1>3, <1>5 DEF OnlineIn
<1>7. PICK order \in Rearrangements(Len(clients_sockets)) :
          clients_sockets' = [k \in 1 .. Len(clients_sockets) |->
                                 clients_sockets[order[k]]]
  <2> DEFINE N == Len(clients_sockets)
             Ranks(f) == [k \in 1 .. N |-> f[clients_sockets[k].ip]]
  <2>1. PICK f \in [Listed -> Ports] :
            clients_sockets' = [k \in 1 .. N |->
                clients_sockets[selectionSortArray(Ranks(f))[k]]]
    BY DEF getListOfClients
  <2>2. N \in Nat /\ Len(Ranks(f)) = N
    BY <1>1
  <2> HIDE DEF Ranks
  <2>3. selectionSortArray(Ranks(f)) \in Rearrangements(N)
    BY <2>2, SortRearranges
  <2> QED BY <2>1, <2>3
<1>8. /\ clients_sockets' \in Seq(Entry)
      /\ DistinctSocks(clients_sockets')
      /\ Range(clients_sockets') = Range(clients_sockets)
    BY <1>1, <1>7, RearrangeEntries
<1> QED BY <1>4, <1>6, <1>8

\* A step that at most reorders clients_sockets and puts nobody online.
LEMMA ReorderStep ==
    ASSUME CoreInv, TypeOK', UNCHANGED <<peer, file, backlog>>,
           DistinctSocks(clients_sockets'),
           Range(clients_sockets') = Range(clients_sockets),
           OnlineIn(clientMap', Range(clients_sockets))
    PROVE  CoreInv'
<1>1. EInv
    BY InvByEntry
<1>2. EInv'
    BY <1>1 DEF EInv, SocketsByEntry, BacklogHasPeers
<1>3. CoreInv' <=> EInv'
    BY InvByEntry, PTL
<1> QED BY <1>2, <1>3

\* Frames for one descriptor are mail.
LEMMA FramesType ==
    ASSUME NEW fd, NEW fs \in Seq(ServerFrame)
    PROVE  Frames(fd, fs) \in [Conns -> Seq(ServerFrame)]
<1>1. <<>> \in Seq(ServerFrame)
    OBVIOUS
<1> QED BY <1>1 DEF Frames

\* sendListAndIPs, with its sort of the entries and its lookups, keeps the
\* invariant.
LEMMA SendListStep ==
    ASSUME CoreInv, NEW i \in DOMAIN clients_sockets, NEW m, IsClientMap(m),
           OnlineIn(m, Range(clients_sockets)), sendListAndIPs(i, m),
           got' \in [Conns -> Nat],
           \A c \in Conns : got'[c] <= Len(wrote[c]),
           scan' \in Nat
    PROVE  CoreInv'
<1> DEFINE ips == [k \in DOMAIN clients_sockets' |-> clients_sockets'[k].ip]
           f == [type |-> "NEWLIST", ips |-> ips]
<1>1. /\ getListOfClients(m)
      /\ Transmit(Frames(Client(i).sock, <<f>>))
      /\ UNCHANGED <<netVars, backlog, file, ready>>
    BY DEF sendListAndIPs
<1>2. /\ IsClientMap(clientMap')
      /\ OnlineIn(clientMap', Range(clients_sockets))
      /\ clients_sockets' \in Seq(Entry)
      /\ DistinctSocks(clients_sockets')
      /\ Range(clients_sockets') = Range(clients_sockets)
    BY <1>1, ListFacts
<1>3. ips \in Seq(IPs)
  <2>1. \A k \in DOMAIN clients_sockets' : clients_sockets'[k] \in Entry
    BY <1>2
  <2>2. \A k \in DOMAIN clients_sockets' : clients_sockets'[k].ip \in IPs
    BY <2>1 DEF Entry
  <2> QED BY <1>2, <2>2
<1>4. f \in ServerFrame
    BY <1>3 DEF ServerFrame
<1> HIDE DEF f
<1>5. <<f>> \in Seq(ServerFrame)
    BY <1>4
<1>6. TypeOK
    BY DEF CoreInv
<1>7. /\ out' \in [Conns -> Seq(ServerFrame)]
      /\ reset' \in [Conns -> BOOLEAN]
      /\ alive' \in BOOLEAN
    BY <1>1, <1>5, <1>6, FramesType, TransmitType
<1>8. TypeOK'
    BY <1>1, <1>2, <1>6, <1>7 DEF TypeOK, netVars
<1> QED BY <1>1, <1>2, <1>8, ReorderStep DEF netVars

\* The map at the head of the loop puts nobody online.
LEMMA FetchedOnline ==
    ASSUME CoreInv, NEW i \in DOMAIN clients_sockets
    PROVE  OnlineIn(Fetched(i), Range(clients_sockets))
<1>1. OnlineIn(clientMap, Range(clients_sockets))
    BY InvByEntry DEF EInv
<1> QED BY <1>1, FetchedFacts DEF OnlineIn

\* REFRESH keeps the invariant.
LEMMA RefreshInv ==
    ASSUME CoreInv, NEW i \in DOMAIN clients_sockets, parseREFRESH(i)
    PROVE  CoreInv'
<1>1. ReadFrame(i, "REFRESH") /\ sendListAndIPs(i, Fetched(i))
    BY DEF parseREFRESH
<1>2. /\ got' \in [Conns -> Nat]
      /\ \A c \in Conns : got'[c] <= Len(wrote[c])
      /\ scan' \in Nat
    BY <1>1, ReadFrameFacts
<1> QED BY <1>1, <1>2, FetchedFacts, FetchedOnline, SendListStep

\* The map once the port is saved.
LEMMA NewClientMap ==
    ASSUME CoreInv, NEW i \in DOMAIN clients_sockets, ReadFrame(i, "NEWCLIENT"),
           NEW m, m = [Fetched(i) EXCEPT ![Sender(i)].port = Received(i).port]
    PROVE  IsClientMap(m) /\ OnlineIn(m, Range(clients_sockets))
<1>1. /\ Received(i) \in ClientFrame \cup NewClient
      /\ Received(i).type = "NEWCLIENT"
    BY ReadFrameFacts
<1>2. Received(i).port \in Ports
    BY <1>1 DEF ClientFrame, NewClient
<1>3. \A r \in clientobj : /\ [r EXCEPT !.port = Received(i).port] \in clientobj
                          /\ [r EXCEPT !.port = Received(i).port].online = r.online
                          /\ [r EXCEPT !.port = Received(i).port].sock = r.sock
    BY <1>2 DEF clientobj
<1>4. IsClientMap(Fetched(i)) /\ Sender(i) \in DOMAIN Fetched(i)
    BY FetchedFacts
<1>5. /\ DOMAIN m = DOMAIN Fetched(i)
      /\ \A k \in DOMAIN m : /\ m[k] \in clientobj
                             /\ m[k].online = Fetched(i)[k].online
                             /\ m[k].sock = Fetched(i)[k].sock
    BY <1>3, <1>4 DEF IsClientMap
<1>6. IsClientMap(m)
    BY <1>4, <1>5 DEF IsClientMap
<1>7. OnlineIn(m, Range(clients_sockets))
    BY <1>5, FetchedOnline DEF OnlineIn
<1> QED BY <1>6, <1>7

\* NEWCLIENT keeps the invariant.
LEMMA NewClientInv ==
    ASSUME CoreInv, NEW i \in DOMAIN clients_sockets, parseNEWCLIENT(i)
    PROVE  CoreInv'
<1> DEFINE m == [Fetched(i) EXCEPT ![Sender(i)].port = Received(i).port]
<1>1. ReadFrame(i, "NEWCLIENT") /\ sendListAndIPs(i, m)
    BY DEF parseNEWCLIENT
<1>2. /\ got' \in [Conns -> Nat]
      /\ \A c \in Conns : got'[c] <= Len(wrote[c])
      /\ scan' \in Nat
    BY <1>1, ReadFrameFacts
<1>3. IsClientMap(m) /\ OnlineIn(m, Range(clients_sockets))
    BY <1>1, NewClientMap
<1> HIDE DEF m
<1> QED BY <1>1, <1>2, <1>3, SendListStep

-----------------------------------------------------------------------------
(* Messages and block lists. *)

\* A change of one record that leaves its status and its socket alone.
LEMMA EditRecord ==
    ASSUME NEW m, IsClientMap(m), NEW R, OnlineIn(m, R), NEW k \in DOMAIN m,
           NEW r \in clientobj, r.online = m[k].online, r.sock = m[k].sock
    PROVE  IsClientMap([m EXCEPT ![k] = r]) /\ OnlineIn([m EXCEPT ![k] = r], R)
BY DEF IsClientMap, OnlineIn

\* Writing a block list leaves the rest of the record.
LEMMA EditBlocked ==
    ASSUME NEW r \in clientobj, NEW B \in SUBSET IPs
    PROVE  /\ [r EXCEPT !.blockedClients = B] \in clientobj
           /\ [r EXCEPT !.blockedClients = B].online = r.online
           /\ [r EXCEPT !.blockedClients = B].sock = r.sock
BY DEF clientobj

\* Counting a sent message leaves the rest of the record.
LEMMA CountSent ==
    ASSUME NEW r \in clientobj
    PROVE  /\ [r EXCEPT !.msgssent = @ + 1] \in clientobj
           /\ [r EXCEPT !.msgssent = @ + 1].online = r.online
           /\ [r EXCEPT !.msgssent = @ + 1].sock = r.sock
BY DEF clientobj

\* Storing messages leaves the rest of the record.
LEMMA StoreMessages ==
    ASSUME NEW r \in clientobj, NEW x \in NewMessage, NEW k \in Nat
    PROVE  /\ Stored(r, Repeat(x, k)) \in clientobj
           /\ Stored(r, Repeat(x, k)).online = r.online
           /\ Stored(r, Repeat(x, k)).sock = r.sock
<1>1. Repeat(x, k) \in Seq(NewMessage)
    BY RepeatType
<1>2. r.storedMessages \in Seq(NewMessage)
    BY DEF clientobj
<1>3. r.storedMessages \o Repeat(x, k) \in Seq(NewMessage)
    BY <1>1, <1>2
<1>4. \A s \in Seq(NewMessage) :
          /\ [r EXCEPT !.storedMessages = s] \in clientobj
          /\ [r EXCEPT !.storedMessages = s].online = r.online
          /\ [r EXCEPT !.storedMessages = s].sock = r.sock
    BY DEF clientobj
<1> QED BY <1>3, <1>4 DEF Stored

\* A relay to any destinations keeps the invariant.
LEMMA RelayStep ==
    ASSUME CoreInv, NEW i \in DOMAIN clients_sockets,
           NEW dests, IsFiniteSet(DOMAIN dests), Relay(i, dests),
           Received(i).text \in Texts,
           got' \in [Conns -> Nat],
           \A c \in Conns : got'[c] <= Len(wrote[c]),
           scan' \in Nat,
           UNCHANGED <<netVars, backlog, file, ready, clients_sockets>>
    PROVE  CoreInv'
<1> DEFINE m == [Fetched(i) EXCEPT ![Sender(i)].msgssent = @ + 1]
           R == Range(clients_sockets)
           message == [type |-> "NEWMESSAGE", from |-> Sender(i),
                       text |-> Received(i).text]
           hearers == {y \in Range(dests) \cap DOMAIN m : Hears(m[y], Sender(i))}
           times(y) == Cardinality({k \in DOMAIN dests : dests[k] = y})
           sent(up, via) == [c \in Conns |-> Repeat(message, Cardinality(
                {k \in DOMAIN dests : /\ dests[k] \in up
                                      /\ ConnAt(via[dests[k]]) = c}))]
<1>1. IsClientMap(m) /\ OnlineIn(m, R)
  <2>1. /\ IsClientMap(Fetched(i)) /\ OnlineIn(Fetched(i), R)
        /\ Sender(i) \in DOMAIN Fetched(i)
    BY FetchedFacts, FetchedOnline
  <2> DEFINE r == [Fetched(i)[Sender(i)] EXCEPT !.msgssent = @ + 1]
  <2>2. Fetched(i)[Sender(i)] \in clientobj
    BY <2>1 DEF IsClientMap
  <2>3. /\ r \in clientobj
        /\ r.online = Fetched(i)[Sender(i)].online
        /\ r.sock = Fetched(i)[Sender(i)].sock
    BY <2>2, CountSent
  <2>4. m = [Fetched(i) EXCEPT ![Sender(i)] = r]
    OBVIOUS
  <2> HIDE DEF m, r
  <2> QED BY <2>1, <2>3, <2>4, EditRecord
<1>2. message \in NewMessage
    BY EntryFacts DEF NewMessage
<1>3. \A T \in SUBSET DOMAIN dests : Cardinality(T) \in Nat
    BY FS_Subset, FS_CardinalityType
<1>4. \A y : times(y) \in Nat
    BY <1>3
<1>5. PICK up \in SUBSET hearers, via \in [hearers -> Fds \cup {Indet}] :
        /\ \A y \in hearers :
              /\ (y \in up) \in Readings(m[y].online, BOOLEAN)
              /\ via[y] \in Readings(m[y].sock, Fds \cup {Indet})
        /\ clientMap' = [y \in DOMAIN m |->
              IF y \in up
              THEN [m[y] EXCEPT !.msgsrecvd = @ + times(y)]
              ELSE IF y \in hearers
              THEN Stored(m[y], Repeat(message, times(y)))
              ELSE m[y]]
        /\ Transmit(sent(up, via))
    BY DEF Relay
<1>6. sent(up, via) \in [Conns -> Seq(ServerFrame)]
  <2>1. message \in ServerFrame
    BY <1>2 DEF ServerFrame
  <2> DEFINE T(c) == {k \in DOMAIN dests : /\ dests[k] \in up
                                            /\ ConnAt(via[dests[k]]) = c}
  <2>2. \A c : T(c) \in SUBSET DOMAIN dests
    OBVIOUS
  <2>3. \A c : Cardinality(T(c)) \in Nat
    BY <1>3, <2>2
  <2> HIDE DEF message, T
  <2>4. \A c : Repeat(message, Cardinality(T(c))) \in Seq(ServerFrame)
    BY <2>1, <2>3, RepeatType
  <2> QED BY <2>4 DEF T
<1> HIDE DEF m, message, hearers, times, sent
<1>7. TypeOK
    BY DEF CoreInv
<1>8. /\ out' \in [Conns -> Seq(ServerFrame)]
      /\ reset' \in [Conns -> BOOLEAN]
      /\ alive' \in BOOLEAN
    BY <1>5, <1>6, <1>7, TransmitType
<1>9. \A y \in DOMAIN m : /\ clientMap'[y] \in clientobj
                           /\ clientMap'[y].online = m[y].online
                           /\ clientMap'[y].sock = m[y].sock
  <2> SUFFICES ASSUME NEW y \in DOMAIN m
               PROVE  /\ clientMap'[y] \in clientobj
                      /\ clientMap'[y].online = m[y].online
                      /\ clientMap'[y].sock = m[y].sock
    OBVIOUS
  <2>1. m[y] \in clientobj
    BY <1>1 DEF IsClientMap
  <2>2. /\ [m[y] EXCEPT !.msgsrecvd = @ + times(y)] \in clientobj
        /\ [m[y] EXCEPT !.msgsrecvd = @ + times(y)].online = m[y].online
        /\ [m[y] EXCEPT !.msgsrecvd = @ + times(y)].sock = m[y].sock
    BY <1>4, <2>1, CountReceived DEF clientobj
  <2>3. /\ Stored(m[y], Repeat(message, times(y))) \in clientobj
        /\ Stored(m[y], Repeat(message, times(y))).online = m[y].online
        /\ Stored(m[y], Repeat(message, times(y))).sock = m[y].sock
    BY <1>2, <1>4, <2>1, StoreMessages
  <2> QED BY <1>5, <2>1, <2>2, <2>3
<1>10. DOMAIN clientMap' = DOMAIN m
    BY <1>5
<1>11. IsClientMap(clientMap') /\ OnlineIn(clientMap', R)
    BY <1>1, <1>9, <1>10 DEF IsClientMap, OnlineIn
<1>12. TypeOK'
    BY <1>7, <1>8, <1>11 DEF TypeOK, netVars
<1> QED BY <1>11, <1>12, QuietStep DEF netVars

\* SEND keeps the invariant.
LEMMA SendInv ==
    ASSUME CoreInv, NEW i \in DOMAIN clients_sockets, parseSEND(i)
    PROVE  CoreInv'
<1>1. /\ ReadFrame(i, "SEND")
      /\ Relay(i, <<Received(i).to>>)
      /\ UNCHANGED <<netVars, backlog, file, ready, clients_sockets>>
    BY DEF parseSEND
<1>2. /\ got' \in [Conns -> Nat]
      /\ \A c \in Conns : got'[c] <= Len(wrote[c])
      /\ scan' \in Nat
      /\ Received(i) \in ClientFrame \cup NewClient
      /\ Received(i).type = "SEND"
    BY <1>1, ReadFrameFacts
<1>3. Received(i).text \in Texts
    BY <1>2 DEF ClientFrame, NewClient
<1>4. DOMAIN <<Received(i).to>> = {1}
    OBVIOUS
<1>5. IsFiniteSet(DOMAIN <<Received(i).to>>)
    BY <1>4, FS_Singleton
<1> QED BY <1>1, <1>2, <1>3, <1>5, RelayStep

\* The indices of the entries a broadcast goes to.
LEMMA BroadcastFinite ==
    ASSUME CoreInv, NEW i \in DOMAIN clients_sockets
    PROVE  IsFiniteSet({l \in DOMAIN clients_sockets :
                           clients_sockets[l].ip # Sender(i)})
<1>1. DOMAIN clients_sockets = 1 .. Len(clients_sockets)
      /\ Len(clients_sockets) \in Nat
    BY DEF CoreInv, TypeOK
<1>2. IsFiniteSet(DOMAIN clients_sockets)
    BY <1>1, FS_Interval
<1> QED BY <1>2, FS_Subset

\* BROADCAST keeps the invariant.
LEMMA BroadcastInv ==
    ASSUME CoreInv, NEW i \in DOMAIN clients_sockets, parseBROADCAST(i)
    PROVE  CoreInv'
<1> DEFINE D == {l \in DOMAIN clients_sockets :
                    clients_sockets[l].ip # Sender(i)}
           dests == [k \in D |-> clients_sockets[k].ip]
<1>1. /\ ReadFrame(i, "BROADCAST")
      /\ Relay(i, dests)
      /\ UNCHANGED <<netVars, backlog, file, ready, clients_sockets>>
    BY DEF parseBROADCAST
<1>2. /\ got' \in [Conns -> Nat]
      /\ \A c \in Conns : got'[c] <= Len(wrote[c])
      /\ scan' \in Nat
      /\ Received(i) \in ClientFrame \cup NewClient
      /\ Received(i).type = "BROADCAST"
    BY <1>1, ReadFrameFacts
<1>3. Received(i).text \in Texts
    BY <1>2 DEF ClientFrame, NewClient
<1>4. IsFiniteSet(DOMAIN dests)
    BY BroadcastFinite
<1> HIDE DEF dests
<1> QED BY <1>1, <1>2, <1>3, <1>4, RelayStep

\* parseBLOCK and parseUNBLOCK write the sender's block list only.
LEMMA BlockListStep ==
    ASSUME CoreInv, NEW i \in DOMAIN clients_sockets, NEW B \in SUBSET IPs,
           clientMap' = [Fetched(i) EXCEPT ![Sender(i)].blockedClients = B],
           got' \in [Conns -> Nat],
           \A c \in Conns : got'[c] <= Len(wrote[c]),
           scan' \in Nat,
           UNCHANGED <<netVars, backlog, out, reset, file, alive, ready,
                       clients_sockets>>
    PROVE  CoreInv'
<1> DEFINE r == [Fetched(i)[Sender(i)] EXCEPT !.blockedClients = B]
           R == Range(clients_sockets)
<1>1. /\ IsClientMap(Fetched(i)) /\ OnlineIn(Fetched(i), R)
      /\ Sender(i) \in DOMAIN Fetched(i)
    BY FetchedFacts, FetchedOnline
<1>2. Fetched(i)[Sender(i)] \in clientobj
    BY <1>1 DEF IsClientMap
<1>3. /\ r \in clientobj
      /\ r.online = Fetched(i)[Sender(i)].online
      /\ r.sock = Fetched(i)[Sender(i)].sock
    BY <1>2, EditBlocked
<1>4. clientMap' = [Fetched(i) EXCEPT ![Sender(i)] = r]
    OBVIOUS
<1> HIDE DEF r
<1>5. IsClientMap(clientMap') /\ OnlineIn(clientMap', R)
  <2> DEFINE n == [Fetched(i) EXCEPT ![Sender(i)] = r]
  <2>1. IsClientMap(n) /\ OnlineIn(n, R)
    BY <1>1, <1>3, EditRecord
  <2>2. clientMap' = n
    BY <1>4
  <2> HIDE DEF n
  <2> QED BY <2>1, <2>2
<1>6. TypeOK'
    BY <1>5 DEF CoreInv, TypeOK, netVars
<1> QED BY <1>5, <1>6, QuietStep DEF netVars

\* The block list of the sender, and the address in its request.
LEMMA BlockFacts ==
    ASSUME CoreInv, NEW i \in DOMAIN clients_sockets,
           NEW type \in {"BLOCK", "UNBLOCK"}, ReadFrame(i, type)
    PROVE  /\ Fetched(i)[Sender(i)].blockedClients \subseteq IPs
           /\ Received(i).ip \in IPs
<1>1. Fetched(i)[Sender(i)] \in clientobj
    BY FetchedFacts DEF IsClientMap
<1>2. Fetched(i)[Sender(i)].blockedClients \subseteq IPs
    BY <1>1 DEF clientobj
<1>3. /\ Received(i) \in ClientFrame \cup NewClient
      /\ Received(i).type = type
    BY ReadFrameFacts
<1>4. Received(i).ip \in IPs
    BY <1>3 DEF ClientFrame, NewClient
<1> QED BY <1>2, <1>4

\* BLOCK keeps the invariant.
LEMMA BlockInv ==
    ASSUME CoreInv, NEW i \in DOMAIN clients_sockets, parseBLOCK(i)
    PROVE  CoreInv'
<1> DEFINE B == Fetched(i)[Sender(i)].blockedClients \cup {Received(i).ip}
<1>1. /\ ReadFrame(i, "BLOCK")
      /\ clientMap' = [Fetched(i) EXCEPT ![Sender(i)].blockedClients = B]
      /\ UNCHANGED <<netVars, backlog, out, reset, file, alive, ready,
                     clients_sockets>>
    BY DEF parseBLOCK
<1>2. /\ got' \in [Conns -> Nat]
      /\ \A c \in Conns : got'[c] <= Len(wrote[c])
      /\ scan' \in Nat
    BY <1>1, ReadFrameFacts
<1>3. B \in SUBSET IPs
    BY <1>1, BlockFacts
<1> HIDE DEF B
<1> QED BY <1>1, <1>2, <1>3, BlockListStep

\* UNBLOCK keeps the invariant.
LEMMA UnblockInv ==
    ASSUME CoreInv, NEW i \in DOMAIN clients_sockets, parseUNBLOCK(i)
    PROVE  CoreInv'
<1> DEFINE B == Fetched(i)[Sender(i)].blockedClients \ {Received(i).ip}
<1>1. /\ ReadFrame(i, "UNBLOCK")
      /\ clientMap' = [Fetched(i) EXCEPT ![Sender(i)].blockedClients = B]
      /\ UNCHANGED <<netVars, backlog, out, reset, file, alive, ready,
                     clients_sockets>>
    BY DEF parseUNBLOCK
<1>2. /\ got' \in [Conns -> Nat]
      /\ \A c \in Conns : got'[c] <= Len(wrote[c])
      /\ scan' \in Nat
    BY <1>1, ReadFrameFacts
<1>3. B \in SUBSET IPs
    BY <1>1, BlockFacts
<1> HIDE DEF B
<1> QED BY <1>1, <1>2, <1>3, BlockListStep

\* Every turn of the loop over clients_sockets keeps the invariant.
LEMMA ServeInv ==
    ASSUME CoreInv, NEW i \in DOMAIN clients_sockets, Serve(i)
    PROVE  CoreInv'
BY RefreshInv, NewClientInv, LogoutInv, ExitInv, SendInv, BroadcastInv,
   BlockInv, UnblockInv DEF Serve

-----------------------------------------------------------------------------
(* The console, select(), and the clients. *)

\* Looking records up creates some, none of them online.
LEMMA LookupStep ==
    ASSUME CoreInv, NEW m, IsClientMap(m), OnlineIn(m, Range(clients_sockets)),
           NEW K \in SUBSET Keys, clientMap' = Touch(m, K),
           UNCHANGED <<netVars, got, backlog, out, reset, file, alive, scan,
                       ready, clients_sockets>>
    PROVE  CoreInv'
<1>1. IsClientMap(Touch(m, K))
    BY TouchFacts
<1>2. OnlineIn(Touch(m, K), Range(clients_sockets))
  <2>1. \A k \in DOMAIN Touch(m, K) : Touch(m, K)[k].online = TRUE =>
            k \in DOMAIN m /\ Touch(m, K)[k] = m[k]
    BY TouchOnline
  <2> QED BY <2>1 DEF OnlineIn
<1>3. TypeOK'
    BY <1>1 DEF CoreInv, TypeOK, netVars
<1> QED BY <1>2, <1>3, QuietStep DEF netVars

\* The addresses records hold are keys, and so are those they block.
LEMMA RecordKeys ==
    ASSUME NEW m, IsClientMap(m)
    PROVE  \A k \in DOMAIN m : m[k].ip \in Keys /\ m[k].blockedClients \in SUBSET Keys
BY DEF IsClientMap, clientobj, Keys

\* The operator's commands keep the invariant.
LEMMA ConsoleInv == ASSUME CoreInv, ConsoleStep PROVE CoreInv'
<1>1. IsClientMap(clientMap) /\ OnlineIn(clientMap, Range(clients_sockets))
    BY InvByEntry DEF EInv, TypeOK
<1>2. CASE doLIST
  <2>1. /\ getListOfClients(clientMap)
        /\ UNCHANGED <<netVars, got, backlog, out, reset, file, alive, scan,
                       ready>>
    BY <1>2 DEF doLIST
  <2>2. /\ IsClientMap(clientMap')
        /\ OnlineIn(clientMap', Range(clients_sockets))
        /\ clients_sockets' \in Seq(Entry)
        /\ DistinctSocks(clients_sockets')
        /\ Range(clients_sockets') = Range(clients_sockets)
    BY <1>1, <2>1, ListFacts
  <2>3. TypeOK'
    BY <2>1, <2>2 DEF CoreInv, TypeOK, netVars
  <2> QED BY <2>1, <2>2, <2>3, ReorderStep DEF netVars
<1>3. CASE doSTATISTICS
  <2> DEFINE K == {clientMap[k].ip : k \in DOMAIN clientMap}
  <2>1. /\ clientMap' = Touch(clientMap, K)
        /\ UNCHANGED <<netVars, got, backlog, out, reset, file, alive, scan,
                       ready, clients_sockets>>
    BY <1>3 DEF doSTATISTICS
  <2>2. K \in SUBSET Keys
    BY <1>1, RecordKeys
  <2> HIDE DEF K
  <2> QED BY <1>1, <2>1, <2>2, LookupStep
<1>4. ASSUME NEW ip \in IPs, doBLOCKED(ip) PROVE CoreInv'
  <2> DEFINE blocked == clientMap[ip].blockedClients
             m == Touch(clientMap, blocked)
             K == {m[k].ip : k \in blocked}
  <2>1. /\ ip \in DOMAIN clientMap
        /\ clientMap' = Touch(m, K)
        /\ UNCHANGED <<netVars, got, backlog, out, reset, file, alive, scan,
                       ready, clients_sockets>>
    BY <1>4 DEF doBLOCKED
  <2>2. blocked \in SUBSET Keys
    BY <1>1, <2>1, RecordKeys
  <2> HIDE DEF blocked
  <2>3. IsClientMap(m) /\ DOMAIN m = DOMAIN clientMap \cup blocked
    BY <1>1, <2>2, TouchFacts
  <2>4. OnlineIn(m, Range(clients_sockets))
    <3>1. \A k \in DOMAIN m : m[k].online = TRUE =>
              k \in DOMAIN clientMap /\ m[k] = clientMap[k]
      BY <1>1, <2>2, TouchOnline
    <3> QED BY <1>1, <3>1 DEF OnlineIn
  <2> HIDE DEF m
  <2>5. K \in SUBSET Keys
    BY <2>3, RecordKeys
  <2> HIDE DEF K
  <2> QED BY <2>1, <2>3, <2>4, <2>5, LookupStep
<1> QED BY <1>2, <1>3, <1>4 DEF ConsoleStep

\* Entering and leaving the loop, and the crash in accept, keep the invariant.
LEMMA LoopInv ==
    ASSUME CoreInv, AcceptUnresolved \/ Select \/ ScanDone
    PROVE  CoreInv'
<1>1. OnlineIn(clientMap, Range(clients_sockets))
    BY InvByEntry DEF EInv
<1>2. UNCHANGED <<peer, file, backlog, clients_sockets, clientMap>>
    BY DEF AcceptUnresolved, Select, ScanDone, netVars
<1>3. TypeOK'
  <2>1. CASE AcceptUnresolved
    BY <2>1 DEF AcceptUnresolved, CoreInv, TypeOK, netVars
  <2>2. CASE Select
    BY <2>2 DEF Select, Active, CoreInv, TypeOK, netVars
  <2>3. CASE ScanDone
    BY <2>3 DEF ScanDone, CoreInv, TypeOK, netVars
  <2> QED BY <2>1, <2>2, <2>3
<1>4. OnlineIn(clientMap', Range(clients_sockets))
    BY <1>1, <1>2
<1> QED BY <1>2, <1>3, <1>4, QuietStep

\* A host that connects keeps the invariant: nothing was written before on
\* the connection it opens.
LEMMA LoginInv ==
    ASSUME IInv, NEW c \in Conns, NEW ip \in IPs, ClientLogin(c, ip)
    PROVE  CoreInv'
<1>1. EInv
    BY InvByEntry DEF IInv
<1>2. PICK p \in ListenPorts[ip] :
          wrote' = [wrote EXCEPT ![c] = <<[type |-> "NEWCLIENT", port |-> p]>>]
    BY DEF ClientLogin
<1>3. <<[type |-> "NEWCLIENT", port |-> p]>> \in Seq(ClientFrame \cup NewClient)
  <2>1. p \in Ports
    BY <1>2, ConstantsAssumption
  <2>2. [type |-> "NEWCLIENT", port |-> p] \in NewClient
    BY <2>1 DEF NewClient
  <2> QED BY <2>2
<1>4. /\ peer[c] = NoIP
      /\ peer' = [peer EXCEPT ![c] = ip]
      /\ backlog' = Append(backlog, c)
      /\ UNCHANGED <<got, shut, out, reset, file, alive, scan, ready,
                     clients_sockets, clientMap>>
    BY DEF ClientLogin, Opens
<1>5. peer' \in [Conns -> Keys] /\ backlog' \in Seq(Conns)
    BY <1>1, <1>4 DEF EInv, TypeOK, Keys
<1>6. TypeOK'
  <2> DEFINE w == <<[type |-> "NEWCLIENT", port |-> p]>>
  <2>1. wrote' = [wrote EXCEPT ![c] = w] /\ Len(w) = 1
    BY <1>2
  <2>2. got[c] = 0
    BY <1>1, <1>4 DEF IInv, UnusedAreSilent, EInv, TypeOK
  <2> HIDE DEF w
  <2>3. \A d \in Conns : got'[d] <= Len(wrote'[d])
    BY <1>1, <1>4, <2>1, <2>2 DEF EInv, TypeOK
  <2>4. wrote' \in [Conns -> Seq(ClientFrame \cup NewClient)]
    BY <1>1, <1>3, <2>1 DEF EInv, TypeOK, w
  <2> QED BY <1>1, <1>4, <1>5, <2>3, <2>4 DEF EInv, TypeOK
<1>7. BacklogHasPeers'
    BY SMTT(40), <1>1, <1>4 DEF EInv, TypeOK, BacklogHasPeers
<1>8. \A x \in Range(clients_sockets) :
          /\ x.ip \in IPs /\ x.sock \in Fds
          /\ file[x.sock] \in Conns /\ peer[file[x.sock]] = x.ip
  <2> SUFFICES ASSUME NEW i \in DOMAIN clients_sockets
               PROVE  LET x == clients_sockets[i]
                      IN  /\ x.ip \in IPs /\ x.sock \in Fds
                          /\ file[x.sock] \in Conns
                          /\ peer[file[x.sock]] = x.ip
    BY DEF Range
  <2> QED BY EntryFacts DEF Client, Sender, Wire, IInv
<1>9. NoIP \notin IPs
    BY ConstantsAssumption
<1>10. \A x \in Range(clients_sockets) : peer'[file'[x.sock]] = x.ip
    BY <1>4, <1>8, <1>9
<1>11. SocketsByEntry'
    BY <1>1, <1>4, <1>10 DEF EInv, SocketsByEntry
<1>12. EInv'
    BY <1>1, <1>4, <1>6, <1>7, <1>11 DEF EInv
<1>13. CoreInv' <=> EInv'
    BY InvByEntry, PTL
<1> QED BY <1>12, <1>13

\* A frame that a client writes keeps the invariant.
LEMMA CommandInv ==
    ASSUME CoreInv, NEW c \in Conns, NEW f, ClientCommand(c, f)
    PROVE  CoreInv'
<1>1. TypeOK /\ OnlineIn(clientMap, Range(clients_sockets))
    BY InvByEntry DEF EInv
<1>2. peer[c] \in IPs
    BY <1>1 DEF ClientCommand, TypeOK, Keys
<1>3. f \in ClientFrame
    BY <1>2, ConstantsAssumption DEF ClientCommand
<1>4. /\ wrote' = [wrote EXCEPT ![c] = Append(@, f)]
      /\ shut' = [shut EXCEPT ![c] = f.type = "LOGOUT"]
      /\ UNCHANGED <<peer, got, backlog, out, reset, file, alive, scan, ready,
                     clients_sockets, clientMap>>
    BY DEF ClientCommand
<1>5. /\ Append(wrote[c], f) \in Seq(ClientFrame \cup NewClient)
      /\ Len(Append(wrote[c], f)) = Len(wrote[c]) + 1
    BY <1>1, <1>3 DEF TypeOK
<1>6. wrote' \in [Conns -> Seq(ClientFrame \cup NewClient)]
    BY <1>1, <1>4, <1>5 DEF TypeOK
<1>7. \A d \in Conns : Len(wrote[d]) \in Nat /\ got[d] \in Nat
    BY <1>1 DEF TypeOK
<1>8. \A d \in Conns : got'[d] <= Len(wrote'[d])
    BY <1>1, <1>4, <1>5, <1>7 DEF TypeOK
<1>9. shut' \in [Conns -> BOOLEAN]
    BY <1>1, <1>4 DEF TypeOK
<1>10. TypeOK'
    BY <1>1, <1>4, <1>6, <1>8, <1>9 DEF TypeOK
<1> QED BY <1>1, <1>4, <1>10, QuietStep

\* A client that ends keeps the invariant.
LEMMA CloseInv ==
    ASSUME CoreInv, NEW c \in Conns, ClientExit(c)
    PROVE  CoreInv'
<1>1. TypeOK /\ OnlineIn(clientMap, Range(clients_sockets))
    BY InvByEntry DEF EInv
<1>2. shut' \in [Conns -> BOOLEAN]
    BY <1>1 DEF ClientExit, TypeOK
<1>3. UNCHANGED <<peer, wrote, got, backlog, out, reset, file, alive, scan,
                  ready, clients_sockets, clientMap>>
    BY DEF ClientExit
<1>4. TypeOK'
    BY <1>1, <1>2, <1>3 DEF TypeOK
<1> QED BY <1>1, <1>3, <1>4, QuietStep

-----------------------------------------------------------------------------
(* The invariant. *)

\* The invariant holds at the start.
LEMMA InitInv == Init => IInv
<1> SUFFICES ASSUME Init PROVE IInv
    OBVIOUS
<1>1. \A S : <<>> \in Seq(S)
    OBVIOUS
<1>2. DOMAIN clientMap = {} /\ clients_sockets = <<>> /\ backlog = <<>>
    BY DEF Init
<1>3. TypeOK
    BY <1>1, <1>2 DEF Init, TypeOK, Keys, IsClientMap
<1>4. BacklogHasPeers
    BY <1>2 DEF BacklogHasPeers
<1>5. SocketsAreOpenDescriptors
    BY <1>2 DEF Init, SocketsAreOpenDescriptors
<1>6. OnlineHasLiveSocket
    BY <1>2 DEF OnlineHasLiveSocket
<1>7. UnusedAreSilent
    BY DEF Init, UnusedAreSilent
<1> QED BY <1>3, <1>4, <1>5, <1>6, <1>7 DEF IInv, CoreInv

\* It holds on while nothing changes.
LEMMA StutterInv == ASSUME CoreInv, UNCHANGED vars PROVE CoreInv'
<1>1. TypeOK /\ OnlineIn(clientMap, Range(clients_sockets))
    BY InvByEntry DEF EInv
<1>2. TypeOK'
    BY <1>1 DEF TypeOK, vars
<1> QED BY <1>1, <1>2, QuietStep DEF vars

\* Only a login and a command write, each on a connection in use.
LEMMA SilentInv == ASSUME IInv, [Next]_vars PROVE UnusedAreSilent'
<1>1. /\ peer \in [Conns -> Keys]
      /\ wrote \in [Conns -> Seq(ClientFrame \cup NewClient)]
      /\ NoIP \notin IPs
    BY ConstantsAssumption DEF IInv, CoreInv, TypeOK
<1>2. CASE UNCHANGED <<peer, wrote>>
    BY <1>2 DEF IInv, UnusedAreSilent
<1>3. ASSUME NEW c \in Conns, NEW ip \in IPs, ClientLogin(c, ip)
      PROVE  UnusedAreSilent'
    BY <1>1, <1>3 DEF ClientLogin, Opens, IInv, UnusedAreSilent
<1>4. ASSUME NEW c \in Conns, NEW f, ClientCommand(c, f)
      PROVE  UnusedAreSilent'
    BY <1>1, <1>4 DEF ClientCommand, IInv, UnusedAreSilent
<1>5. ASSUME NEW c \in Conns, ClientExit(c) PROVE UNCHANGED <<peer, wrote>>
    BY <1>5 DEF ClientExit
<1>6. ServerStep => UNCHANGED <<peer, wrote>>
    BY DEF ServerStep, Accept, AcceptUnresolved, Select, ScanDone, Serve,
           parseREFRESH, parseNEWCLIENT, parseLOGOUT, parseEXIT, parseSEND,
           parseBROADCAST, parseBLOCK, parseUNBLOCK, sendListAndIPs,
           logClientOut, netVars
<1>7. ConsoleStep => UNCHANGED <<peer, wrote>>
    BY DEF ConsoleStep, doLIST, doSTATISTICS, doBLOCKED, netVars
<1> QED BY <1>2, <1>3, <1>4, <1>5, <1>6, <1>7 DEF Next, ClientStep, vars

\* Every step keeps the inductive invariant.
LEMMA NextInv == IInv /\ [Next]_vars => IInv'
<1> SUFFICES ASSUME IInv, [Next]_vars PROVE CoreInv'
    BY SilentInv DEF IInv
<1> USE DEF IInv
<1>1. CASE ServerStep
    BY <1>1, AcceptInv, LoopInv, ServeInv DEF ServerStep
<1>2. CASE ConsoleStep
    BY <1>2, ConsoleInv
<1>3. CASE ClientStep
    BY <1>3, LoginInv, CommandInv, CloseInv DEF ClientStep
<1>4. CASE UNCHANGED vars
    BY <1>4, StutterInv
<1> QED BY <1>1, <1>2, <1>3, <1>4 DEF Next

\* The inductive invariant holds in every reachable state.
THEOREM Invariance == Spec => []IInv
BY InitInv, NextInv, PTL DEF Spec

\* What a relay writes goes to a host it is for, that does not block the sender.
LEMMA RelayTo ==
    ASSUME CoreInv, NEW i \in DOMAIN clients_sockets, NEW dests,
           Relay(i, dests), NEW c \in Conns, out'[c] # out[c],
           \A y \in Range(dests) : ~Uninitialised(y),
           Sender(i) \in Range(dests) => Sender(i) \in DOMAIN clientMap
    PROVE  /\ peer[c] \in Range(dests)
           /\ Sender(i) \notin clientMap[peer[c]].blockedClients
<1> DEFINE m == [Fetched(i) EXCEPT ![Sender(i)].msgssent = @ + 1]
           message == [type |-> "NEWMESSAGE", from |-> Sender(i),
                       text |-> Received(i).text]
           hearers == {y \in Range(dests) \cap DOMAIN m : Hears(m[y], Sender(i))}
           times(y) == Cardinality({k \in DOMAIN dests : dests[k] = y})
           T(up, via, d) == {k \in DOMAIN dests :
                                /\ dests[k] \in up
                                /\ ConnAt(via[dests[k]]) = d}
           sent(up, via) == [d \in Conns |->
                                Repeat(message, Cardinality(T(up, via, d)))]
<1>1. PICK up \in SUBSET hearers, via \in [hearers -> Fds \cup {Indet}] :
        /\ \A y \in hearers :
              /\ (y \in up) \in Readings(m[y].online, BOOLEAN)
              /\ via[y] \in Readings(m[y].sock, Fds \cup {Indet})
        /\ clientMap' = [y \in DOMAIN m |->
              IF y \in up
              THEN [m[y] EXCEPT !.msgsrecvd = @ + times(y)]
              ELSE IF y \in hearers
              THEN Stored(m[y], Repeat(message, times(y)))
              ELSE m[y]]
        /\ Transmit(sent(up, via))
    BY DEF Relay
<1>2. \A y \in Range(dests) \cap DOMAIN m :
        /\ y \in DOMAIN clientMap
        /\ m[y].online = clientMap[y].online
        /\ m[y].sock = clientMap[y].sock
        /\ m[y].blockedClients = clientMap[y].blockedClients
  <2> SUFFICES ASSUME NEW y \in Range(dests) \cap DOMAIN m
               PROVE  /\ y \in DOMAIN clientMap
                      /\ m[y].online = clientMap[y].online
                      /\ m[y].sock = clientMap[y].sock
                      /\ m[y].blockedClients = clientMap[y].blockedClients
    OBVIOUS
  <2>1. IsClientMap(clientMap)
    BY DEF CoreInv, TypeOK
  <2>2. {Sender(i)} \subseteq Keys
    BY EntryFacts DEF Keys
  <2>3. /\ DOMAIN Fetched(i) = DOMAIN clientMap \cup {Sender(i)}
        /\ \A k \in DOMAIN clientMap : Fetched(i)[k] = clientMap[k]
    BY <2>1, <2>2, TouchFacts DEF Fetched
  <2>4. y \in DOMAIN clientMap
    BY <2>3
  <2>5. clientMap[y] \in clientobj /\ Fetched(i)[y] = clientMap[y]
    BY <2>1, <2>3, <2>4 DEF IsClientMap
  <2>6. \A r \in clientobj :
            /\ [r EXCEPT !.msgssent = @ + 1].online = r.online
            /\ [r EXCEPT !.msgssent = @ + 1].sock = r.sock
            /\ [r EXCEPT !.msgssent = @ + 1].blockedClients = r.blockedClients
    BY DEF clientobj
  <2>7. m[y] = IF y = Sender(i)
               THEN [clientMap[y] EXCEPT !.msgssent = @ + 1]
               ELSE clientMap[y]
    BY <2>3, <2>4, <2>5
  <2> HIDE DEF m
  <2> QED BY <2>4, <2>5, <2>6, <2>7
<1> HIDE DEF m, message, times
<1>3. T(up, via, c) # {}
  <2>1. sent(up, via)[c] # <<>>
    <3>1. out'[c] = IF shut[c] THEN out[c] ELSE out[c] \o sent(up, via)[c]
      BY <1>1 DEF Transmit
    <3>2. out[c] \o <<>> = out[c]
      BY DEF CoreInv, TypeOK
    <3> HIDE DEF sent
    <3> QED BY <3>1, <3>2
  <2>2. Cardinality({}) = 0
    BY FS_EmptySet
  <2>3. Repeat(message, 0) = <<>>
    BY DEF Repeat
  <2> HIDE DEF T
  <2> QED BY <2>1, <2>2, <2>3
<1>4. PICK k \in DOMAIN dests : /\ dests[k] \in up
                                /\ ConnAt(via[dests[k]]) = c
    BY <1>3
<1> DEFINE y == dests[k]
<1>5. /\ y \in hearers /\ y \in Range(dests) \cap DOMAIN m
      /\ Sender(i) \notin m[y].blockedClients
    BY <1>1, <1>4 DEF Hears
<1>6. /\ y \in DOMAIN clientMap
      /\ m[y].online = clientMap[y].online
      /\ m[y].sock = clientMap[y].sock
      /\ m[y].blockedClients = clientMap[y].blockedClients
    BY <1>2, <1>5
<1>7. clientMap[y].online # Indet /\ clientMap[y].sock # Indet
    BY <1>5, <1>6 DEF Uninitialised
<1>8. clientMap[y].online = TRUE /\ via[y] = clientMap[y].sock
  <2>1. (y \in up) \in Readings(m[y].online, BOOLEAN)
        /\ via[y] \in Readings(m[y].sock, Fds \cup {Indet})
    BY <1>1, <1>5
  <2>2. (y \in up) = clientMap[y].online /\ via[y] = clientMap[y].sock
    BY <1>6, <1>7, <2>1 DEF Readings
  <2> QED BY <1>4, <2>2
<1>9. PICK l \in DOMAIN clients_sockets :
          clients_sockets[l] = [sock |-> clientMap[y].sock, ip |-> y]
    BY <1>6, <1>8 DEF CoreInv, OnlineHasLiveSocket
<1>10. /\ Client(l).sock = via[y] /\ Sender(l) = y /\ via[y] \in Fds
       /\ file[via[y]] = Wire(l) /\ peer[Wire(l)] = y
    BY <1>8, <1>9, EntryFacts DEF Client, Sender
<1>11. peer[c] = y
    BY <1>4, <1>10 DEF ConnAt
<1> QED BY <1>5, <1>6, <1>11

\* Every step relays only to whom it should.
LEMMA RelayStepIsRight == IInv /\ [Next]_vars => [RelayReachesAddressee]_vars
<1> SUFFICES ASSUME CoreInv, NEW i \in DOMAIN clients_sockets, NEW c \in Conns,
                    parseSEND(i) \/ parseBROADCAST(i), out'[c] # out[c],
                    \A y \in Destinations(i) : ~Uninitialised(y)
             PROVE  /\ IF Received(i).type = "SEND"
                       THEN peer[c] = Received(i).to
                       ELSE peer[c] # Sender(i)
                    /\ Sender(i) \notin clientMap[peer[c]].blockedClients
    BY DEF RelayReachesAddressee, IInv
<1>1. Sender(i) \in Listed
    BY DEF Sender, Listed
<1>2. Sender(i) \in Destinations(i) => Sender(i) \in DOMAIN clientMap
    BY <1>1 DEF Uninitialised
<1>3. CASE parseSEND(i)
  <2> DEFINE dests == <<Received(i).to>>
  <2>1. Relay(i, dests) /\ Received(i).type = "SEND"
    BY <1>3 DEF parseSEND, ReadFrame
  <2>2. Range(dests) = {Received(i).to} /\ Destinations(i) = {Received(i).to}
    BY <2>1 DEF Range, Destinations
  <2> HIDE DEF dests
  <2>3. peer[c] \in Range(dests)
        /\ Sender(i) \notin clientMap[peer[c]].blockedClients
    BY <1>2, <2>1, <2>2, RelayTo
  <2> QED BY <2>1, <2>2, <2>3
<1>4. CASE parseBROADCAST(i)
  <2> DEFINE dests == [k \in {l \in DOMAIN clients_sockets :
                                 clients_sockets[l].ip # Sender(i)} |->
                          clients_sockets[k].ip]
  <2>1. Relay(i, dests) /\ Received(i).type = "BROADCAST"
    BY <1>4 DEF parseBROADCAST, ReadFrame
  <2>2. Range(dests) \subseteq Listed \ {Sender(i)}
    BY DEF Range, Listed
  <2>3. Destinations(i) = Listed
    BY <2>1 DEF Destinations
  <2> HIDE DEF dests
  <2>4. peer[c] \in Range(dests)
        /\ Sender(i) \notin clientMap[peer[c]].blockedClients
    BY <1>2, <2>1, <2>2, <2>3, RelayTo
  <2> QED BY <2>1, <2>2, <2>4
<1> QED BY <1>3, <1>4

-----------------------------------------------------------------------------
(* The theorems. *)

\* The variables have their types in every reachable state: in particular no
\* read takes more frames than the client wrote, and every record of clientMap
\* stays well formed whatever operator[] inserts into it.
THEOREM TypesHold == Spec => []TypeOK
BY Invariance, PTL DEF IInv, CoreInv

\* clients_sockets and the descriptor table agree after any sequence of
\* addClient, logClientOut and getListOfClients.
THEOREM SocketsAgree == Spec => []SocketsAreOpenDescriptors
BY Invariance, PTL DEF IInv, CoreInv

\* A record that says online leads to its host, however sessions overlap.
THEOREM OnlineIsReachable == Spec => []OnlineHasLiveSocket
BY Invariance, PTL DEF IInv, CoreInv

\* parseSEND and parseBROADCAST write only to connections of the hosts a
\* message is for, and never to one that blocks the sender.
THEOREM RelaysAreRight == Spec => RelayIsRight
<1>1. IInv /\ [Next]_vars => [RelayReachesAddressee]_vars
    BY RelayStepIsRight
<1> QED BY <1>1, Invariance, PTL DEF Spec, RelayIsRight
=============================================================================
