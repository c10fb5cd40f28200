# A TLA+ model of the chat relay

The program is one executable with two modes: a **relay server** and a **client**
that talk over TCP. Clients log in, ask for the list of who is logged in, send
each other messages through the server, block each other, log out and come
back. Everything the server knows about a host it keeps under the host's IP
address; everything it knows about a connection it keeps under a descriptor
number. Most of what is hard in this code is the relation between the two.

Below, `server.cpp`, `client.cpp`, `networkutil.cpp`, `util.cpp` and `main.cpp` are the
files in the repository's directory `src`; other paths start at its root.

## The system

| part | code | state | operations |
|---|---|---|---|
| relay server | `server.cpp`, `include/server.h` | `clients_sockets` (descriptor, address), `clientMap` (address to record), the `fd_set` | the `select()` loop, `addClient`, the `parse*` handlers, `logClientOut`, `getListOfClients` |
| console | `server.cpp` 111-160, 229-283 | none of its own | `LIST`, `STATISTICS`, `BLOCKED` (these change the server's state), `AUTHOR`, `IP`, `PORT` |
| list sorting | `server.cpp` 509-528 | a vector | `selectionSortArray` |
| client | `client.cpp`, `include/client.h` | `sock`, `loggedIn`, `clientList`, `clientIPVector`, `blockedClients` | `doLOGIN` ... `doEXIT`, the read loop, `parseNEWLIST`, `parseBACKLOGGEDMSG`, `parseNEWMESSAGE` |
| framing | `networkutil.cpp`, `client.cpp` 149-198 | a buffer per call | `sendOverSocket`, `readFromSocket`, `parseFromSocket`, the client's own read loop |
| strings and texts | `util.cpp`, parts of `server.cpp` and `client.cpp` | none | tokenizing, validation, building and taking apart of messages |
| start | `main.cpp` | none | chooses the mode |

*How they interact.* The client connects and at once writes `NEWCLIENT` with its
listening port; the server answers with `NEWLIST`. `SEND`, `BROADCAST`, `BLOCK`,
`UNBLOCK`, `REFRESH` and `LOGOUT` are one frame each; the server relays a message
as `NEWMESSAGE`, or stores it in the receiver's record and sends the store as
`BACKLOGGED_MESSAGES` when that host next connects. `LOGOUT` leaves the record,
the end of the connection erases it. The server is one thread: in each turn it
serves either one waiting connection, or one console command, or, if neither is
there, all readable clients in one loop over `clients_sockets`, while handlers
called in that loop sort the vector and erase from it.

*What is hard.*

- Sessions of one host can overlap: a new connection is accepted before the end
  of the old one has been read, and both are handled by address.
- Descriptors are reused while records still hold old numbers.
- TCP has no frames: several arrive in one read, and the code keeps one; one
  arrives in several reads, into a buffer that is not cleared in between.
- The loop over the list and the list itself shift under each other.
- `clientMap[...]` is used for lookups and inserts records that were never
  initialised.
- Client and server each keep a block list and an idea of who is there.
- Reads block, and a send to a client that has gone can kill the process.

*What makes each part correct.*

- Server: the list, the descriptor table and the records agree; a message goes
  to its addressee and to nobody who blocks the sender, in order; each request is
  read and each ended session noticed.
- Sorting: nobody is lost or doubled, and the order is by port.
- Client: it agrees with the server on its session and on whom it blocks, and
  asks nothing the server does not expect.
- Framing: each frame written is handled once, whole; a half one does not hold
  the reader for ever.
- Texts: what is typed at one client is what is shown at another.

`PROJECT.json` lists every hazard with its line and the properties aimed at it.

## The modules

| module | models |
|---|---|
| `Network` | connections and the frames on them: the variables that server and clients share |
| `SelectionSort` | `selectionSortArray` as an operator on the list of ports, with the helpers it is made of |
| `SortLoop` | the two loops of the same function as a state machine, one action per turn |
| `ChatServer` | the server with its console; of the clients only what they can do to a connection |
| `Mailboxes` | the abstract specification of the relay: who is there, what is kept for whom, what was handed to whom |
| `ChatClient` | the client program at every host: its variables, each command with its local checks, its reads |
| `ChatSystem` | `ChatServer` and `ChatClient` together |
| `Strings` | the operations of `std::string` the program uses, with `npos` and its wrap-around |
| `Framing` | one direction of a connection in characters: frames, buffers, and both read loops |
| `FrameReader` | the abstract specification of reading: what `ChatServer` and `ChatClient` take a read to be |
| `Lines` | what is in a frame: tokenizing and validation turn by turn, the messages built and taken apart |
| `MCChatServer`, `MCChatSystem`, `MCFraming`, `MCLines` | values for TLC: command sets, ports, payloads, alphabets and bounds |
| `SelectionSort_proofs`, `SortLoop_proofs`, `ChatServer_proofs`, `Mailboxes_proofs`, `Messages_proofs`, `ChatSystem_proofs`, `Lines_proofs`, `Framing_proofs` | the theorems |

How they fit together:

    Lines      what is in a frame
    Framing    how frames cross a stream      -- implements FrameReader
    ChatSystem = ChatClient + ChatServer      -- implements ChatServer
    ChatServer (extends SelectionSort)        -- implements Mailboxes

`SortLoop` is proved to compute the operator that `ChatServer` uses, so that the
server's list is put into the order the code's own, defective sort gives it. The
operator is two recursive functions, `Turns` for the inner loop and `Passes` for the
outer one.

### The server: state and code

- `clients_sockets`, `clientMap`: the members of `server` of that name. A record
  (`clientobj`) keeps `sock`, `ip`, `online`, `port`, `storedMessages`,
  `blockedClients`, `msgsrecvd`, `msgssent`. Not kept: `hostname` and `id`, which
  are only printed, `left_over_msg`, which is always empty, and the member
  `totalClients`, which nothing uses.
- `ready` is what is left in `master_list` of the client descriptors, `scan` the
  index of the loop at line 167 (0: waiting in `select()`).
- `file` is the server's descriptor table; `peer`, `wrote`, `got`, `shut`, `backlog`,
  `out`, `reset` (in `Network`) are the connections: which host is at the other end,
  the frames in each direction, how many of them the server has taken, whether
  the client end is closed, the connections waiting for `accept()`, and whether
  the server has already sent to a closed end. Frames are never removed from
  `wrote` and `out`, so that properties can speak of history.
- `alive` is false once the server process has died.

`Accept` is lines 89-107 with `addClient`; `AcceptUnresolved` is the null host name
of line 103. `Select` and `ScanDone` begin and end the loop at 167; `Serve(i)` is
one turn of it, one action per handler: `parseREFRESH`, `parseNEWCLIENT` (with the
`sendListAndIPs` of line 211), `parseLOGOUT`, `parseEXIT`, `parseSEND`,
`parseBROADCAST`, `parseBLOCK`, `parseUNBLOCK`. Each contains the read
(`ReadFrame`, `ReadEOF`) and the lookup of line 175. `doLIST`, `doSTATISTICS` and
`doBLOCKED` are the console. `ClientLogin`, `ClientCommand` and `ClientExit` are what
a client can do to its connection.

### The client: state and code

`sock` is the socket of that name, `NoConn` while `loggedIn` is false;
`clientIPVector` and `blockedClients` are the vectors (as sets: they are only
searched); `clientList` is only printed and left out; `taken` is how many of the
server's frames the client's reads have taken. `doLOGIN` to `doEXIT` have the
checks of the code (`ipExistsLocally`, blocked already, logged in) as guards; a
command that fails one prints an error and is no step. `HandleFrame` is the branch
at 149-198 with `parseNEWLIST`: it handles the first frame of a read, and those
behind it are gone, as in the server. `doEXIT` also stands for the death of the
process: the next one of that host starts with empty lists and perhaps another
port. `LoginSide` and `ClientSide` in `ChatSystem` also keep `apart`, a history
variable: the hosts whose sessions overlapped, or whose process ended while it
was logged out (which tells the server nothing).

### Framing and texts

`Framing` writes frames between tags on a stream (`sendOverSocket`) and reads them
with buffers of `bufsize` characters, by `side`: `readFromSocket` for the server,
the loop in `startClient` for the client. `ReadFirst` is the first read of a call,
into a buffer that was just allocated and that neither side clears: it may hold what
the last one did (the client frees its buffer; the server never does, but it frees
the strings it makes of it and other memory of that size), any of `Stale`, or
nothing. `ReadMore` is each further one, into the same buffer. What the code makes
of the buffer is `string(buffer \o w)`: up to the first NUL, wherever that is, and
where the read has filled the buffer up to the first one behind it, in memory that
is not its own (`w` in `Behind`). `Handle` includes `parseFromSocket`, and where it
throws. The sender may stop in the middle of a frame (`SendStuck`), for ever, or
until it ends (`Close`). `ServerEOF` and `ClientEOF` are what the two make of the end.

With `Whole = TRUE` a read takes all that is there, or as much as the buffer has room
for, or ends with a frame because the next one was not sent yet: no frame arrives in
two parts by the doing of the network. The buffer can still divide one. `Strays`
says when that mixes up frames: when a read begins in front of a frame and ends
inside it, so that the head is left over data, which everyone throws away; or when a
part of a frame fills the buffer and what is behind it is not a NUL. The history
variable `astray` remembers such a read. `Straddle.cfg` and `Overrun.cfg` show what
comes of the two, `AnyCut.cfg` (`Whole = FALSE`) what comes of other cuts.

`Lines` scans a line character by character, once by the loop of `stringTokenize`
and once by that of `isValidIP` (`Scan` is a turn of both); the messages the server
makes of the line, and what the client makes of those, are operators on it.
Positions are those of C++: `find` returns `npos`, and `npos + 1` is 0.

### Choices

- *Uninitialised members.* The constructor sets only the two counters. Until
  something else is written, `port`, `online` and `sock` are `Indet`, and each
  reader picks a value: any port, either truth value (the Makefile builds without
  optimisation, and both branches of `parseSEND` test the same byte), any
  descriptor or one that is not open.
- *Lookups insert.* Every `clientMap[x]` on a path is a `Touch`.
- *Reads* (at the grain of frames). One read takes the next frame and any number
  of those behind it that were written; the first is handled and the rest are
  gone, because `results[1]` is never used. With nothing to read the read blocks:
  no action of the server is enabled until the client writes or closes. `Framing`
  shows when this is what the code does, and `AnyCut.cfg`, `Straddle.cfg` and
  `Overrun.cfg` when it is not.
- *Sends.* To an open end they arrive. To a closed end they are lost, and draw
  a reset; a later one after the reset raises `SIGPIPE` and the process dies (or,
  if the reset is still under way, not yet). To a descriptor that is not open
  they fail in silence. If the process dies inside a handler the rest of the
  handler's effects are still in the next state; nothing reads them any more.
- *Clients* have one connection per host at a time, `NEWCLIENT` first; `LOGOUT`
  closes. In `ChatServer` alone the address of a `SEND`, `BLOCK` or `UNBLOCK` must be
  in some list a session of the host was sent, which is a little more than
  `clientIPVector` allows: `ImplementsServer` is that claim, checked and proved.
- *Accept* waits while no descriptor is free; what the code does with the -1 of
  a failed `accept()` is not modelled. The listen backlog is not bounded.
- `connect()` and the writing of `NEWCLIENT` are one step: the server does nothing
  with a connection in between but accept it, which it can do afterwards as well.
- *Clients act while the server lives.* What they do after its death is left out.

### The abstract specifications

`Mailboxes` has neither sockets nor descriptors nor a list. A session asks for
things (`Ask`) and its client may end (`Hangup`); the relay takes what a present
host asks for in order, perhaps with some of what stands behind it (`Takes`), and
does what it takes and nothing else. `Arrive`, `Leave` and `Forget` change whether a
host is there; `Leave` needs a LOGOUT, and `Forget` that everything the session
asked for was taken and its client has ended. `Post` hands a message to the session
of each present host that it is for and that listens to the sender, once, and keeps
it for those away; `Show` lists exactly those present, each once; `Choose` changes
whom a host hears. `Hand` is exact: what is handed reaches every session but those
whose client has ended, so that a relay which takes a SEND and sends nothing does
not implement `Mailboxes` (the mutant `SENDUnsent`). Backlogs are handed over and
*kept*: that much of the code's behaviour the specification adopts, and what it
does to the totals is a run of its own (`Totals.cfg`).

The mapping: a session is a connection, what it asked for is `wrote`, what was
taken `got`, the sessions whose client has ended are those with `shut`; a host is
known if it has a record, its session is the connection the record's socket leads to
if the record says online, and what was handed over is `out`.

`FrameReader` is the read of `ChatServer` as a specification of its own: a read
handles the next frame and takes it and perhaps more. Two things end this. Of a
frame whose sender stopped in the middle of it (`torn`) a reader may make anything,
once all frames before it are taken: the rest may come from what was in the buffer,
and the client handles a part on purpose or not (line 171 of `client.cpp` sets
another variable `disconnect` than line 183 tests). And after a read that mixes up
frames (`astray`) nothing is said.

## What TLC checks

All runs are `tlc -config <cfg> <module>`. `CHECK_DEADLOCK FALSE` stands in all of
them because the system may stop: the sort returns, the lines are bounded, and
the server waits in `select()` for ever when no client acts, or in a read.

| run | instance | what holds |
|---|---|---|
| `SortLoop.cfg` | all lists of 2 to 4 ports out of 4 | `TypeOK`, `Rearranged`, `LoopMatchesOperator`, `LargestLast`, `SortedStaysPut` |
| `Overlap.cfg` | 3 hosts (one without a name), 3 connections and descriptors, sessions of a host overlap; LOGOUT, REFRESH, SEND, BROADCAST | `TypeOK`, `SocketsAreOpenDescriptors`, `OnlineHasLiveSocket`, `PhantomsNeedOverlap`, `RelayIsRight` |
| `Polite.cfg` | 2 hosts, 3 connections, no overlap; LOGOUT, BLOCK, SEND of two texts, STATISTICS on the console | `OnlineIffListed`, `NoPhantoms`, `OnlyAddressed`, `InOrder`, and the refinement `ImplementsMailboxes` |
| `Live.cfg` | 2 hosts, 3 connections, overlap; LOGOUT; all of the console; fairness | `EndedSessionsAreReaped`, `RequestsAreRead` |
| `System.cfg` | 2 clients and the server, 2 connections, overlap, all requests and all of the console | `ClientTypeOK`, `SessionsAgree`, `BlockListsAgree`, `RelayIsRight`, and the refinement `ImplementsServer` |
| `Framing.cfg` | 2 frames of 2 lengths, a buffer of 10, end tags in old memory and behind the buffer, both readers, sends that stop | `TypeOK`, `CallsEnd`, and the refinement `ImplementsReader` |
| `Lines.cfg` | all requests and raw lines to 6 characters, addresses to 16, lists of 3 hosts, 2 stored messages | `TokensAreWords`, `ValidIsQuad`, `ShownAsTyped`, `BacklogAsRelayed`, `ListArrives` |

*Bounds.* `Conns` bounds the sessions in a run: three are needed for a host to come
back while another is there, and are enough for a descriptor to be used again by
another host, for two sessions of a host to overlap with a third party listed,
and for the sort to leave three entries out of order. The system run has two, for
the two lists that each client keeps multiply its states; a host that comes back
and one that talks to it in turn are possible with them. `Totals.cfg` has four, for
three sessions of one host and one of the other. `MaxTyped` bounds the
frames of a session: two or three are what it takes for a read to coalesce a
request with the next, or to drop a LOGOUT. `LIST` sorts as `NEWCLIENT` and
`REFRESH` do; `Polite.cfg` leaves it to `Live.cfg` and `System.cfg`. `Fds` has as many descriptors as
there are connections, as the program has room for; the kernel gives the
lowest. `Ports` has two values, so that the list can be out of order and an
unset port can be on either side. Two texts tell order apart;
`InOrder` speaks of sessions in which no text was typed twice (`Sole`), the only
ones in which order can be seen. In `Framing` the
tags are two characters and begin alike, as the real ones do; of the two payloads
two of the shorter frames fit into the buffer, and the longer one takes three reads
and has its end tag cut in two by the second; one behind the other they straddle the
end of the buffer. Old memory is an end tag wherever a read ends, the one content
that could end a message too early. In `Lines` a word whose letters nobody
looks at is one character; 16 is one past the limit of `isValidIP`.

*Fairness.* `LiveSpec` has one assumption: the server's thread is scheduled (weak
fairness of the disjunction of its steps, as one thread deserves). Nothing makes a
client do anything, and nothing is assumed of how many frames a read takes. A second
read of a client that stays silent therefore stops the server for good; that is what
`ReadsOnlyActive.cfg` is about, no fairness of the code's prevents it, and it is the
premise of both liveness properties: they speak of behaviours in which the server
is out of such a read again and again (`[]<>~Blocked`). What they add is that this is
the only way: no session and no frame is forgotten because the list was erased from
or sorted under the index, a descriptor was reused, or a read took more than it
handled. The operator may type as he likes: a console command in the model needs
the same idle server as the loop, and weak fairness means that he leaves it a
turn some time; one who never does would starve the clients (`server.cpp:164`).
`Framing`: where data is ready the reader's thread goes on (`WF(Reader)`); the sender
need not, and `CallsEnd` speaks of those that do not wait in the middle of a frame for
ever (`[]<>~Stalled`).

### Where the code and its documents differ

Each of these runs checks one statement of the repository, and TLC shows a
behaviour of the code that breaks it.

| run | the statement | what happens |
|---|---|---|
| `ActiveHaveRecords.cfg` | `include/server.h:104` "all currently active clients" | the end of an old session erases the record of a host that is back |
| `ReadsOnlyActive.cfg` | `server.cpp:170` "client active in clients_sockets" | a sort during the loop makes it read a client twice and block |
| `LogoutKeepsRecord.cfg` | `README.md:54` "Server will save information" | a LOGOUT behind another frame is dropped; the session counts as EXIT |
| `Totals.cfg` | `README.md:13` "a total of messages sent and received" | a stored message is delivered and counted at every login that follows |
| `AnyCut.cfg` | `networkutil.cpp:68` "until a complete message is recognized" | of a frame cut into pieces by the network, a short piece is completed by what an earlier one left in the buffer |

The configurations below are of the same kind. They are not among the runs that
`PROJECT.json` lists; TLC finds each behaviour in seconds, with the module named.

| configuration | module | the statement | what happens |
|---|---|---|---|
| `SortedByPort.cfg` | `SortLoop` | `include/server.h:128` "sorted by port number" | the swap is inside the inner loop: the ports 2, 1, 2 stay in that order |
| `Forgotten.cfg` | `MCChatServer` | `README.md:63` "server will remove information" | BLOCKED looks a host up that has exited, and so makes an empty record for it |
| `Unheard.cfg` | `MCChatSystem` | `README.md:63`, the same | a client that exits while it is logged out has no way to say so |
| `ListOnLogin.cfg` | `MCChatSystem` | `README.md:12` "list of clients upon successful login" | the NEWLIST comes in one read with a message in front of it, and is lost |
| `Straddle.cfg` | `MCFraming` | `networkutil.cpp:68-69`, and left over data is "returned for the next read" | a read that fills the buffer with a frame and the head of the next loses that head, and a message nobody sent is made of the rest |
| `Overrun.cfg` | `MCFraming` | `networkutil.cpp:68` | a part of a frame fills the buffer, and the memory behind it becomes a part of the message |
| `Torn.cfg` | `MCFraming` | `client.cpp:182` "no disconnection while reading again" | the flag is declared twice, so a part of a frame is handled |

Further differences met while modelling, without a run of their own:

- a LOGOUT of an old session marks a host that is back offline
  (`server.cpp:539`), which is then the status `README.md:78` says is displayed;
- a host that sends nothing behind the address of a SEND sends the address
  (`server.cpp:323`);
- `UNBLOCK` wants the host in the client's list (`client.cpp:528`), of which
  `README.md:51` says nothing.

Properties that are true only when hosts wait for their last session to be
reaped are checked with `Overlap = FALSE`, and the runs above show that they
are false without it. `NoPhantoms` and `ImplementsMailboxes` also need an operator
who does not type `BLOCKED`: it looks up blocked addresses whose records may have
been erased, and the lookup makes records of them (`Forgotten.cfg`).

Operators whose comment begins with *Bug:* are not part of the model. Each is a
plausible mistake in the definition that follows it; with it in place, the
property named in `PROJECT.json` fails, which shows that the property watches
that code.

## What is proved

For every value of the constants that satisfies the named assumptions
`ConstantsAssumption` (the names are apart, the constants have the sets they should),
`SortAssumption`, `LinesAssumption` and `FramingAssumption`; hosts, connections,
descriptors and texts may be infinite in number. Where a theorem assumes more it says so
(`ASSUME ... PROVE`).

**`SelectionSort_proofs`**, for lists of any length and any ports:

- `SortRearranges`: the sorted list has every client exactly once

The two loops are recursive functions, so this is induction over data. The
library's induction theorems take the statement as an operator, which the provers
cannot instantiate; `SetInduction` says the same of a *set* of numbers, and follows
from the least element of its complement (`WFMin` of the library's well-founded
orders). `Stepwise` and `Iterate` make it a rule for loops: what the first state has
and each turn keeps, all of them have. What is kept is that the order is a
rearrangement (`TurnsRearrange`, by `SwapRearranges`). `ChatServer_proofs` uses the
theorem for each of the five handlers that sort.

**`ChatServer_proofs`** (any clients, overlapping sessions, any console):

- `TypesHold`: `Spec => []TypeOK`
- `SocketsAgree`: `Spec => []SocketsAreOpenDescriptors`
- `OnlineIsReachable`: `Spec => []OnlineHasLiveSocket`
- `RelaysAreRight`: `Spec => RelayIsRight`

The first three are proved together, from the inductive invariant `IInv`. None is
inductive alone: `logClientOut` may mark a record offline and remove an entry
only because descriptors are distinct and the entry it finds is the one the loop
is at; `Accept` may give a record a descriptor only because no entry has it; a
record stays reachable through a logout of *another* session of its host because
it names that session's own descriptor. Two conjuncts are there for the steps of
the clients: `BacklogHasPeers` (what waits to be accepted was opened by a host)
and `UnusedAreSilent` (nothing is written on an unused connection; otherwise the
login of a host could shorten what the server has already read). The argument
speaks of the *set* of entries (`SocketsByEntry`, `OnlineIn`), because a sort changes
only their order: `RearrangeEntries`, `RemoveEntry` and `AppendEntry` say what the three
operations on the vector do to that set. `RelaysAreRight` then follows step by step:
what was relayed went to a record that says online, hence to its host.

**`Mailboxes_proofs`** (`Overlap = FALSE`; the last two also `"BLOCKED" \notin Console`):

- `OnlineAgrees`: `Spec => []OnlineIffListed`
- `NoPhantomRecords`: `Spec => []NoPhantoms`
- `ServerImplementsMailboxes`: `Spec => ImplementsMailboxes`

All three rest on `Settled`: each host has at most one connection in the server's
hands, in the backlog or at a descriptor (`SessionsApart`), and every listed host
has an online record (`ListedOnline`). The second is not inductive without the
first: what erases a record, or marks it offline, is the end of a session, and
only if that was the host's one entry is nobody left listed without it. `IInv`
gives the converse. `RecordsSet` says that every record belongs to a host and has
its fields set; `BLOCKED` is the one lookup that can break it. For the refinement,
`Unheard` adds that nothing was sent to a connection before it was accepted, so
that a login starts an empty session, and `UnusedAreOpen` that no client has ended
on a connection it never opened. Each handler is then shown to be one step of
`Mailboxes` on the mapped state: its read takes what the session asked for next
(`ReadTakes`), and it does what that asks for (`LogoutLeaves`, `ExitForgets`,
`RelayPosts` and so on). What the server transmits is handed exactly
(`TransmitHands`): nothing is lost but at an end that is closed. A client's steps are
`Ask` and `Hangup`; those of the loop and of the console are invisible there.

**`ChatSystem_proofs`** (the server with the clients of `client.cpp`):

- `SystemImplementsServer`: `SysSpec => ImplementsServer`
- `ClientTypesHold`: `SysSpec => []ClientTypeOK`
- `SessionsStayAgreed`: `SysSpec => []SessionsAgree`
- `SystemRelaysAreRight`: `SysSpec => RelayIsRight`, by the refinement
- `SystemSpeaksInOrder`: `SysSpec => []InOrder`, by the refinement
- `BlockListsStayAgreed`: `SysSpec => []BlockListsAgree`
- `SystemOnlineAgrees`: `SysSpec => []OnlineIffListed`, for `Overlap = FALSE`
- `SystemSpeaksToAddressees`: `SysSpec => []OnlyAddressed`, and
  `SystemImplementsMailboxes`: `SysSpec => ImplementsMailboxes`, for `Overlap = FALSE`
  and `"BLOCKED" \notin Console`: one refinement behind the other, so the clients of
  `client.cpp` with the server are the relay that `Mailboxes` promises

The invariant `SysInv` adds to `IInv` that whatever address a client accepts was in a
list its host was sent (`ListsWereSent`) and that LOGOUT is only written together
with the closing of the socket (`LogoutCloses`). These need each other: a command
is one `ChatServer` expects because the list was sent, and the server's LOGOUT
handler closes nothing that is still open because the client closed it first. Of
the server's steps the proof needs only that they write nothing at the clients'
ends, take back nothing they sent (`Grown`) and give up no session whose client is
still there (`KeepsOpen`).

*The block lists.* `BlockListsAgree` speaks of moments at which the server has read everything; in
between, what a host has written and the server has not read yet turns the
record's block list into the client's. `Matches` in `ListsInv` says so of each host
nothing came between (`IPs \ apart`), by the *last* unread BLOCK or UNBLOCK of each
address rather than by a fold over the frames; that host has one session in the
server's hands at most (`Held`), and LOGOUT is the last frame of a session
(`LogoutLast`).

**`SortLoop_proofs`**, for lists of any length:

- `IndicesInRange`: the loops stay inside the vector
- `NoClientLost`: at each point every client is there once
- `HighestPortIsLast`: whatever else is out of order, the largest port is last,
  since nothing entry `i` is given is above all the entries after it
- `OrderedListKept`: an ordered list is not touched
- `LoopsComputeOperator`: the loops end with what `selectionSortArray` computes. The
  invariant `InStep` says where in the two recursive functions the loops are.

**`Messages_proofs`** (the server; sessions may overlap in the first theorem, the
second has `Overlap = FALSE` and `"BLOCKED" \notin Console`):

- `SpokenInOrder`: `Spec => []InOrder`
- `OnlyToAddressees`: `Spec => []OnlyAddressed`

Both follow each message back to the frame it was read from. `OrderInv` adds to
`InOrder` that every message sent or stored was read already (`AllRead`: so what is
read next comes after it) and that each store is in order (`StoreInOrder`: so a
backlog is, and may be put before what is relayed later). A broadcast is the hard
step: it writes to the connections and to the stores at once. `AddressedInv` says
of stores and of connections that each message was typed for the host that has it
(`StoredSaid`, `SentSaid`). It needs `Settled`, since a store travels to a connection
by the address of its record, and `RecordsSet`, since a record whose status was never
set lets `parseSEND` write to any descriptor.

**`Lines_proofs`**, for lines, alphabets, lists and texts of any size:

- `AddressesAreQuads`: `Spec => []ValidIsQuad`
- `TypedIsShown`: `Spec => []ShownAsTyped`
- `TokensFound`: `Spec => []TokensAreWords`
- `StoredIsShown`: `Spec => []BacklogAsRelayed`
- `ListIsKept`: `Spec => []ListArrives`

`isValidIP` counts octets and the length of the last; `OctetInv` says what these are
of the line: the number of its dots and the distance to the last one, with every
octet before it one to three digits long. That four such counts make a dotted quad
is `QuadByDots`. For the second, `TokenInv` says what `stringTokenize` has found of the
first two words; `TwoWords` then shows that the server, which looks for spaces
instead, finds the same address, and `ShownText` that the receiver finds the text
the server put in.

The others are about all words of a line, all lines of a backlog and all hosts of a
list. The reference definition `Pieces` cuts a string at all its separators at once, by
how many others are in front of each (`Cut`), while the loop goes over it character by
character; `PiecesGrow` connects the two: a character put behind a string adds an empty
piece if it is the separator, and belongs to the last piece if it is not. With that
`WordInv` (what the loop has found are the pieces of what it has read) is inductive, and
that is `TokensFound`. What the server puts together with a separator behind each part
comes apart into those parts (`EndedPieces`), provided no part has the separator in it.
For a backlog this is the invariant `StoredInv`: every stored message came from a line
that passed `doSEND`, which has no newline, and begins with an address, which has none
either. For the list there is one more thing to show: `find(b, CLIENTIP)` must not stop
inside the list. A host may be called `LIENTIP`, but in front of a host is always a
space (`Clear`). The inductions are over the characters and the parts, by `SetInduction`
as for the sort.

`LinesAssumption` says that lines begin with nothing or with SEND, that a line with a
newline in it is not a request (`client.cpp:72` reads up to the newline), and that
addresses have neither space nor newline.

**`Framing_proofs`**, for payloads, buffers and streams of any length:

- `ReadersFindFrames`: `Spec => ImplementsReader`, for `Whole = TRUE`
- `ReaderTypes`: `Spec => []TypeOK`, wherever reads end

The first is what lets the other modules speak of frames, as far as the code lets
them. `FramingInv` says where each frame is in the stream (`FrameAt`) and, until a
read mixes up frames, where the reader is (`Position`): at a frame's start between
calls; within a call at the beginning of a frame, of which it holds all it has read
(`Partly`). The one other place is behind the last frame, once the sender has stopped
in the middle of the next (`Exhausted`), where nothing is claimed of what is handled.
Neither buffer is cleared, so what matters is why the old characters do no harm. A
read that does not stray gets the end of the next frame, or it fills the buffer
without it and a NUL stands right behind (`Reaches`, `PieceReaches`). In the second
case nothing old is left, and the string is what was read. In the first the string
may be longer than what was read, by anything the memory held, but the end tag
stands in front of all that, and `find` stops there: `FrameFound` is what `find`,
`substr` and `parseFromSocket` make of a string that begins with a frame, `CallOutcome`
the argument about one read. What a reader guesses of a torn frame is some string or
a crash (`HandlesGuess`), which `FrameReader` allows there. `ReaderTypes` needs
`StreamInv` only and has none of the conditions.

`FramingAssumption` is about what is sent. Payloads are not empty: every sender
writes the type of the message first. They hold no character of the tags and no NUL.
The code does not see to that: nothing is escaped, and a user who types a tag
is cut short. The tags are scaled down to two characters, so that this excludes
`<` by itself too, which the code would get right.

*Only model-checked.* Liveness (`EndedSessionsAreReaped`, `RequestsAreRead`, `CallsEnd`) is
beyond the prover, and `PhantomsNeedOverlap` has no proof yet: the lemmas on the steps of
a session assume `ListedOnline`, which fails where sessions overlap. Every other
invariant and every action property that the passing runs check, and each of the three
refinements, is a theorem as well. The runs that find a difference to the documents
are TLC's alone.

## What is not modelled

- Full socket buffers in the server: a send of `ChatServer` never waits, so the
  deadlock of a client that does not read is not shown. In `Framing` a send may wait
  in the middle of a frame, for ever.
- A read that fails: `readFromSocket` tests only for 0, so the -1 of a reset
  connection makes it read again. The model has the end of the connection that
  the second read sees, not the stale buffer the first one leaves.
- Reads at arbitrary places, but in `AnyCut.cfg`: `Framing.cfg` and `ReadersFindFrames`
  assume that the network delivers a frame in one part, as it mostly does with
  short ones (`Whole`). Longer ones than the buffer are there, with what the full
  buffer can do. Without the assumption, or after a read that mixes up frames, the
  code does not implement `FrameReader`, as the runs show, and what `ChatServer` and
  `ChatClient` then do is not modelled.
- What clients do after the server has died (`select()` returns at once for ever),
  and the descriptor that is never set before the first login (`client.cpp:42`).
- `stringClean`, `toString`, `isValidPort`, `isSingleCommand`, `parseMessage`:
  straight-line string code without state or loops of interest.
- `main.cpp`, which keeps no state, and the build.
- The wording of what is printed and logged, host names and client numbers.

## Left to do

Bounded sockets in `ChatServer` (the wait of a send, and what it does to the other
clients); `FramingAssumption` with single characters of the tags in payloads.
