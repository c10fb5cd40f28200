------------------------------ MODULE Framing ------------------------------
(***************************************************************************)
(* One direction of a connection at the grain of characters: frames        *)
(* between tags on a stream without boundaries (sendOverSocket), and the   *)
(* two loops that find them again: readFromSocket in the server, and the   *)
(* one in the client's startClient.  Both read into a buffer, take it for  *)
(* a string, and read on until they have seen both tags.                   *)
(*                                                                         *)
(* The lengths of the tags (11 and 9) and of the buffer (1025) are scaled  *)
(* down.                                                                   *)
(***************************************************************************)
EXTENDS Strings, FiniteSets, SequencesExt

CONSTANTS
    Payloads,    \* what may be sent
    bufsize,
    MaxFrames,   \* bound: frames sent
    Sides,       \* who may be at the reading end: "server", "client"
    Torn,        \* those whose peer may stop in the middle of a send
    Whole,       \* does a read take all there is, or end with a frame?
    Stale,       \* what new memory for the buffer may hold
    Behind       \* what the memory behind the buffer may hold up to a NUL

VARIABLES
    side,        \* who reads
    frames,      \* payloads sent
    ends,        \* where in the stream each of them ends
    stream,
    closed,      \* the sender has ended
    pos,         \* characters read
    busy,        \* the reader is in the loop that waits for the rest
    buffer,
    msg,         \* what the call has collected
    handled,     \* what the calls gave to the parser of messages
    running,     \* the reader has not given up the connection or crashed
    astray       \* history: a read has mixed up frames, see Strays

sent == <<frames, ends, stream, closed>>
framingVars == <<side, sent, pos, busy, buffer, msg, handled, running, astray>>

\* The tags begin alike.
begin_msg == <<"<", "B">>
end_msg == <<"<", "E">>

Frame(p) == begin_msg \o p \o end_msg

\* Payloads that are not empty (every sender writes at least the type of the
\* message) and hold no character of the tags and no NUL: nothing escapes them,
\* and the code relies on nobody typing a tag.
Letters == UNION {Range(p) : p \in Payloads}

ASSUME FramingAssumption ==
    /\ Payloads \subseteq Seq(Letters) \ {<<>>}
    /\ Letters \cap {"<", "B", "E", NUL} = {}
    /\ bufsize \in Nat \ {0}
    /\ Sides \subseteq {"server", "client"}
    /\ Stale \subseteq [1 .. bufsize -> Letters \cup {"<", "B", "E", NUL}]
    /\ Behind \subseteq Seq(Letters \cup {"<", "B", "E"})

Blank == [k \in 1 .. bufsize |-> NUL]

Init ==
    /\ side \in Sides
    /\ frames = <<>> /\ ends = <<>> /\ stream = <<>> /\ closed = FALSE
    /\ pos = 0 /\ busy = FALSE
    /\ buffer = Blank /\ msg = <<>>
    /\ handled = <<>> /\ running = TRUE /\ astray = FALSE

reading == <<side, pos, busy, buffer, msg, handled, running, astray>>

\* Where frame k begins, and where the last frame ends.
Start(k) == IF k = 1 THEN 0 ELSE ends[k - 1]
LastEnd == Start(Len(ends) + 1)

\* Behind the last frame is the part of one that was not sent to its end.
Partial == Len(stream) > LastEnd

\* send() has taken the whole frame, as it does on a blocking socket before it
\* returns: the loop behind it, for a short count, does not run.
sendOverSocket(p) ==
    /\ ~closed /\ ~Partial
    /\ Len(frames) < MaxFrames
    /\ frames' = Append(frames, p)
    /\ stream' = stream \o Frame(p)
    /\ ends' = Append(ends, Len(stream'))
    /\ UNCHANGED <<closed, reading>>

\* It has taken a part of the frame, and waits for room for the rest: for ever,
\* or until the process ends.  (If the rest follows, this is sendOverSocket.)
SendStuck(p) ==
    /\ ~closed /\ ~Partial /\ side \in Torn
    /\ \E n \in 1 .. (Len(Frame(p)) - 1) :
          stream' = stream \o SubSeq(Frame(p), 1, n)
    /\ UNCHANGED <<frames, ends, closed, reading>>

Close ==
    /\ ~closed
    /\ closed' = TRUE
    /\ UNCHANGED <<frames, ends, stream, reading>>

-----------------------------------------------------------------------------
(* Taking frames apart. *)

Complete(s) == find(s, begin_msg) # npos /\ find(s, end_msg) # npos

\* networkutil::parseFromSocket.  It throws where the end tag comes first and
\* less than a begin tag before it.
Throws(s) ==
    LET m == substr(s, 0, find(s, end_msg))
    IN  /\ find(s, begin_msg) # npos
        /\ find(m, begin_msg) + Len(begin_msg) > Len(m)

parseFromSocket(s) ==
    LET m == substr(s, 0, find(s, end_msg))
    IN  IF find(s, begin_msg) = npos THEN <<>>
        ELSE substr(m, find(m, begin_msg) + Len(begin_msg), npos)

\* What readFromSocket returns as results[0].  The second argument of substr
\* is a length: it fits, and cuts the end tag off, if the begin tag is first.
\* (results[1], the left over data, is this same string: the end tag is gone
\* and npos + 1 is 0.  Nobody reads it.)
ServerResult(s) == substr(s, find(s, begin_msg), find(s, end_msg))

\* The message goes to its handler.  The client takes the first word of an
\* empty message, which has none, and crashes.
Handle(s) ==
    \E m \in {IF side = "server" THEN ServerResult(s) ELSE s} :
        IF Throws(m) \/ (side = "client" /\ parseFromSocket(m) = <<>>)
        THEN running' = FALSE /\ UNCHANGED handled
        ELSE handled' = Append(handled, parseFromSocket(m)) /\ UNCHANGED running

-----------------------------------------------------------------------------
(* read(). *)

\* The n characters of one read: any that are there, up to the buffer's size.
\* With Whole = TRUE it takes all of them, or as many as the buffer has room for,
\* or ends with a frame because the next was not there yet: no frame that is sent
\* to its end arrives in two parts.
Piece(n) ==
    /\ n <= bufsize /\ pos + n <= Len(stream)
    /\ Whole => \/ \E k \in DOMAIN ends : ends[k] = pos + n
                \/ n = bufsize
                \/ pos + n = Len(stream)

\* A read after which frames are mixed up.  It ends inside a frame that it began
\* behind another, and this beginning is lost; or it fills the buffer with a part
\* of a frame, and what stands behind the buffer becomes a part of the message.
Strays(n, w) ==
    \/ \E k \in DOMAIN ends :
          pos < Start(k) /\ Start(k) < pos + n /\ pos + n < ends[k]
    \/ /\ n = bufsize /\ w # <<>>
       /\ \A k \in DOMAIN ends : ends[k] \notin (pos + 1) .. (pos + n)

\* The buffer after a read of n characters into b.  Bug: they are put behind
\* what is there.
FilledBehind(b, n) == b \o SubSeq(stream, pos + 1, pos + n)
Filled(b, n) == [k \in 1 .. bufsize |-> IF k <= n THEN stream[pos + k] ELSE b[k]]

\* What the call has collected is a whole message, or it reads on.
Collect(s) ==
    /\ msg' = s
    /\ busy' = ~Complete(msg')
    /\ IF busy' THEN UNCHANGED <<handled, running>> ELSE Handle(msg')

\* A read of n characters into b, by a call that has c.  The string that begins
\* in the buffer goes on behind it, up to the first NUL.
Read(c, b, n) ==
    /\ Piece(n)
    /\ buffer' = Filled(b, n)
    /\ pos' = pos + n
    /\ \E w \in Behind : /\ Collect(c \o string(buffer' \o w))
                         /\ astray' = (astray \/ Strays(n, w))
    /\ UNCHANGED <<side, sent>>

\* The first read of a call, into a new buffer that nobody clears: it holds what
\* the memory did, perhaps what the last read left in it (the client frees its
\* buffer, the server the strings it made of it).
ReadFirst ==
    /\ running /\ ~busy
    /\ \E n \in 1 .. bufsize, b \in Stale \cup {Blank, buffer} : Read(<<>>, b, n)

\* A further read of the call goes into the same buffer.
\* Bug: what the call had is forgotten.
ReadMoreForgets ==
    /\ running /\ busy
    /\ \E n \in 1 .. bufsize : Read(<<>>, buffer, n)

ReadMore ==
    /\ running /\ busy
    /\ \E n \in 1 .. bufsize : Read(msg, buffer, n)

AtEnd == running /\ closed /\ pos = Len(stream)

\* The server takes any read of nothing for the end of the session.
\* Bug: only the first of a call.
ServerEOFIgnored ==
    /\ side = "server" /\ AtEnd /\ ~busy
    /\ running' = FALSE
    /\ UNCHANGED <<side, sent, pos, busy, buffer, msg, handled, astray>>

ServerEOF ==
    /\ side = "server" /\ AtEnd
    /\ running' = FALSE /\ busy' = FALSE
    /\ UNCHANGED <<side, sent, pos, buffer, msg, handled, astray>>

\* The client ignores a first read of nothing, again and again.  A later one
\* ends the loop, and what there is is handled: the flag that was to prevent
\* it is another variable of the same name.
ClientEOF ==
    /\ side = "client" /\ AtEnd /\ busy
    /\ busy' = FALSE
    /\ Handle(msg)
    /\ UNCHANGED <<side, sent, pos, buffer, msg, astray>>

Reader == ReadFirst \/ ReadMore \/ ServerEOF \/ ClientEOF

Next == \/ Reader
        \/ \E p \in Payloads : sendOverSocket(p) \/ SendStuck(p)
        \/ Close

\* Where data is ready the reader's thread goes on.
Spec == Init /\ [][Next]_framingVars /\ WF_framingVars(Reader)

-----------------------------------------------------------------------------
(* Properties. *)

\* The variables have their types, and no read goes past the stream.
TypeOK ==
    /\ side \in Sides
    /\ frames \in Seq(Payloads) /\ ends \in Seq(Nat)
    /\ closed \in BOOLEAN /\ busy \in BOOLEAN /\ running \in BOOLEAN
    /\ astray \in BOOLEAN
    /\ pos \in 0 .. Len(stream)
    /\ Len(buffer) = bufsize

\* The frames that are read, with the end.
Taken == Cardinality({k \in DOMAIN ends : ends[k] <= pos})

\* Refinement: where no frame arrives in two parts, whatever the buffer held
\* before, both readers do what ChatServer and ChatClient assume: each call
\* handles the next frame, whole.  Of a frame that is not sent to its end either
\* may handle something else; and nothing is said of what follows a read that
\* mixes up frames.
Reads == INSTANCE FrameReader WITH taken <- Taken, torn <- Partial

ImplementsReader == Reads!Spec

\* The sender waits in the middle of a frame.
Stalled == Partial /\ ~closed

\* A call of the reader that began ends, with a frame or with the connection,
\* unless the sender waits for ever in the middle of a frame or frames are mixed
\* up: until it does, the server serves nobody and the client hears no user.
CallsEnd == []<>~Stalled => (busy ~> (~busy \/ astray))

-----------------------------------------------------------------------------
(* What the repository says of reading and the code does not keep. *)

\* src/networkutil.cpp:68 "Read until a complete message is recognized. Any left
\* over data will be saved in a string and returned for the next read", and
\* src/client.cpp:182 "Make sure there was no disconnection while reading again":
\* what is handled was sent.
OnlyWholeMessages ==
    \A k \in DOMAIN handled : \E j \in DOMAIN frames : handled[k] = frames[j]
=============================================================================
