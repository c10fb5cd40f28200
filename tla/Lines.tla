------------------------------- MODULE Lines -------------------------------
(***************************************************************************)
(* What is in a frame: the line the user types, taken apart by the loops   *)
(* of src/util.cpp, the messages the server makes of it, and what the      *)
(* receiving client shows.  The loops that go over a line character by     *)
(* character are steps of a state machine, so that every line over an      *)
(* alphabet is scanned; the rest are operators on strings.                 *)
(*                                                                         *)
(* A word whose letters nobody looks at is one character: an address in a  *)
(* request, a message type.  CLIENTIP is two, because the client cuts it.  *)
(***************************************************************************)
EXTENDS Strings, SequencesExt, FiniteSets

CONSTANTS
    Alphabets,   \* records [start, chars, max]: lines that begin with start,
                 \* go on with chars and have at most max characters
    Hosts,       \* addresses
    me,          \* the host the line is typed at
    MaxStored    \* bound: messages in store

SP == "SP"   \* the space

\* A line begins with nothing or with SEND.  What the user types goes up to the
\* newline (src/client.cpp:72), so that no request has one; no host has a space
\* or a newline in its address.
ASSUME LinesAssumption ==
    /\ \A a \in Alphabets :
          /\ a.start \in {<<>>, <<"SEND">>}
          /\ "\n" \in a.chars => a.start = <<>> /\ "SEND" \notin a.chars
    /\ {SP, "\n"} \cap (Hosts \cup {me}) = {}

VARIABLES
    alphabet,
    line,        \* what has been scanned
    tokenized, command, broken,     \* stringTokenize: it ends at a newline
    octet, octets, digits,          \* isValidIP: length of the octet it is
                                    \* in, octets before it, nothing else seen
    stored       \* storedMessages of the receiver

scanVars == <<line, tokenized, command, broken, octet, octets, digits>>
lineVars == <<alphabet, scanVars, stored>>

\* Both loops start from nothing; alphabet.start has no separator in it.
Init ==
    /\ alphabet \in Alphabets
    /\ line = alphabet.start
    /\ tokenized = <<>> /\ command = line /\ broken = FALSE
    /\ octet = 0 /\ octets = 0 /\ digits = (line = <<>>)
    /\ stored = <<>>

\* A turn of the loop in stringTokenize.  What it does at the last character,
\* and with what is left behind it, is in Tokens.
Tokenize(ch) ==
    IF broken THEN UNCHANGED <<tokenized, command, broken>>
    ELSE /\ broken' = (ch = "\n")
         /\ IF ch \in {SP, "\n"}
            THEN tokenized' = Append(tokenized, command) /\ command' = <<>>
            ELSE command' = Append(command, ch) /\ UNCHANGED tokenized

\* Bug: the last word is forgotten.
TokensButLast == tokenized
Tokens == IF command = <<>> THEN tokenized ELSE Append(tokenized, command)

\* A turn of the loop in isValidIP.
Octet(ch) ==
    IF ch = "."
    THEN /\ octet' = 0 /\ octets' = octets + 1
         /\ digits' = (digits /\ octet \in 1 .. 3)
    ELSE /\ octet' = octet + 1 /\ UNCHANGED octets
         /\ digits' = (digits /\ ch = "d")

\* Bug: the last octet is not looked at.
isValidIPButLast == /\ Len(line) \in 7 .. 15
                    /\ digits
                    /\ octets + (IF octet > 0 THEN 1 ELSE 0) = 4
isValidIP ==
    /\ Len(line) \in 7 .. 15
    /\ digits /\ octet \in 0 .. 3
    /\ octets + (IF octet > 0 THEN 1 ELSE 0) = 4

Scan(ch) ==
    /\ Len(line) < alphabet.max
    /\ line' = Append(line, ch)
    /\ Tokenize(ch)
    /\ Octet(ch)
    /\ UNCHANGED <<alphabet, stored>>

-----------------------------------------------------------------------------
(* Messages. *)

\* The first word of s, and what is behind it; all of s if it has no space.
Word(s) == substr(s, 0, find(s, <<SP>>))
Rest(s) == substr(s, find(s, <<SP>>) + 1, npos)

\* client::doSEND: a valid address the client knows, and no more is checked.
doSEND == /\ Len(Tokens) >= 2
          /\ Tokens[1] = <<"SEND">>
          /\ Tokens[2] \in {<<h>> : h \in Hosts}

\* server::parseSEND of the line as it was typed.
toIP(s) == Word(Rest(s))

\* Bug: the words of the message are put together again.
input_msgOfWords(from, s) ==
    <<"NEWMESSAGE", SP, from, SP>>
        \o SelectSeq(Rest(Rest(s)), LAMBDA ch : ch # SP)
input_msg(from, s) == <<"NEWMESSAGE", SP, from, SP>> \o Rest(Rest(s))

\* What the receiver shows of a NEWMESSAGE.
parseNEWMESSAGE(b) == [from |-> Word(Rest(b)), text |-> Rest(Rest(b))]

\* addClient's frame of the stored messages.
Backlog(msgs) ==
    <<"BACKLOGGED_MESSAGES", SP>> \o FlattenSeq([k \in DOMAIN msgs |->
                                                    Append(msgs[k], "\n")])

\* Where s is cut: in front, at the separators, and behind; and the place of the
\* cut with j others in front of it.
Cuts(s, sep) == {0, Len(s) + 1} \cup {k \in DOMAIN s : s[k] = sep}
Cut(s, sep, j) ==
    CHOOSE k \in Cuts(s, sep) : Cardinality({l \in Cuts(s, sep) : l < k}) = j

\* What is between the cuts.
Pieces(s, sep) ==
    [j \in 1 .. Cardinality(Cuts(s, sep)) - 1 |->
        SubSeq(s, Cut(s, sep, j - 1) + 1, Cut(s, sep, j) - 1)]

\* The lines of s with their newlines; what has none behind it is dropped.
TerminatedLines(s) ==
    LET lines == Front(Pieces(s, "\n"))
    IN  [k \in DOMAIN lines |-> Append(lines[k], "\n")]

\* Bug: the message type is not removed first.
parseBACKLOGWithType(b) ==
    LET lines == TerminatedLines(b)
    IN  [k \in DOMAIN lines |-> parseNEWMESSAGE(lines[k])]
parseBACKLOGGEDMSG(b) ==
    LET lines == TerminatedLines(Rest(b))
    IN  [k \in DOMAIN lines |-> parseNEWMESSAGE(lines[k])]

\* server::sendListAndIPs: a line with number, name, address and port for
\* each host, and the addresses once more.
List(ips) ==
    FlattenSeq([k \in DOMAIN ips |->
                   <<"id", SP, "name", SP, ips[k], SP, "port", "\n">>])
getOnlineIpAddresses(ips) == FlattenSeq([k \in DOMAIN ips |-> <<ips[k], SP>>])
CLIENTIP == <<"C", "LIENTIP", SP>>
sendListAndIPs(ips) ==
    <<"NEWLIST", SP>> \o List(ips) \o CLIENTIP \o getOnlineIpAddresses(ips)

\* What stringTokenize makes of a line without newline.
WordsOf(s) ==
    LET words == Pieces(s, SP)
    IN  IF Last(words) = <<>> THEN Front(words) ELSE words

\* client::parseNEWLIST.  The length of the list is computed as one too few,
\* which cuts its newline off, and a newline is added.  What is left of
\* CLIENTIP is the first word of the addresses.
\* Bug: the length is right, and a newline is added.
parseNEWLISTLonger(b) ==
    LET at == find(b, CLIENTIP)
    IN  [list |-> Append(substr(b, 2, at - 2), "\n"),
         ips |-> Tail(WordsOf(substr(b, at + 1, npos)))]
parseNEWLIST(b) ==
    LET at == find(b, CLIENTIP)
    IN  [list |-> Append(substr(b, 2, at - Len(CLIENTIP)), "\n"),
         ips |-> Tail(WordsOf(substr(b, at + 1, npos)))]

\* The receiver is away: the message is stored, the next line begins.
Send ==
    /\ doSEND
    /\ Len(stored) < MaxStored
    /\ stored' = Append(stored, input_msg(me, line))
    /\ line' = alphabet.start
    /\ tokenized' = <<>> /\ command' = line' /\ broken' = FALSE
    /\ octet' = 0 /\ octets' = 0 /\ digits' = (line' = <<>>)
    /\ UNCHANGED alphabet

Next == Send \/ \E ch \in alphabet.chars : Scan(ch)

Spec == Init /\ [][Next]_lineVars

-----------------------------------------------------------------------------
(* Properties. *)

\* stringTokenize, turn by turn, comes to the words of the first line: what is
\* between single spaces, the empty ones too, but for an empty last word, which
\* is there only if a newline is behind it.
TokensAreWords ==
    Tokens = IF broken THEN Pieces(Pieces(line, "\n")[1], SP)
             ELSE WordsOf(line)

\* Three dots, and one to three digits before, between and behind them.
Quad(s) ==
    LET dots == {l \in DOMAIN s : s[l] = "."}
    IN  /\ Cardinality(dots) = 3
        /\ \E i, j, k \in dots :
              {i - 1, j - i - 1, k - j - 1, Len(s) - k} \subseteq 1 .. 3
        /\ \A l \in DOMAIN s \ dots : s[l] = "d"

\* isValidIP accepts dotted quads of up to three digits, of any value, and
\* those with a dot behind them that are not longer than 15 for it.
ValidIsQuad ==
    isValidIP <=> \/ Quad(line)
                  \/ /\ line # <<>> /\ Last(line) = "."
                     /\ Quad(Front(line)) /\ Len(line) <= 15

\* Of a line that doSEND lets pass, the address the server reads is the one
\* the client checked, and what the receiver shows is from this host and is the
\* text behind the address as it was typed, every space of it; only a line
\* without a text sends its address.
ShownAsTyped ==
    doSEND =>
        LET shown == parseNEWMESSAGE(input_msg(me, line))
            head  == <<"SEND", SP>> \o Tokens[2]
        IN  /\ toIP(line) = Tokens[2]
            /\ shown.from = <<me>>
            /\ line = IF line = head THEN head
                      ELSE head \o <<SP>> \o shown.text

\* A host that was away is shown every stored message, in order, from the same
\* sender and with the same text as if it had been relayed, and a newline.
BacklogAsRelayed ==
    parseBACKLOGGEDMSG(Backlog(stored)) =
        [k \in DOMAIN stored |->
            LET shown == parseNEWMESSAGE(stored[k])
            IN  [shown EXCEPT !.text = Append(@, "\n")]]

\* The list and the addresses that the client keeps are those the server sent,
\* for any hosts in any order (here line).
ListArrives ==
    line \in Seq(Hosts) \ {<<>>} =>
        parseNEWLIST(sendListAndIPs(line)) =
            [list |-> List(line), ips |-> [k \in DOMAIN line |-> <<line[k]>>]]
=============================================================================
