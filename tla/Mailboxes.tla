----------------------------- MODULE Mailboxes -----------------------------
(***************************************************************************)
(* What the relay server promises its hosts, without sockets, descriptors, *)
(* a list or a loop.  A host that arrived has a mailbox until it is        *)
(* forgotten.  Its session asks, and the relay does what it asks for when  *)
(* it takes it: a message for a host that is present is handed to its      *)
(* session, and lost only if the client of that session has ended; one for *)
(* a host that is away is kept; whoever asks is shown who is present.      *)
(* ChatServer implements it where sessions of a host do not overlap.       *)
(***************************************************************************)
EXTENDS Naturals, Sequences, FiniteSets

CONSTANTS Hosts, Sessions, NoSession, Requests

VARIABLES
    asked,     \* what each session has asked for, in order
    gone,      \* the sessions whose client has ended
    taken,     \* how much of what a session asked for the relay has taken
    current,   \* the session of each host that is known, NoSession while away
    stored,    \* the messages kept for it
    blocked,   \* whom it does not want to hear
    handed     \* what was handed to each session

asking == <<asked, gone>>
mailboxVars == <<asking, taken, current, stored, blocked, handed>>

Known == DOMAIN current
Present == {y \in Known : current[y] # NoSession}

Init ==
    /\ asked = [s \in Sessions |-> <<>>] /\ gone = {}
    /\ taken = [s \in Sessions |-> 0]
    /\ current = [y \in {} |-> NoSession]
    /\ stored = [y \in {} |-> <<>>]
    /\ blocked = [y \in {} |-> {}]
    /\ handed = [s \in Sessions |-> <<>>]

\* A session asks for something.  Its client ends after LOGOUT, or when it will.
Ask(s, r) ==
    /\ s \notin gone
    /\ asked' = [asked EXCEPT ![s] = Append(@, r)]
    /\ gone' = IF r.type = "LOGOUT" THEN gone \cup {s} ELSE gone
    /\ UNCHANGED <<taken, current, stored, blocked, handed>>

Hangup(s) ==
    /\ s \notin gone
    /\ gone' = gone \cup {s}
    /\ UNCHANGED <<asked, taken, current, stored, blocked, handed>>

\* What is handed to a session whose client has ended is lost.
Hand(mail) ==
    handed' = [s \in Sessions |->
                  IF s \in gone THEN handed[s] ELSE handed[s] \o mail[s]]

\* What x asks for next, and that the relay takes it.  What x asked for
\* right behind it may go with it, unseen.
Request(x) == asked[current[x]][taken[current[x]] + 1]

Takes(x, type) ==
    /\ x \in Present
    /\ taken[current[x]] < Len(asked[current[x]])
    /\ Request(x).type = type
    /\ \E k \in (taken[current[x]] + 1) .. Len(asked[current[x]]) :
          taken' = [taken EXCEPT ![current[x]] = k]
    /\ UNCHANGED asking

\* A host comes, to its old mailbox or to a new one, with a session that
\* nothing was handed to.  What was kept for it is handed over, and kept.
Arrive(y, s) ==
    /\ y \notin Present
    /\ handed[s] = <<>>
    /\ \A k \in Known : current[k] # s
    /\ current' = [k \in Known \cup {y} |-> IF k = y THEN s ELSE current[k]]
    /\ stored' = [k \in Known \cup {y} |->
                     IF k \in Known THEN stored[k] ELSE <<>>]
    /\ blocked' = [k \in Known \cup {y} |->
                      IF k \in Known THEN blocked[k] ELSE {}]
    /\ Hand([r \in Sessions |->
                IF r = s /\ y \in Known
                THEN <<[type |-> "BACKLOGGED_MESSAGES", msgs |-> stored[y]]>>
                ELSE <<>>])
    /\ UNCHANGED <<asking, taken>>

Leave(y) ==
    /\ Takes(y, "LOGOUT")
    /\ current' = [current EXCEPT ![y] = NoSession]
    /\ UNCHANGED <<stored, blocked, handed>>

\* The relay has taken all that y asked for, and y's client has ended.
Forget(y) ==
    /\ y \in Present
    /\ current[y] \in gone /\ taken[current[y]] = Len(asked[current[y]])
    /\ current' = [k \in Known \ {y} |-> current[k]]
    /\ stored' = [k \in Known \ {y} |-> stored[k]]
    /\ blocked' = [k \in Known \ {y} |-> blocked[k]]
    /\ UNCHANGED <<asking, taken, handed>>

\* x tells those in Y: once each, and only those that listen to x.
Tell(x, Y) ==
    LET m    == [type |-> "NEWMESSAGE", from |-> x, text |-> Request(x).text]
        ears == {y \in Y \cap Known : x \notin blocked[y]}
    IN  /\ stored' = [y \in Known |-> IF y \in ears \ Present
                                      THEN Append(stored[y], m)
                                      ELSE stored[y]]
        /\ Hand([s \in Sessions |->
                    IF \E y \in ears \cap Present : current[y] = s
                    THEN <<m>> ELSE <<>>])
        /\ UNCHANGED <<current, blocked>>

Post(x) == \/ Takes(x, "SEND") /\ Tell(x, {Request(x).to})
           \/ Takes(x, "BROADCAST") /\ Tell(x, Present \ {x})

\* The ways to list S, each member once.
Listings(S) == {ips \in [1 .. Cardinality(S) -> S] :
                   \A y \in S : \E k \in DOMAIN ips : ips[k] = y}

\* x is shown who is present: when it is new, and when it asks.
Show(x) ==
    /\ Takes(x, "NEWCLIENT") \/ Takes(x, "REFRESH")
    /\ \E ips \in Listings(Present) :
          Hand([s \in Sessions |->
                   IF s = current[x]
                   THEN <<[type |-> "NEWLIST", ips |-> ips]>> ELSE <<>>])
    /\ UNCHANGED <<current, stored, blocked>>

\* x does not want to hear someone, or does again.
Choose(x) ==
    /\ \/ /\ Takes(x, "BLOCK")
          /\ blocked' = [blocked EXCEPT ![x] = @ \cup {Request(x).ip}]
       \/ /\ Takes(x, "UNBLOCK")
          /\ blocked' = [blocked EXCEPT ![x] = @ \ {Request(x).ip}]
    /\ UNCHANGED <<current, stored, handed>>

Next ==
    \/ \E s \in Sessions : Hangup(s) \/ \E r \in Requests : Ask(s, r)
    \/ \E x \in Hosts : \/ \E s \in Sessions : Arrive(x, s)
                        \/ Leave(x) \/ Forget(x) \/ Post(x) \/ Show(x) \/ Choose(x)

Spec == Init /\ [][Next]_mailboxVars
=============================================================================
