---------------------------- MODULE Lines_proofs ----------------------------
(***************************************************************************)
(* For lines of any length over any alphabet: isValidIP accepts what it is *)
(* said to accept, stringTokenize finds the words of the line, and a       *)
(* message is shown by its receiver as it was typed, at once or stored.    *)
(* For any hosts: the client keeps the list that the server sent.          *)
(***************************************************************************)
EXTENDS Lines, TLAPS, FiniteSetTheorems, SequenceTheorems,
        WellFoundedInduction

\* The characters of the lines over an alphabet.
Letters(a) == a.chars \cup {"SEND"}

\* Where a line over the first alphabet begins with nothing, SEND is no part of
\* it unless the alphabet has it.
Own(a) == IF a.start = <<>> THEN a.chars ELSE Letters(a)

LineType ==
    /\ alphabet \in Alphabets
    /\ line \in Seq(Own(alphabet))
    /\ tokenized \in Seq(Seq(Own(alphabet)))
    /\ command \in Seq(Own(alphabet))
    /\ broken \in BOOLEAN
    /\ octet \in Nat /\ octets \in Nat /\ digits \in BOOLEAN

\* What a line begins with.
LEMMA StartType ==
    ASSUME NEW a \in Alphabets PROVE a.start \in Seq(Own(a))
<1>1. CASE a.start = <<>>
    BY <1>1
<1>2. CASE a.start = <<"SEND">>
  <2>1. <<"SEND">> # <<>> /\ "SEND" \in Letters(a)
    BY DEF Letters
  <2>2. Own(a) = Letters(a)
    BY <1>2, <2>1 DEF Own
  <2> QED BY <1>2, <2>1, <2>2
<1> QED BY <1>1, <1>2, LinesAssumption

\* The variables have their types.
LEMMA InitType == Init => LineType
<1> SUFFICES ASSUME Init PROVE LineType
    OBVIOUS
<1>1. alphabet \in Alphabets /\ alphabet.start \in Seq(Own(alphabet))
    BY StartType DEF Init
<1>2. digits \in BOOLEAN
    BY DEF Init
<1>3. tokenized = <<>> /\ broken \in BOOLEAN /\ octet \in Nat /\ octets \in Nat
    BY DEF Init
<1>4. line = alphabet.start /\ command = alphabet.start
    BY DEF Init
<1>5. <<>> \in Seq(Seq(Own(alphabet)))
    OBVIOUS
<1> QED BY <1>1, <1>2, <1>3, <1>4, <1>5 DEF LineType

\* A turn of the loops keeps the types.
LEMMA ScanType == LineType /\ (\E ch \in alphabet.chars : Scan(ch)) => LineType'
<1> SUFFICES ASSUME LineType, NEW ch \in alphabet.chars, Scan(ch) PROVE LineType'
    OBVIOUS
<1>1. ch \in Own(alphabet) /\ alphabet' = alphabet
    BY DEF Scan, Own, Letters
<1>2. line' \in Seq(Own(alphabet))
    BY <1>1 DEF Scan, LineType
<1>3. /\ tokenized' \in Seq(Seq(Own(alphabet)))
      /\ command' \in Seq(Own(alphabet))
      /\ broken' \in BOOLEAN
  <2>1. CASE broken
    BY <2>1 DEF Scan, Tokenize, LineType
  <2>2. CASE ~broken
    <3>1. broken' \in BOOLEAN
      BY <2>2 DEF Scan, Tokenize
    <3>0. /\ tokenized \in Seq(Seq(Own(alphabet)))
          /\ command \in Seq(Own(alphabet))
      BY DEF LineType
    <3>2. CASE ch \in {SP, "\n"}
      <4>1. tokenized' = Append(tokenized, command) /\ command' = <<>>
        BY <2>2, <3>2 DEF Scan, Tokenize
      <4> QED BY <3>0, <3>1, <4>1
    <3>3. CASE ch \notin {SP, "\n"}
      <4>1. tokenized' = tokenized /\ command' = Append(command, ch)
        BY <2>2, <3>3 DEF Scan, Tokenize
      <4> QED BY <1>1, <3>0, <3>1, <4>1
    <3> QED BY <3>2, <3>3
  <2> QED BY <2>1, <2>2
<1>4. octet' \in Nat /\ octets' \in Nat
    BY DEF Scan, Octet, LineType
<1>5. digits' \in BOOLEAN
    BY DEF Scan, Octet
<1> QED BY <1>1, <1>2, <1>3, <1>4, <1>5 DEF LineType

\* So does sending the line and beginning the next.
LEMMA SendType == LineType /\ Send => LineType'
<1> SUFFICES ASSUME LineType, Send PROVE LineType'
    OBVIOUS
<1>1. alphabet' = alphabet /\ alphabet.start \in Seq(Own(alphabet))
    BY StartType DEF Send, LineType
<1>2. digits' \in BOOLEAN
    BY DEF Send
<1>3. tokenized' = <<>> /\ broken' \in BOOLEAN
      /\ octet' \in Nat /\ octets' \in Nat
    BY DEF Send
<1>4. line' = alphabet.start /\ command' = alphabet.start
    BY DEF Send
<1>5. alphabet \in Alphabets
    BY DEF LineType
<1>6. <<>> \in Seq(Seq(Own(alphabet)))
    OBVIOUS
<1> QED BY <1>1, <1>2, <1>3, <1>4, <1>5, <1>6 DEF LineType

-----------------------------------------------------------------------------
(* Addresses. *)

\* No character but digits and dots.
Clean(s) == \A l \in DOMAIN s : s[l] \in {"d", "."}

\* p says where the dots of s are, one after the other; p[0] is before s.
DotsAt(p, s, m) ==
    /\ p \in [0 .. m -> Nat]
    /\ p[0] = 0
    /\ \A k, h \in 0 .. m : k < h => p[k] < p[h]
    /\ \A k \in 1 .. m : p[k] <= Len(s) /\ s[p[k]] = "."
    /\ \A l \in DOMAIN s : s[l] = "." => \E k \in 1 .. m : l = p[k]

\* One to three characters before each dot.
Gaps(p, m) == \A k \in 1 .. m : p[k] - p[k - 1] - 1 \in 1 .. 3

\* What isValidIP has counted, in a line of digits and dots.
Counted(p) == /\ DotsAt(p, line, octets)
              /\ octet = Len(line) - p[octets]
              /\ digits <=> Gaps(p, octets)

OctetInv == /\ digits => Clean(line)
            /\ Clean(line) => \E p : Counted(p)

\* A line is begun: nothing is counted yet.
OctetsStart == /\ alphabet \in Alphabets /\ line = alphabet.start
               /\ octet = 0 /\ octets = 0 /\ digits = (line = <<>>)

\* It is empty, or does not count.
LEMMA StartOctets == OctetsStart => OctetInv
<1> SUFFICES ASSUME OctetsStart PROVE OctetInv
    OBVIOUS
<1> USE DEF OctetsStart
<1>1. CASE line = <<>>
  <2> DEFINE p == [k \in 0 .. 0 |-> 0]
  <2>1. DotsAt(p, line, 0) /\ Gaps(p, 0) /\ Len(line) - p[0] = 0
    BY <1>1 DEF DotsAt, Gaps
  <2>2. Counted(p)
    BY <1>1, <2>1 DEF Counted
  <2> QED BY <1>1, <2>2 DEF OctetInv, Clean
<1>2. CASE line = <<"SEND">>
  <2>1. 1 \in DOMAIN line /\ line[1] = "SEND" /\ line # <<>>
    BY <1>2
  <2> QED BY <2>1 DEF OctetInv, Clean
<1> QED BY <1>1, <1>2, LinesAssumption

\* A turn of isValidIP's loop.
LEMMA ScanOctets ==
    LineType /\ OctetInv /\ (\E ch \in alphabet.chars : Scan(ch)) => OctetInv'
<1> SUFFICES ASSUME LineType, OctetInv, NEW ch \in alphabet.chars, Scan(ch)
             PROVE  OctetInv'
    OBVIOUS
<1>1. /\ Len(line) \in Nat /\ DOMAIN line = 1 .. Len(line)
      /\ Len(line') = Len(line) + 1 /\ DOMAIN line' = 1 .. (Len(line) + 1)
      /\ line'[Len(line) + 1] = ch
      /\ \A l \in 1 .. Len(line) : line'[l] = line[l]
      /\ octet \in Nat /\ octets \in Nat /\ digits \in BOOLEAN
  <2>1. line \in Seq(Own(alphabet)) /\ line' = Append(line, ch)
    BY DEF LineType, Scan
  <2> QED BY <2>1 DEF LineType
<1>2. Clean(line') <=> Clean(line) /\ ch \in {"d", "."}
    BY <1>1 DEF Clean
<1>3. digits' => Clean(line')
  <2>1. digits' => digits /\ ch \in {"d", "."}
    BY <1>1 DEF Scan, Octet
  <2> QED BY <1>2, <2>1 DEF OctetInv
<1>4. ASSUME Clean(line')
      PROVE  \E p : Counted(p)'
  <2>1. PICK p : Counted(p)
    BY <1>2, <1>4 DEF OctetInv
  <2>2. DotsAt(p, line, octets) /\ octet = Len(line) - p[octets]
        /\ (digits <=> Gaps(p, octets))
    BY <2>1 DEF Counted
  <2>3. CASE ch = "."
    <3>1. octet' = 0 /\ octets' = octets + 1 /\ digits' = (digits /\ octet \in 1 .. 3)
      BY <2>3 DEF Scan, Octet
    <3> PICK e, q : /\ e = octets + 1
                    /\ q = [k \in 0 .. e |-> IF k = e THEN Len(line) + 1 ELSE p[k]]
      OBVIOUS
    <3>2. /\ q \in [0 .. e -> Nat] /\ q[e] = Len(line) + 1
          /\ \A k \in 0 .. octets : q[k] = p[k]
      BY <1>1, <2>2 DEF DotsAt
    <3>3. p[octets] \in Nat /\ p[octets] <= Len(line)
      BY <1>1, <2>2 DEF DotsAt
    <3>4. DotsAt(q, line', e)
      <4>1. q[0] = 0
        BY <1>1, <2>2, <3>2 DEF DotsAt
      <4>2. ASSUME NEW k \in 1 .. e
            PROVE  q[k] <= Len(line') /\ line'[q[k]] = "."
        <5>1. CASE k = e
          BY <1>1, <2>3, <3>2, <5>1
        <5>2. CASE k # e
          <6>1. k \in 1 .. octets /\ k \in 0 .. octets
            BY <1>1, <5>2
          <6>2. p[k] <= Len(line) /\ line[p[k]] = "." /\ p[k] \in Nat /\ p[k] > 0
            BY <1>1, <2>2, <6>1 DEF DotsAt
          <6> QED BY <1>1, <3>2, <6>1, <6>2
        <5> QED BY <5>1, <5>2
      <4>4. ASSUME NEW k \in 0 .. e, NEW h \in 0 .. e, k < h
            PROVE  q[k] < q[h]
        <5>1. k \in 0 .. octets /\ p[k] \in Nat /\ q[k] = p[k]
          BY <1>1, <2>2, <3>2, <4>4 DEF DotsAt
        <5>2. p[k] <= Len(line)
          <6>1. CASE k = 0
            BY <1>1, <2>2, <6>1 DEF DotsAt
          <6>2. CASE k # 0
            BY <1>1, <2>2, <5>1, <6>2 DEF DotsAt
          <6> QED BY <6>1, <6>2
        <5>3. CASE h = e
          BY <1>1, <3>2, <5>1, <5>2, <5>3
        <5>4. CASE h # e
          <6>1. h \in 0 .. octets
            BY <1>1, <5>4
          <6> QED BY <2>2, <3>2, <4>4, <5>1, <6>1 DEF DotsAt
        <5> QED BY <5>3, <5>4
      <4>3. ASSUME NEW l \in DOMAIN line', line'[l] = "."
            PROVE  \E k \in 1 .. e : l = q[k]
        <5>1. CASE l = Len(line) + 1
          <6>1. e \in 1 .. e
            BY <1>1
          <6> QED BY <3>2, <5>1, <6>1
        <5>2. CASE l # Len(line) + 1
          <6>1. l \in DOMAIN line /\ line[l] = "."
            BY <1>1, <4>3, <5>2
          <6>2. PICK k \in 1 .. octets : l = p[k]
            BY <2>2, <6>1 DEF DotsAt
          <6>3. k \in 1 .. e /\ k \in 0 .. octets
            BY <1>1
          <6> QED BY <3>2, <6>2, <6>3
        <5> QED BY <5>1, <5>2
      <4> QED BY <3>2, <4>1, <4>2, <4>3, <4>4 DEF DotsAt
    <3>5. Gaps(q, e) <=> Gaps(p, octets) /\ octet \in 1 .. 3
      <4>1. \A k \in 1 .. octets : /\ k \in 1 .. e /\ k # e
                                   /\ q[k] = p[k] /\ q[k - 1] = p[k - 1]
        BY <1>1, <3>2
      <4>2. e \in 1 .. e /\ e - 1 = octets /\ q[e - 1] = p[octets]
        BY <1>1, <3>2
      <4>3. q[e] - q[e - 1] - 1 = octet
        BY <1>1, <2>2, <3>2, <3>3, <4>2
      <4>4. \A k \in 1 .. e : k = e \/ k \in 1 .. octets
        BY <1>1
      <4> QED BY <4>1, <4>2, <4>3, <4>4 DEF Gaps
    <3>6. Len(line') - q[e] = 0
      BY <1>1, <3>2
    <3>7. Counted(q)'
      BY <2>2, <3>1, <3>4, <3>5, <3>6 DEF Counted
    <3> QED BY <3>7
  <2>4. CASE ch # "."
    <3>1. /\ octet' = octet + 1 /\ octets' = octets /\ digits' = digits
      BY <1>1, <1>2, <1>4, <2>4 DEF Scan, Octet
    <3>2. DotsAt(p, line', octets)
      <4>1. ASSUME NEW k \in 1 .. octets
            PROVE  p[k] <= Len(line') /\ line'[p[k]] = "."
        <5>1. p[k] <= Len(line) /\ line[p[k]] = "." /\ p[k] \in Nat /\ p[k] > 0
          BY <1>1, <2>2 DEF DotsAt
        <5> QED BY <1>1, <5>1
      <4>2. ASSUME NEW l \in DOMAIN line', line'[l] = "."
            PROVE  \E k \in 1 .. octets : l = p[k]
        <5>1. l \in DOMAIN line /\ line[l] = "."
          BY <1>1, <2>4, <4>2
        <5> QED BY <2>2, <5>1 DEF DotsAt
      <4> QED BY <2>2, <4>1, <4>2 DEF DotsAt
    <3>3. p[octets] \in Nat
      BY <1>1, <2>2 DEF DotsAt
    <3>4. octet' = Len(line') - p[octets]
      BY <1>1, <2>2, <3>1, <3>3
    <3>5. Counted(p)'
      BY <2>2, <3>1, <3>2, <3>4 DEF Counted
    <3> QED BY <3>5
  <2> QED BY <2>3, <2>4
<1> QED BY <1>3, <1>4 DEF OctetInv
\* Where the dots are is how many there are.
LEMMA DotsCounted ==
    ASSUME NEW s, Len(s) \in Nat, DOMAIN s = 1 .. Len(s),
           NEW m \in Nat, NEW p, DotsAt(p, s, m)
    PROVE  /\ {l \in DOMAIN s : s[l] = "."} = {p[k] : k \in 1 .. m}
           /\ Cardinality({l \in DOMAIN s : s[l] = "."}) = m
<1> DEFINE D == {l \in DOMAIN s : s[l] = "."}
           f == [k \in 1 .. m |-> p[k]]
<1>1. \A k \in 1 .. m : p[k] \in Nat /\ p[k] > 0 /\ p[k] \in D
    BY DEF DotsAt
<1>2. \A l \in D : \E k \in 1 .. m : l = p[k]
    BY DEF DotsAt
<1>3. \A k, h \in 1 .. m : p[k] = p[h] => k = h
  <2>1. \A k, h \in 1 .. m : k # h => k < h \/ h < k
    OBVIOUS
  <2>2. \A k, h \in 1 .. m : k < h => p[k] < p[h]
    BY DEF DotsAt
  <2> QED BY <1>1, <2>1, <2>2
<1>4. D = {p[k] : k \in 1 .. m}
    BY <1>1, <1>2
<1> HIDE DEF D
<1>5. f \in Bijection(1 .. m, D)
    BY <1>1, <1>2, <1>3 DEF Bijection, Injection, Surjection, IsInjective
<1>6. ExistsBijection(1 .. m, D)
    BY <1>5 DEF ExistsBijection
<1>7. Cardinality(D) = m
    BY <1>6, FS_CountingElements
<1> QED BY <1>4, <1>7 DEF D

\* A quad, by the places of its dots.
LEMMA QuadByDots ==
    ASSUME NEW s, Len(s) \in Nat, DOMAIN s = 1 .. Len(s), Clean(s),
           NEW m \in Nat, NEW p, DotsAt(p, s, m)
    PROVE  Quad(s) <=> m = 3 /\ Gaps(p, 3) /\ Len(s) - p[3] \in 1 .. 3
<1> DEFINE D == {l \in DOMAIN s : s[l] = "."}
<1>1. D = {p[k] : k \in 1 .. m} /\ Cardinality(D) = m
    BY DotsCounted
<1>2. \A l \in DOMAIN s \ D : s[l] = "d"
    BY DEF Clean
<1> HIDE DEF D
<1>3. Quad(s) <=> /\ Cardinality(D) = 3
                  /\ \E i, j, k \in D :
                        {i - 1, j - i - 1, k - j - 1, Len(s) - k} \subseteq 1 .. 3
    BY <1>2 DEF Quad, D
<1>4. ASSUME m = 3
      PROVE  (\E i, j, k \in D :
                {i - 1, j - i - 1, k - j - 1, Len(s) - k} \subseteq 1 .. 3)
             <=> Gaps(p, 3) /\ Len(s) - p[3] \in 1 .. 3
  <2>1. /\ D = {p[1], p[2], p[3]}
        /\ p[0] = 0 /\ p[1] \in Nat /\ p[2] \in Nat /\ p[3] \in Nat
        /\ 0 < p[1] /\ p[1] < p[2] /\ p[2] < p[3]
    <3>1. 1 .. m = {1, 2, 3} /\ 0 .. m = {0, 1, 2, 3}
      BY <1>4
    <3>2. D = {p[1], p[2], p[3]}
      BY <1>1, <3>1
    <3>3. p[0] = 0 /\ p[1] \in Nat /\ p[2] \in Nat /\ p[3] \in Nat
      BY <3>1 DEF DotsAt
    <3>4. \A k, h \in {0, 1, 2, 3} : k < h => p[k] < p[h]
      BY <3>1 DEF DotsAt
    <3>5. p[0] < p[1] /\ p[1] < p[2] /\ p[2] < p[3]
      BY <3>4
    <3> QED BY <3>2, <3>3, <3>5
  <2>2. Gaps(p, 3) <=> /\ p[1] - 1 \in 1 .. 3
                       /\ p[2] - p[1] - 1 \in 1 .. 3
                       /\ p[3] - p[2] - 1 \in 1 .. 3
    <3>1. 1 .. 3 = {1, 2, 3}
      OBVIOUS
    <3> QED BY <2>1, <3>1 DEF Gaps
  <2>3. ASSUME NEW i \in D, NEW j \in D, NEW k \in D,
               {i - 1, j - i - 1, k - j - 1, Len(s) - k} \subseteq 1 .. 3
        PROVE  Gaps(p, 3) /\ Len(s) - p[3] \in 1 .. 3
    <3>1. /\ i - 1 \in 1 .. 3 /\ j - i - 1 \in 1 .. 3
          /\ k - j - 1 \in 1 .. 3 /\ Len(s) - k \in 1 .. 3
      BY <2>3
    <3>2. i \in Nat /\ j \in Nat /\ k \in Nat
      BY <2>1
    <3>3. i < j /\ j < k
      <4>1. \A x, y \in Nat : y - x - 1 \in 1 .. 3 => x < y
        OBVIOUS
      <4> QED BY <3>1, <3>2, <4>1
    <3>4. i = p[1] /\ j = p[2] /\ k = p[3]
      BY SMTT(40), <2>1, <3>2, <3>3
    <3> QED BY <2>2, <3>1, <3>4
  <2>4. ASSUME Gaps(p, 3), Len(s) - p[3] \in 1 .. 3
        PROVE  \E i, j, k \in D :
                  {i - 1, j - i - 1, k - j - 1, Len(s) - k} \subseteq 1 .. 3
    <3>1. {p[1] - 1, p[2] - p[1] - 1, p[3] - p[2] - 1, Len(s) - p[3]}
             \subseteq 1 .. 3
      BY <2>2, <2>4
    <3>2. p[1] \in D /\ p[2] \in D /\ p[3] \in D
      BY <2>1
    <3> QED BY <3>1, <3>2
  <2> QED BY <2>3, <2>4
<1> QED BY <1>1, <1>3, <1>4

\* Where a line ends in a dot, that is the last one, and the others are in front
\* of it.
LEMMA DotsInFront ==
    ASSUME NEW X, NEW s \in Seq(X), s # <<>>, Last(s) = ".",
           NEW m \in Nat, NEW p, DotsAt(p, s, m)
    PROVE  /\ m > 0 /\ p[m] = Len(s)
           /\ DotsAt([k \in 0 .. (m - 1) |-> p[k]], Front(s), m - 1)
<1> DEFINE q == [k \in 0 .. (m - 1) |-> p[k]]
           t == Front(s)
<1>1. /\ Len(s) \in Nat \ {0} /\ DOMAIN s = 1 .. Len(s) /\ s[Len(s)] = "."
      /\ Len(t) = Len(s) - 1 /\ DOMAIN t = 1 .. (Len(s) - 1)
      /\ \A l \in 1 .. (Len(s) - 1) : t[l] = s[l]
    BY DEF Last, Front
<1>2. PICK h \in 1 .. m : p[h] = Len(s)
    BY <1>1 DEF DotsAt
<1>3. m > 0 /\ m \in 1 .. m /\ m \in 0 .. m /\ h \in 0 .. m
    BY <1>2
<1>4. \A k \in 0 .. m : p[k] \in Nat
    BY DEF DotsAt
<1>5. h = m
  <2> SUFFICES ASSUME h < m PROVE FALSE
    BY <1>2
  <2>1. p[h] < p[m] /\ p[m] <= Len(s)
    BY <1>3 DEF DotsAt
  <2> QED BY <1>1, <1>2, <1>3, <1>4, <2>1
<1>6. p[m] = Len(s)
    BY <1>2, <1>5
<1>7. q \in [0 .. (m - 1) -> Nat] /\ q[0] = 0
    BY <1>3, <1>4 DEF DotsAt
<1>8. \A k \in 0 .. (m - 1) : k \in 0 .. m /\ q[k] = p[k]
    BY <1>3
<1> HIDE DEF q, t
<1>9. \A k, l \in 0 .. (m - 1) : k < l => q[k] < q[l]
    BY <1>8 DEF DotsAt
<1>10. ASSUME NEW k \in 1 .. (m - 1)
       PROVE  q[k] <= Len(t) /\ t[q[k]] = "."
  <2>1. k \in 0 .. (m - 1) /\ k \in 1 .. m /\ k < m /\ 0 < k /\ 0 \in 0 .. m
    OBVIOUS
  <2>2. /\ p[k] < p[m] /\ p[0] < p[k] /\ p[0] = 0 /\ s[p[k]] = "."
    BY <1>3, <1>8, <2>1 DEF DotsAt
  <2>3. p[k] \in 1 .. (Len(s) - 1)
    BY <1>1, <1>4, <1>6, <1>8, <2>1, <2>2
  <2> QED BY <1>1, <1>8, <2>1, <2>2, <2>3
<1>11. ASSUME NEW l \in DOMAIN t, t[l] = "."
       PROVE  \E k \in 1 .. (m - 1) : l = q[k]
  <2>1. l \in DOMAIN s /\ s[l] = "." /\ l # Len(s)
    BY <1>1, <1>11
  <2>2. PICK k \in 1 .. m : l = p[k]
    BY <2>1 DEF DotsAt
  <2>3. k \in 1 .. (m - 1) /\ k \in 0 .. (m - 1)
    BY <1>6, <2>1, <2>2
  <2> QED BY <1>8, <2>2, <2>3
<1>12. DotsAt(q, t, m - 1)
    BY <1>7, <1>9, <1>10, <1>11 DEF DotsAt
<1> QED BY <1>3, <1>6, <1>12 DEF q, t

\* Where the dots of a quad can be.
LEMMA GapBounds ==
    ASSUME NEW a \in Nat, NEW b \in Nat, NEW c \in Nat,
           a - 0 - 1 \in 1 .. 3, b - a - 1 \in 1 .. 3, c - b - 1 \in 1 .. 3
    PROVE  a \in 2 .. 4 /\ b \in 4 .. 8 /\ c \in 6 .. 12
OBVIOUS

\* How long a quad can be.
LEMMA TailBounds ==
    ASSUME NEW c \in 6 .. 12, NEW e \in Nat, e - c \in 1 .. 3
    PROVE  e \in 7 .. 15
OBVIOUS

\* What has been counted tells the quads, and those with a dot behind them.
LEMMA CountedIsQuad == LineType /\ OctetInv => ValidIsQuad
<1> SUFFICES ASSUME LineType, OctetInv PROVE ValidIsQuad
    OBVIOUS
<1> DEFINE Trailing == /\ line # <<>> /\ Last(line) = "."
                       /\ Quad(Front(line)) /\ Len(line) <= 15
<1>1. /\ line \in Seq(Own(alphabet))
      /\ Len(line) \in Nat /\ DOMAIN line = 1 .. Len(line)
      /\ octet \in Nat /\ octets \in Nat /\ digits \in BOOLEAN
    BY DEF LineType
<1>2. line # <<>> => /\ Len(line) \in Nat \ {0}
                     /\ Len(Front(line)) = Len(line) - 1
                     /\ Len(Front(line)) \in Nat
                     /\ DOMAIN Front(line) = 1 .. Len(Front(line))
                     /\ \A l \in 1 .. (Len(line) - 1) : Front(line)[l] = line[l]
                     /\ Last(line) = line[Len(line)]
    BY <1>1 DEF Front, Last
<1>3. CASE ~Clean(line)
  <2>1. PICK l \in DOMAIN line : line[l] \notin {"d", "."}
    BY <1>3 DEF Clean
  <2>2. ~digits
    BY <1>3 DEF OctetInv
  <2>3. ~Quad(line)
    BY <2>1 DEF Quad
  <2>4. ASSUME Trailing PROVE FALSE
    <3>1. l \in DOMAIN Front(line) /\ Front(line)[l] = line[l]
      BY <1>1, <1>2, <2>1, <2>4
    <3> QED BY <2>1, <2>4, <3>1 DEF Quad
  <2> QED BY <2>2, <2>3, <2>4 DEF ValidIsQuad, isValidIP
<1>4. CASE Clean(line)
  <2>1. PICK p : Counted(p)
    BY <1>4 DEF OctetInv
  <2>2. DotsAt(p, line, octets) /\ octet = Len(line) - p[octets]
        /\ (digits <=> Gaps(p, octets))
    BY <2>1 DEF Counted
  <2>3. Quad(line) <=> octets = 3 /\ Gaps(p, 3) /\ Len(line) - p[3] \in 1 .. 3
    BY <1>1, <1>4, <2>2, QuadByDots
  <2>4. Trailing <=> /\ octets = 4 /\ Gaps(p, 4) /\ p[4] = Len(line)
                     /\ Len(line) <= 15
    <3> DEFINE q == [k \in 0 .. (octets - 1) |-> p[k]]
    <3>1. ASSUME line # <<>>, Last(line) = "."
          PROVE  /\ octets > 0 /\ p[octets] = Len(line)
                 /\ Quad(Front(line)) <=>
                       octets = 4 /\ Gaps(p, 4)
      <4>1. /\ octets > 0 /\ p[octets] = Len(line)
            /\ DotsAt(q, Front(line), octets - 1)
        BY <1>1, <2>2, <3>1, DotsInFront
      <4>2. Clean(Front(line))
        BY <1>1, <1>2, <1>4, <3>1 DEF Clean
      <4>3. octets - 1 \in Nat
        BY <1>1, <4>1
      <4>4. Quad(Front(line)) <=> /\ octets - 1 = 3 /\ Gaps(q, 3)
                                  /\ Len(Front(line)) - q[3] \in 1 .. 3
        <5> HIDE DEF q
        <5> QED BY <1>2, <3>1, <4>1, <4>2, <4>3, QuadByDots
      <4>5. ASSUME octets = 4
            PROVE  Gaps(q, 3) /\ Len(Front(line)) - q[3] \in 1 .. 3 <=> Gaps(p, 4)
        <5>1. \A k \in 0 .. 3 : q[k] = p[k] /\ p[k] \in Nat
          BY <2>2, <4>5 DEF DotsAt
        <5>2. 1 .. 4 = 1 .. 3 \cup {4} /\ 3 \in 0 .. 3
              /\ \A k \in 1 .. 3 : k \in 0 .. 3 /\ k - 1 \in 0 .. 3
          OBVIOUS
        <5>3. Gaps(q, 3) <=> Gaps(p, 3)
          BY <5>1, <5>2 DEF Gaps
        <5>4. Gaps(p, 4) <=> Gaps(p, 3) /\ p[4] - p[4 - 1] - 1 \in 1 .. 3
          BY <5>2 DEF Gaps
        <5>5. Len(Front(line)) - q[3] = p[4] - p[4 - 1] - 1
          <6>1. q[3] = p[3] /\ p[3] \in Nat
            BY <5>1
          <6>2. Len(Front(line)) = p[4] - 1 /\ p[4] \in Nat
            BY <1>2, <3>1, <4>1, <4>5
          <6> HIDE DEF q
          <6> QED BY <6>1, <6>2
        <5> QED BY <5>3, <5>4, <5>5
      <4> QED BY <1>1, <4>1, <4>4, <4>5
    <3>2. ASSUME octets = 4, p[4] = Len(line)
          PROVE  line # <<>> /\ Last(line) = "."
      <4>1. p[4] \in Nat /\ p[0] = 0 /\ p[0] < p[4] /\ line[p[4]] = "."
        BY <2>2, <3>2 DEF DotsAt
      <4>2. line # <<>>
        BY <1>1, <3>2, <4>1
      <4> QED BY <1>2, <3>2, <4>1, <4>2
    <3> QED BY <3>1, <3>2
  <2>5. p[octets] \in Nat
    BY <1>1, <2>2 DEF DotsAt
  <2>6. isValidIP <=> \/ octets = 3 /\ Gaps(p, 3) /\ Len(line) - p[3] \in 1 .. 3
                      \/ octets = 4 /\ Gaps(p, 4) /\ p[4] = Len(line)
                         /\ Len(line) <= 15
    <3>1. ASSUME octets = 3
          PROVE  isValidIP <=> Gaps(p, 3) /\ Len(line) - p[3] \in 1 .. 3
      <4>1. ASSUME Gaps(p, 3), Len(line) - p[3] \in 1 .. 3
            PROVE  Len(line) \in 7 .. 15
        <5>1. p[1] - p[0] - 1 \in 1 .. 3 /\ p[2] - p[1] - 1 \in 1 .. 3
              /\ p[3] - p[2] - 1 \in 1 .. 3
          <6>1. /\ p[1] - p[1 - 1] - 1 \in 1 .. 3 /\ p[2] - p[2 - 1] - 1 \in 1 .. 3
                /\ p[3] - p[3 - 1] - 1 \in 1 .. 3
            BY <4>1 DEF Gaps
          <6> QED BY <6>1
        <5>2. p[0] = 0 /\ p[1] \in Nat /\ p[2] \in Nat /\ p[3] \in Nat
          BY <2>2, <3>1 DEF DotsAt
        <5>3. p[1] \in 2 .. 4 /\ p[2] \in 4 .. 8 /\ p[3] \in 6 .. 12
          BY <5>1, <5>2, GapBounds
        <5> QED BY <1>1, <4>1, <5>2, <5>3, TailBounds
      <4>2. octets + (IF octet > 0 THEN 1 ELSE 0) = 4 <=> octet > 0
        BY <1>1, <3>1
      <4>3. octet = Len(line) - p[3] /\ (digits <=> Gaps(p, 3))
        BY <2>2, <3>1
      <4>4. octet \in 0 .. 3 /\ octet > 0 <=> octet \in 1 .. 3
        BY <1>1
      <4> QED BY <4>1, <4>2, <4>3, <4>4 DEF isValidIP
    <3>2. ASSUME octets = 4
          PROVE  isValidIP <=> Gaps(p, 4) /\ p[4] = Len(line) /\ Len(line) <= 15
      <4>1. ASSUME Gaps(p, 4), p[4] = Len(line)
            PROVE  Len(line) >= 7
        <5>1. p[1] - p[0] - 1 \in 1 .. 3 /\ p[2] - p[1] - 1 \in 1 .. 3
              /\ p[3] - p[2] - 1 \in 1 .. 3 /\ p[4] - p[3] - 1 \in 1 .. 3
          <6>1. /\ p[1] - p[1 - 1] - 1 \in 1 .. 3 /\ p[2] - p[2 - 1] - 1 \in 1 .. 3
                /\ p[3] - p[3 - 1] - 1 \in 1 .. 3 /\ p[4] - p[4 - 1] - 1 \in 1 .. 3
            BY <4>1 DEF Gaps
          <6> QED BY <6>1
        <5>2. /\ p[0] = 0 /\ p[1] \in Nat /\ p[2] \in Nat /\ p[3] \in Nat
              /\ p[4] \in Nat
          BY <2>2, <3>2 DEF DotsAt
        <5>3. p[3] \in 6 .. 12
          BY <5>1, <5>2, GapBounds
        <5>4. \A x, y \in Nat : y \in 6 .. 12 /\ x - y - 1 \in 1 .. 3 => x >= 7
          OBVIOUS
        <5> QED BY <4>1, <5>1, <5>2, <5>3, <5>4
      <4>2. octets + (IF octet > 0 THEN 1 ELSE 0) = 4 <=> octet = 0
        BY <1>1, <3>2
      <4>3. (octet = 0 <=> p[4] = Len(line)) /\ (digits <=> Gaps(p, 4))
        BY <1>1, <2>2, <2>5, <3>2
      <4>4. octet = 0 => octet \in 0 .. 3
        OBVIOUS
      <4>5. Len(line) \in 7 .. 15 <=> Len(line) >= 7 /\ Len(line) <= 15
        <5>1. \A x \in Nat : x \in 7 .. 15 <=> (x >= 7 /\ x <= 15)
          OBVIOUS
        <5> QED BY <1>1, <5>1
      <4> QED BY <4>1, <4>2, <4>3, <4>4, <4>5 DEF isValidIP
    <3>3. ASSUME octets # 3, octets # 4
          PROVE  ~isValidIP
      BY <1>1, <3>3 DEF isValidIP
    <3> QED BY <3>1, <3>2, <3>3
  <2> HIDE DEF Trailing
  <2>7. ValidIsQuad <=> (isValidIP <=> Quad(line) \/ Trailing)
    BY DEF ValidIsQuad, Trailing
  <2> QED BY <2>3, <2>4, <2>6, <2>7
<1> QED BY <1>3, <1>4

\* isValidIP accepts the dotted quads, and those with a dot behind them, of any
\* line: the addresses a SEND, BLOCK or UNBLOCK lets pass are of that form.
THEOREM AddressesAreQuads == Spec => []ValidIsQuad
<1> DEFINE I == LineType /\ OctetInv
<1>1. Init => I
  <2>1. Init => OctetInv
    BY StartOctets DEF Init, OctetsStart
  <2> QED BY <2>1, InitType
<1>2. I /\ Send => I'
  <2>1. ASSUME I, Send PROVE OctetInv'
    <3>1. OctetsStart'
      BY <2>1 DEF LineType, Send, OctetsStart
    <3>2. OctetsStart' => OctetInv'
      BY StartOctets, PTL
    <3> QED BY <3>1, <3>2
  <2> QED BY <2>1, SendType
<1>3. I /\ UNCHANGED lineVars => I'
    BY DEF LineType, OctetInv, Counted, lineVars, scanVars
<1>4. I /\ [Next]_lineVars => I'
    BY <1>2, <1>3, ScanType, ScanOctets DEF Next
<1>5. I => ValidIsQuad
    BY CountedIsQuad
<1> QED BY <1>1, <1>4, <1>5, PTL DEF Spec

-----------------------------------------------------------------------------
(* Messages. *)

\* One character of a string.
LEMMA SingleChar ==
    ASSUME NEW X, NEW s \in Seq(X), NEW k \in 1 .. Len(s)
    PROVE  SubSeq(s, k, k) = <<s[k]>>
<1> DEFINE t == SubSeq(s, k, k)
<1>1. k \in Int /\ k - k + 1 = 1 /\ Len(s) \in Nat
    OBVIOUS
<1>2. t \in Seq(X) /\ Len(t) = 1 /\ t[1] = s[k]
    BY <1>1
<1> HIDE DEF t
<1>3. t = <<t[1]>>
    BY <1>2
<1> QED BY <1>2, <1>3 DEF t

\* What is before the first space, and behind it.
LEMMA WordRestAt ==
    ASSUME NEW X, NEW s \in Seq(X), NEW k \in 1 .. Len(s), s[k] = SP,
           \A l \in 1 .. (k - 1) : s[l] # SP
    PROVE  Word(s) = SubSeq(s, 1, k - 1) /\ Rest(s) = SubSeq(s, k + 1, Len(s))
<1> DEFINE at == {i \in 0 .. Len(s) - Len(<<SP>>) :
                     SubSeq(s, i + 1, i + Len(<<SP>>)) = <<SP>>}
<1>1. Len(s) \in Nat /\ Len(<<SP>>) = 1 /\ k \in Nat
    OBVIOUS
<1>2. \A i \in 0 .. (Len(s) - 1) :
          SubSeq(s, i + 1, i + 1) = <<SP>> <=> s[i + 1] = SP
  <2> SUFFICES ASSUME NEW i \in 0 .. (Len(s) - 1)
               PROVE  SubSeq(s, i + 1, i + 1) = <<SP>> <=> s[i + 1] = SP
    OBVIOUS
  <2>1. SubSeq(s, i + 1, i + 1) = <<s[i + 1]>>
    BY <1>1, SingleChar
  <2> QED BY <2>1
<1>3. at = {i \in 0 .. (Len(s) - 1) : s[i + 1] = SP}
    BY <1>1, <1>2
<1> HIDE DEF at
<1>4. k - 1 \in at
    BY <1>1, <1>3
<1>5. \A i \in at : k - 1 <= i
  <2> SUFFICES ASSUME NEW i \in at, i < k - 1 PROVE FALSE
    BY <1>1, <1>3
  <2>1. i + 1 \in 1 .. (k - 1) /\ s[i + 1] = SP
    BY <1>1, <1>3
  <2> QED BY <2>1
<1>6. Min(at) = k - 1
  <2>1. ASSUME NEW x \in at, \A y \in at : x <= y PROVE x = k - 1
    <3>1. x <= k - 1 /\ k - 1 <= x /\ x \in Int
      BY <1>3, <1>4, <1>5, <2>1
    <3> QED BY <1>1, <3>1
  <2> QED BY <1>4, <1>5, <2>1 DEF Min
<1>7. find(s, <<SP>>) = k - 1
    BY <1>4, <1>6 DEF find, at
<1>8. k - 1 # npos
    BY <1>1 DEF npos
<1>9. Min({Len(s), 0 + (k - 1)}) = k - 1
    BY <1>1 DEF Min
<1>10. Word(s) = SubSeq(s, 1, k - 1)
  <2> DEFINE e == k - 1
  <2>1. e # npos /\ find(s, <<SP>>) = e /\ Min({Len(s), 0 + e}) = e
    BY <1>7, <1>8, <1>9
  <2> HIDE DEF e
  <2>2. substr(s, 0, e) = SubSeq(s, 0 + 1, e)
    BY <2>1 DEF substr
  <2>3. Word(s) = SubSeq(s, 1, e)
    BY <2>1, <2>2 DEF Word
  <2> QED BY <2>3 DEF e
<1>11. Rest(s) = SubSeq(s, k + 1, Len(s))
    BY <1>1, <1>7 DEF Rest, substr
<1> QED BY <1>10, <1>11

\* Without a space both are all of it.
LEMMA WordRestNone ==
    ASSUME NEW X, NEW s \in Seq(X), \A l \in 1 .. Len(s) : s[l] # SP
    PROVE  Word(s) = s /\ Rest(s) = s
<1>1. Len(s) \in Nat /\ Len(<<SP>>) = 1
    OBVIOUS
<1>2. \A i \in 0 .. (Len(s) - 1) : SubSeq(s, i + 1, i + 1) # <<SP>>
  <2> SUFFICES ASSUME NEW i \in 0 .. (Len(s) - 1)
               PROVE  SubSeq(s, i + 1, i + 1) # <<SP>>
    OBVIOUS
  <2>1. SubSeq(s, i + 1, i + 1) = <<s[i + 1]>> /\ s[i + 1] # SP
    BY <1>1, SingleChar
  <2> QED BY <2>1
<1>3. find(s, <<SP>>) = npos
    BY <1>1, <1>2 DEF find
<1>4. SubSeq(s, 1, Len(s)) = s
    BY <1>1
<1> QED BY <1>3, <1>4 DEF Word, Rest, substr, npos

\* Where a line that begins with SEND has its first words, and what the loop
\* holds of them.
TokenInv ==
    "\n" \notin alphabet.chars =>
        /\ ~broken
        /\ tokenized = <<>> => command = line
        /\ Len(tokenized) = 1 /\ tokenized[1] = <<"SEND">> =>
              /\ Len(line) = Len(command) + 2
              /\ line[1] = "SEND" /\ line[2] = SP
              /\ \A k \in 1 .. Len(command) : line[k + 2] = command[k]
        /\ /\ Len(tokenized) >= 2 /\ tokenized[1] = <<"SEND">>
           /\ Len(tokenized[2]) = 1
           => /\ Len(line) >= 4
              /\ line[1] = "SEND" /\ line[2] = SP
              /\ line[3] = tokenized[2][1] /\ line[4] = SP

\* A turn of stringTokenize's loop.
LEMMA ScanTokens ==
    LineType /\ TokenInv /\ (\E ch \in alphabet.chars : Scan(ch)) => TokenInv'
<1> SUFFICES ASSUME LineType, TokenInv, NEW ch \in alphabet.chars, Scan(ch),
                    "\n" \notin alphabet.chars
             PROVE  TokenInv'
    BY DEF TokenInv, Scan
<1> DEFINE O == Own(alphabet)
<1>1. /\ line \in Seq(O) /\ command \in Seq(O) /\ tokenized \in Seq(Seq(O))
      /\ ch \in O /\ ch # "\n" /\ ~broken
      /\ line' = Append(line, ch)
    BY DEF LineType, TokenInv, Scan, Own, Letters
<1> HIDE DEF O
<1>2. /\ Len(line) \in Nat /\ Len(command) \in Nat /\ Len(tokenized) \in Nat
      /\ Len(line') = Len(line) + 1 /\ line'[Len(line) + 1] = ch
      /\ \A l \in 1 .. Len(line) : line'[l] = line[l]
    BY <1>1
<1>3. CASE ch = SP
  <2>1. /\ tokenized' = Append(tokenized, command) /\ command' = <<>>
        /\ ~broken'
    BY <1>1, <1>3 DEF Scan, Tokenize
  <2>2. /\ Len(tokenized') = Len(tokenized) + 1
        /\ tokenized'[Len(tokenized) + 1] = command
        /\ \A k \in 1 .. Len(tokenized) : tokenized'[k] = tokenized[k]
        /\ Len(command') = 0
    BY <1>1, <2>1
  <2>3. ASSUME Len(tokenized') = 1, tokenized'[1] = <<"SEND">>
        PROVE  /\ Len(line') = Len(command') + 2
               /\ line'[1] = "SEND" /\ line'[2] = SP
               /\ \A k \in 1 .. Len(command') : line'[k + 2] = command'[k]
    <3>1. tokenized = <<>>
      <4>1. Len(tokenized) = 0
        <5>1. Len(tokenized) + 1 = 1 /\ Len(tokenized) \in Nat
          BY <1>2, <2>2, <2>3
        <5> QED BY <5>1
      <4> QED BY <1>1, <4>1
    <3>2. line = <<"SEND">>
      BY <1>1, <2>2, <2>3, <3>1 DEF TokenInv
    <3>3. Len(line) = 1 /\ line[1] = "SEND"
      BY <3>2
    <3> QED BY <1>2, <1>3, <2>2, <3>3
  <2>4. ASSUME Len(tokenized') >= 2, tokenized'[1] = <<"SEND">>,
               Len(tokenized'[2]) = 1
        PROVE  /\ Len(line') >= 4
               /\ line'[1] = "SEND" /\ line'[2] = SP
               /\ line'[3] = tokenized'[2][1] /\ line'[4] = SP
    <3>1. CASE Len(tokenized) = 1
      <4>1. tokenized[1] = <<"SEND">> /\ command = tokenized'[2]
        BY <2>2, <2>4, <3>1
      <4>2. /\ Len(command) = 1 /\ Len(line) = Len(command) + 2
            /\ line[1] = "SEND" /\ line[2] = SP /\ line[1 + 2] = command[1]
        BY <2>4, <3>1, <4>1 DEF TokenInv
      <4> QED BY <1>2, <1>3, <4>1, <4>2
    <3>2. CASE Len(tokenized) >= 2
      <4>1. tokenized'[1] = tokenized[1] /\ tokenized'[2] = tokenized[2]
        BY <1>2, <2>2, <3>2
      <4>2. /\ Len(line) >= 4 /\ line[1] = "SEND" /\ line[2] = SP
            /\ line[3] = tokenized[2][1] /\ line[4] = SP
        BY <2>4, <3>2, <4>1 DEF TokenInv
      <4> QED BY <1>2, <4>1, <4>2
    <3> QED BY <1>2, <2>2, <2>4, <3>1, <3>2
  <2>5. tokenized' # <<>>
    BY <1>2, <2>2
  <2> QED BY <2>1, <2>3, <2>4, <2>5 DEF TokenInv
<1>4. CASE ch # SP
  <2>1. tokenized' = tokenized /\ command' = Append(command, ch) /\ ~broken'
    BY <1>1, <1>4 DEF Scan, Tokenize
  <2>2. /\ Len(command') = Len(command) + 1
        /\ command'[Len(command) + 1] = ch
        /\ \A k \in 1 .. Len(command) : command'[k] = command[k]
    BY <1>1, <2>1
  <2>3. tokenized' = <<>> => command' = line'
    BY <1>1, <2>1 DEF TokenInv
  <2>4. ASSUME Len(tokenized') = 1, tokenized'[1] = <<"SEND">>
        PROVE  /\ Len(line') = Len(command') + 2
               /\ line'[1] = "SEND" /\ line'[2] = SP
               /\ \A k \in 1 .. Len(command') : line'[k + 2] = command'[k]
    <3>1. /\ Len(line) = Len(command) + 2
          /\ line[1] = "SEND" /\ line[2] = SP
          /\ \A k \in 1 .. Len(command) : line[k + 2] = command[k]
      BY <2>1, <2>4 DEF TokenInv
    <3>2. ASSUME NEW k \in 1 .. Len(command')
          PROVE  line'[k + 2] = command'[k]
      <4>1. CASE k = Len(command) + 1
        BY <1>2, <2>2, <3>1, <4>1
      <4>2. CASE k # Len(command) + 1
        <5>1. k \in 1 .. Len(command) /\ k + 2 \in 1 .. Len(line)
          BY <1>2, <2>2, <3>1, <4>2
        <5> QED BY <1>2, <2>2, <3>1, <5>1
      <4> QED BY <4>1, <4>2
    <3> QED BY <1>2, <2>2, <3>1, <3>2
  <2>5. ASSUME Len(tokenized') >= 2, tokenized'[1] = <<"SEND">>,
               Len(tokenized'[2]) = 1
        PROVE  /\ Len(line') >= 4
               /\ line'[1] = "SEND" /\ line'[2] = SP
               /\ line'[3] = tokenized'[2][1] /\ line'[4] = SP
    <3>1. /\ Len(line) >= 4 /\ line[1] = "SEND" /\ line[2] = SP
          /\ line[3] = tokenized[2][1] /\ line[4] = SP
      BY <2>1, <2>5 DEF TokenInv
    <3> QED BY <1>2, <2>1, <3>1
  <2> QED BY <2>1, <2>3, <2>4, <2>5 DEF TokenInv
<1> QED BY <1>3, <1>4

\* A request to SEND has no newline in it.
LEMMA NoNewlineSent ==
    ASSUME LineType, doSEND PROVE "\n" \notin alphabet.chars
<1> DEFINE O == Own(alphabet)
<1>1. /\ tokenized \in Seq(Seq(O)) /\ command \in Seq(O)
      /\ alphabet \in Alphabets
    BY DEF LineType
<1>2. Len(Tokens) >= 2 /\ Tokens[1] = <<"SEND">>
    BY DEF doSEND
<1> HIDE DEF O
<1> SUFFICES ASSUME "\n" \in alphabet.chars PROVE FALSE
    OBVIOUS
<1>3. O = alphabet.chars /\ "SEND" \notin O
    BY <1>1, LinesAssumption DEF O, Own
<1>4. Tokens \in Seq(Seq(O))
    BY <1>1 DEF Tokens
<1>5. Tokens[1] \in Seq(O)
  <2>1. 1 \in 1 .. Len(Tokens)
    BY <1>2, <1>4
  <2> QED BY <1>4, <2>1, ElementOfSeq
<1>6. <<"SEND">>[1] \in O
  <2>1. <<"SEND">> \in Seq(O) /\ 1 \in 1 .. Len(<<"SEND">>)
    BY <1>2, <1>5
  <2> QED BY <2>1, ElementOfSeq
<1> QED BY <1>3, <1>6

\* A line that begins with SEND and a host, as the loop left it.
LEMMA LineOfSend ==
    ASSUME LineType, TokenInv, doSEND
    PROVE  \E h \in Hosts :
              /\ Tokens[2] = <<h>>
              /\ \/ Len(line) = 3 /\ line[1] = "SEND" /\ line[2] = SP /\ line[3] = h
                 \/ /\ Len(line) >= 4 /\ line[1] = "SEND" /\ line[2] = SP
                    /\ line[3] = h /\ line[4] = SP
<1>1. PICK h \in Hosts : Tokens[2] = <<h>>
    BY DEF doSEND
<1>2. Len(Tokens) >= 2 /\ Tokens[1] = <<"SEND">> /\ Len(<<h>>) = 1 /\ <<h>>[1] = h
    BY DEF doSEND
<1> DEFINE O == Own(alphabet)
<1>3. /\ tokenized \in Seq(Seq(O)) /\ command \in Seq(O)
      /\ alphabet \in Alphabets
    BY DEF LineType
<1> HIDE DEF O
<1>4. "\n" \notin alphabet.chars
    BY NoNewlineSent
<1>5. CASE command = <<>>
  <2>1. Tokens = tokenized
    BY <1>5 DEF Tokens
  <2> QED BY <1>1, <1>2, <1>4, <2>1 DEF TokenInv
<1>6. CASE command # <<>>
  <2>1. Tokens = Append(tokenized, command)
    BY <1>6 DEF Tokens
  <2>2. /\ Len(tokenized) \in Nat /\ Len(Tokens) = Len(tokenized) + 1
        /\ Tokens[Len(tokenized) + 1] = command
        /\ \A k \in 1 .. Len(tokenized) : Tokens[k] = tokenized[k]
    BY <1>3, <2>1
  <2>3. CASE Len(tokenized) = 1
    <3>1. tokenized[1] = <<"SEND">> /\ command = <<h>>
      BY <1>1, <1>2, <2>2, <2>3
    <3>2. /\ Len(line) = Len(command) + 2
          /\ line[1] = "SEND" /\ line[2] = SP
          /\ \A k \in 1 .. Len(command) : line[k + 2] = command[k]
      BY <1>4, <2>3, <3>1 DEF TokenInv
    <3>3. line[1 + 2] = command[1] /\ Len(command) = 1 /\ command[1] = h
      BY <1>2, <3>1, <3>2
    <3> QED BY <1>1, <3>2, <3>3
  <2>4. CASE Len(tokenized) >= 2
    <3>1. tokenized[1] = <<"SEND">> /\ tokenized[2] = <<h>>
      BY <1>1, <1>2, <2>2, <2>4
    <3> QED BY <1>1, <1>2, <1>4, <2>4, <3>1 DEF TokenInv
  <2>5. Len(tokenized) = 1 \/ Len(tokenized) >= 2
    <3>1. \A x \in Nat : x + 1 >= 2 => x = 1 \/ x >= 2
      OBVIOUS
    <3>2. Len(tokenized) \in Nat /\ Len(tokenized) + 1 >= 2
      BY <1>2, <2>2
    <3> QED BY <3>1, <3>2
  <2> QED BY <2>3, <2>4, <2>5
<1> QED BY <1>5, <1>6

\* What is left of a string from k on.
LEMMA LeftFrom ==
    ASSUME NEW X, NEW s \in Seq(X), NEW k \in Nat \ {0}, k <= Len(s) + 1,
           NEW t, t = SubSeq(s, k, Len(s))
    PROVE  /\ t \in Seq(X) /\ Len(t) = Len(s) + 1 - k
           /\ \A l \in 1 .. Len(t) : t[l] = s[k + l - 1]
<1>1. Len(s) \in Nat /\ k \in Int /\ Len(s) \in Int
      /\ \A l \in k .. Len(s) : s[l] \in X
    BY ElementOfSeq
<1>2. /\ t \in Seq(X)
      /\ Len(t) = IF k <= Len(s) THEN Len(s) - k + 1 ELSE 0
      /\ \A l \in 1 .. (Len(s) - k + 1) : t[l] = s[k + l - 1]
    BY <1>1, SubSeqProperties
<1> QED BY <1>1, <1>2

\* Two words of one character, each with a space behind it, are taken off.
LEMMA TwoWords ==
    ASSUME NEW X, NEW s \in Seq(X), Len(s) >= 4,
           s[1] # SP, s[2] = SP, s[3] # SP, s[4] = SP
    PROVE  /\ Word(Rest(s)) = <<s[3]>>
           /\ Rest(Rest(s)) = SubSeq(s, 5, Len(s))
           /\ s = <<s[1], s[2], s[3], s[4]>> \o SubSeq(s, 5, Len(s))
<1>1. Len(s) \in Nat
    OBVIOUS
<1> DEFINE r == SubSeq(s, 3, Len(s))
           t == SubSeq(s, 5, Len(s))
<1>2. Rest(s) = r
  <2>1. 2 \in 1 .. Len(s) /\ \A l \in 1 .. (2 - 1) : s[l] # SP
    BY <1>1
  <2> QED BY <1>1, <2>1, WordRestAt
<1>3. /\ r \in Seq(X) /\ Len(r) = Len(s) - 2
      /\ \A l \in 1 .. (Len(s) - 2) : r[l] = s[l + 2]
    BY <1>1
<1>4. /\ t \in Seq(X) /\ Len(t) = Len(s) - 4
      /\ \A l \in 1 .. (Len(s) - 4) : t[l] = s[l + 4]
  <2> HIDE DEF t
  <2>1. /\ t \in Seq(X) /\ Len(t) = Len(s) + 1 - 5
        /\ \A l \in 1 .. Len(t) : t[l] = s[5 + l - 1]
    <3>1. PICK k \in Nat \ {0} : k = 5
      OBVIOUS
    <3>2. t = SubSeq(s, k, Len(s)) /\ k <= Len(s) + 1
      BY <1>1, <3>1 DEF t
    <3>3. /\ t \in Seq(X) /\ Len(t) = Len(s) + 1 - k
          /\ \A l \in 1 .. Len(t) : t[l] = s[k + l - 1]
      BY <3>2, LeftFrom
    <3> QED BY <3>1, <3>3
  <2> QED BY <1>1, <2>1
<1> HIDE DEF r, t
<1>5. 2 \in 1 .. Len(r) /\ r[1] = s[3] /\ r[2] = SP
      /\ \A l \in 1 .. (2 - 1) : r[l] # SP
  <2>1. r[1] = s[1 + 2] /\ r[2] = s[2 + 2]
    BY <1>1, <1>3
  <2> QED BY <1>1, <1>3, <2>1
<1>6. Word(r) = SubSeq(r, 1, 2 - 1) /\ Rest(r) = SubSeq(r, 2 + 1, Len(r))
    BY <1>3, <1>5, WordRestAt
<1>7. SubSeq(r, 1, 1) = <<s[3]>>
    BY <1>3, <1>5, SingleChar
<1>8. SubSeq(r, 3, Len(r)) = t
  <2> DEFINE u == SubSeq(r, 3, Len(r))
  <2>1. /\ u \in Seq(X) /\ Len(u) = Len(s) - 4
        /\ \A l \in 1 .. (Len(s) - 4) : u[l] = r[l + 2]
    <3> HIDE DEF u
    <3>1. /\ u \in Seq(X) /\ Len(u) = Len(r) + 1 - 3
          /\ \A l \in 1 .. Len(u) : u[l] = r[3 + l - 1]
      BY SMTT(40), <1>1, <1>3, LeftFrom DEF u
    <3> QED BY <1>1, <1>3, <3>1
  <2>2. \A l \in 1 .. (Len(s) - 4) : r[l + 2] = s[l + 4]
    BY <1>1, <1>3
  <2> HIDE DEF u
  <2>3. u = t
    BY <1>1, <1>4, <2>1, <2>2, SeqEqual
  <2> QED BY <2>3 DEF u
<1>9. s = <<s[1], s[2], s[3], s[4]>> \o t
  <2> DEFINE f == <<s[1], s[2], s[3], s[4]>>
             v == f \o t
  <2>1. /\ f \in Seq(X) /\ Len(f) = 4
        /\ f[1] = s[1] /\ f[2] = s[2] /\ f[3] = s[3] /\ f[4] = s[4]
    BY <1>1
  <2> HIDE DEF f
  <2>2. /\ v \in Seq(X) /\ Len(v) = Len(s)
        /\ \A l \in 1 .. Len(s) : v[l] = IF l <= 4 THEN f[l] ELSE t[l - 4]
    <3>1. /\ f \o t \in Seq(X) /\ Len(f \o t) = Len(f) + Len(t)
          /\ \A l \in 1 .. Len(f) + Len(t) :
                (f \o t)[l] = IF l <= Len(f) THEN f[l] ELSE t[l - Len(f)]
      <4>1. f \in Seq(X) /\ t \in Seq(X)
        BY <1>4, <2>1
      <4> QED BY <4>1, ConcatProperties
    <3>2. Len(f) + Len(t) = Len(s)
      BY <1>1, <1>4, <2>1
    <3> QED BY <2>1, <3>1, <3>2
  <2> HIDE DEF v
  <2>3. ASSUME NEW l \in 1 .. Len(s) PROVE v[l] = s[l]
    <3>1. CASE l <= 4
      <4>1. l \in {1, 2, 3, 4}
        BY <3>1
      <4> QED BY <2>1, <2>2, <3>1, <4>1
    <3>2. CASE l > 4
      <4>1. l - 4 \in 1 .. (Len(s) - 4) /\ (l - 4) + 4 = l
        BY <1>1, <3>2
      <4> QED BY <1>4, <2>2, <3>2, <4>1
    <3> QED BY <3>1, <3>2
  <2>4. v = s
    BY <1>1, <2>2, <2>3, SeqEqual
  <2> QED BY <2>4 DEF v, f
<1>10. Word(Rest(s)) = <<s[3]>> /\ Rest(Rest(s)) = t
    BY <1>2, <1>6, <1>7, <1>8
<1> QED BY <1>9, <1>10 DEF t

\* What the receiver shows of a text, from a sender.
LEMMA ShownText ==
    ASSUME NEW X, NEW t \in Seq(X), NEW from, from # SP
    PROVE  parseNEWMESSAGE(<<"NEWMESSAGE", SP, from, SP>> \o t) =
               [from |-> <<from>>, text |-> t]
<1> DEFINE Y == X \cup {"NEWMESSAGE", SP, from}
           f == <<"NEWMESSAGE", SP, from, SP>>
           b == f \o t
<1>1. f \in Seq(Y) /\ t \in Seq(Y) /\ Len(f) = 4
      /\ f[1] = "NEWMESSAGE" /\ f[2] = SP /\ f[3] = from /\ f[4] = SP
    OBVIOUS
<1> HIDE DEF f, Y
<1>2. /\ b \in Seq(Y) /\ Len(b) = Len(t) + 4 /\ Len(t) \in Nat
      /\ b[1] = f[1] /\ b[2] = f[2] /\ b[3] = f[3] /\ b[4] = f[4]
      /\ \A l \in 1 .. Len(t) : b[l + 4] = t[l]
  <2>1. /\ f \o t \in Seq(Y) /\ Len(f \o t) = Len(f) + Len(t)
        /\ \A l \in 1 .. Len(f) + Len(t) :
              (f \o t)[l] = IF l <= Len(f) THEN f[l] ELSE t[l - Len(f)]
    BY <1>1, ConcatProperties
  <2>2. Len(t) \in Nat
    BY <1>1
  <2>3. \A l \in 1 .. Len(t) : /\ l + 4 \in 1 .. Len(f) + Len(t)
                               /\ ~(l + 4 <= 4) /\ (l + 4) - 4 = l
    BY <1>1, <2>2
  <2>4. \A l \in 1 .. Len(t) : (f \o t)[l + 4] = t[(l + 4) - 4]
    BY <1>1, <2>1, <2>3
  <2>5. \A l \in {1, 2, 3, 4} : (f \o t)[l] = f[l]
    BY <1>1, <2>1, <2>2
  <2> QED BY <1>1, <2>1, <2>2, <2>3, <2>4, <2>5
<1> HIDE DEF b
<1>3. b[1] # SP /\ b[2] = SP /\ b[3] = from /\ b[3] # SP /\ b[4] = SP /\ Len(b) >= 4
    BY <1>1, <1>2 DEF SP
<1>4. Word(Rest(b)) = <<from>> /\ Rest(Rest(b)) = SubSeq(b, 5, Len(b))
    BY <1>2, <1>3, TwoWords
<1>5. SubSeq(b, 5, Len(b)) = t
  <2> DEFINE u == SubSeq(b, 5, Len(b))
  <2>1. /\ u \in Seq(Y) /\ Len(u) = Len(t)
        /\ \A l \in 1 .. Len(t) : u[l] = b[l + 4]
    <3> HIDE DEF u
    <3>1. /\ u \in Seq(Y) /\ Len(u) = Len(b) + 1 - 5
          /\ \A l \in 1 .. Len(u) : u[l] = b[5 + l - 1]
      BY <1>2, LeftFrom DEF u
    <3> QED BY <1>2, <3>1
  <2> HIDE DEF u
  <2>2. u = t
    BY <1>1, <1>2, <2>1, SeqEqual
  <2> QED BY <2>2 DEF u
<1>6. parseNEWMESSAGE(b) = [from |-> <<from>>, text |-> t]
    BY <1>4, <1>5 DEF parseNEWMESSAGE
<1> QED BY <1>6 DEF b, f

\* A tuple with one more element.
LEMMA OneMore ==
    ASSUME NEW a, NEW b, NEW c, NEW d
    PROVE  /\ <<a, b>> \o <<c>> = <<a, b, c>>
           /\ <<a, b, c>> \o <<d>> = <<a, b, c, d>>
<1> DEFINE S == {a, b, c, d}
           u == <<a, b>> \o <<c>>
           v == <<a, b, c>> \o <<d>>
<1>1. /\ <<a, b>> \in Seq(S) /\ <<c>> \in Seq(S) /\ <<d>> \in Seq(S)
      /\ <<a, b, c>> \in Seq(S) /\ <<a, b, c, d>> \in Seq(S)
  OBVIOUS
<1>2. u \in Seq(S) /\ v \in Seq(S)
  BY <1>1, ConcatProperties
<1>3. Len(u) = 3 /\ u[1] = a /\ u[2] = b /\ u[3] = c
  BY <1>1, ConcatProperties
<1>4. Len(v) = 4 /\ v[1] = a /\ v[2] = b /\ v[3] = c /\ v[4] = d
  BY <1>1, ConcatProperties
<1> HIDE DEF u, v
<1>5. u = <<a, b, c>>
  <2>1. \A i \in 1 .. 3 : u[i] = <<a, b, c>>[i]
    BY <1>3
  <2> QED BY <1>1, <1>2, <1>3, <2>1, SeqEqual
<1>6. v = <<a, b, c, d>>
  <2>1. \A i \in 1 .. 4 : v[i] = <<a, b, c, d>>[i]
    BY <1>4
  <2> QED BY <1>1, <1>2, <1>4, <2>1, SeqEqual
<1> QED BY <1>5, <1>6 DEF u, v

\* A request to SEND reaches its receiver as it was typed.
LEMMA SentAsTyped == LineType /\ TokenInv => ShownAsTyped
<1> SUFFICES ASSUME LineType, TokenInv, doSEND
             PROVE  LET shown == parseNEWMESSAGE(input_msg(me, line))
                        head  == <<"SEND", SP>> \o Tokens[2]
                    IN  /\ toIP(line) = Tokens[2]
                        /\ shown.from = <<me>>
                        /\ line = IF line = head THEN head
                                  ELSE head \o <<SP>> \o shown.text
    BY DEF ShownAsTyped
<1> DEFINE X == Own(alphabet)
           text == Rest(Rest(line))
           shown == parseNEWMESSAGE(input_msg(me, line))
<1>1. line \in Seq(X) /\ Len(line) \in Nat
    BY DEF LineType
<1> HIDE DEF X
<1>2. PICK h \in Hosts :
          /\ Tokens[2] = <<h>>
          /\ \/ Len(line) = 3 /\ line[1] = "SEND" /\ line[2] = SP /\ line[3] = h
             \/ /\ Len(line) >= 4 /\ line[1] = "SEND" /\ line[2] = SP
                /\ line[3] = h /\ line[4] = SP
    BY LineOfSend
<1>3. h # SP /\ me # SP /\ "SEND" # SP
    BY LinesAssumption DEF SP
<1>4. <<"SEND", SP>> \o Tokens[2] = <<"SEND", SP, h>>
  <2>1. <<"SEND", SP>> \o <<h>> = <<"SEND", SP, h>>
    BY OneMore
  <2> QED BY <1>2, <2>1
<1>5. ASSUME NEW Y, text \in Seq(Y)
      PROVE  shown = [from |-> <<me>>, text |-> text]
    BY <1>3, <1>5, ShownText DEF input_msg
<1>6. CASE Len(line) = 3
  <2>1. line[1] = "SEND" /\ line[2] = SP /\ line[3] = h
    BY <1>2, <1>6
  <2>2. line = <<"SEND", SP, h>>
    BY <1>1, <1>6, <2>1
  <2> DEFINE r == SubSeq(line, 3, Len(line))
  <2>3. Rest(line) = r
    <3>1. 2 \in 1 .. Len(line) /\ \A l \in 1 .. (2 - 1) : line[l] # SP
      BY <1>3, <1>6, <2>1
    <3> QED BY <1>1, <2>1, <3>1, WordRestAt
  <2>4. r = <<h>>
    BY <1>1, <1>6, <2>1, SingleChar
  <2>5. h \in X
    BY <1>1, <1>6, <2>1, ElementOfSeq
  <2>6. <<h>> \in Seq(X) /\ Len(<<h>>) = 1 /\ <<h>>[1] = h
    BY <2>5
  <2>7. Word(<<h>>) = <<h>> /\ Rest(<<h>>) = <<h>>
    <3>1. \A l \in 1 .. Len(<<h>>) : <<h>>[l] # SP
      BY <1>3
    <3> QED BY <2>6, <3>1, WordRestNone
  <2> HIDE DEF r
  <2>8. toIP(line) = <<h>> /\ text = <<h>>
    BY <2>3, <2>4, <2>7 DEF toIP
  <2>9. shown.from = <<me>>
    BY <1>5, <2>6, <2>8
  <2> QED BY <1>2, <1>4, <2>2, <2>8, <2>9
<1>7. CASE Len(line) >= 4
  <2>1. line[1] = "SEND" /\ line[2] = SP /\ line[3] = h /\ line[4] = SP
    BY <1>2, <1>7
  <2> DEFINE t == SubSeq(line, 5, Len(line))
  <2>2. Word(Rest(line)) = <<h>> /\ text = t
        /\ line = <<"SEND", SP, h, SP>> \o t
    BY <1>1, <1>3, <1>7, <2>1, TwoWords
  <2>3. t \in Seq(X)
    BY <1>1, <1>7
  <2> HIDE DEF t
  <2>4. shown.from = <<me>> /\ shown.text = t
    <3>1. shown = [from |-> <<me>>, text |-> t]
      BY <1>5, <2>2, <2>3
    <3> QED BY <3>1
  <2>5. line # <<"SEND", SP, h>>
    <3> SUFFICES ASSUME line = <<"SEND", SP, h>> PROVE FALSE
      OBVIOUS
    <3>1. Len(line) = 3
      OBVIOUS
    <3> QED BY <1>7, <3>1
  <2>6. <<"SEND", SP, h>> \o <<SP>> = <<"SEND", SP, h, SP>>
    BY ZenonT(60), OneMore
  <2> HIDE DEF shown
  <2>7. line = (<<"SEND", SP>> \o Tokens[2]) \o <<SP>> \o shown.text
    BY <1>4, <2>2, <2>4, <2>6
  <2>8. toIP(line) = Tokens[2]
    BY <1>2, <2>2 DEF toIP
  <2> QED BY <1>4, <2>4, <2>5, <2>7, <2>8 DEF shown
<1> QED BY <1>2, <1>6, <1>7

\* Of any line that doSEND lets pass, the address the server reads is the one
\* that was checked, and the receiver shows the text as it was typed.
THEOREM TypedIsShown == Spec => []ShownAsTyped
<1> DEFINE I == LineType /\ TokenInv
<1>1. Init => I
  <2>1. Init => TokenInv
    BY DEF Init, TokenInv
  <2> QED BY <2>1, InitType
<1>2. I /\ Send => I'
  <2>1. I /\ Send => TokenInv'
    BY DEF Send, TokenInv
  <2> QED BY <2>1, SendType
<1>3. I /\ UNCHANGED lineVars => I'
    BY DEF LineType, TokenInv, lineVars, scanVars
<1>4. I /\ [Next]_lineVars => I'
    BY <1>2, <1>3, ScanType, ScanTokens DEF Next
<1>5. I => ShownAsTyped
    BY SentAsTyped
<1> QED BY <1>1, <1>4, <1>5, PTL DEF Spec
-----------------------------------------------------------------------------
(* Pieces.  The place of a cut is told by how many are in front of it. *)

\* A set of numbers has a least element.
LEMMA LeastNumber ==
    ASSUME NEW S \in SUBSET Nat, S # {}
    PROVE  \E x \in S : \A y \in S : x <= y
<1>1. IsWellFoundedOn(OpToRel(<, Nat), Nat)
    BY NatLessThanWellFounded
<1>2. PICK x \in S : \A y \in S : ~(<<y, x>> \in OpToRel(<, Nat))
    BY <1>1, WFMin
<1>3. \A y \in S : ~(y < x)
    BY <1>2 DEF OpToRel
<1> QED BY <1>3

\* Induction over the numbers up to n, for a set.
LEMMA SetInduction ==
    ASSUME NEW n \in Nat, NEW S, 0 \in S,
           \A k \in 0 .. n - 1 : k \in S => k + 1 \in S
    PROVE  0 .. n \subseteq S
<1> SUFFICES ASSUME (0 .. n) \ S # {} PROVE FALSE
    OBVIOUS
<1>1. PICK x \in (0 .. n) \ S : \A y \in (0 .. n) \ S : x <= y
  <2>1. (0 .. n) \ S \in SUBSET Nat
    OBVIOUS
  <2> QED BY <2>1, LeastNumber
<1>2. x - 1 \in 0 .. n - 1 /\ x - 1 \notin S
    BY <1>1
<1> QED BY <1>1, <1>2

\* The numbers of C in front of k; C is a finite set of numbers.
Before(C, k) == {l \in C : l < k}
Numbers(C) == C \in SUBSET Nat /\ IsFiniteSet(C)

\* Of two numbers of a set, the larger has more before it.
LEMMA BeforeGrows ==
    ASSUME NEW C, Numbers(C), NEW k \in C, NEW m \in C
    PROVE  /\ IsFiniteSet(Before(C, k)) /\ Cardinality(Before(C, k)) \in Nat
           /\ k < m => Cardinality(Before(C, k)) < Cardinality(Before(C, m))
<1>1. C \in SUBSET Nat /\ IsFiniteSet(C)
    BY DEF Numbers
<1>2. \A x \in C : /\ IsFiniteSet(Before(C, x))
                   /\ Cardinality(Before(C, x)) \in Nat
    BY <1>1, FS_Subset, FS_CardinalityType DEF Before
<1>4. k \in Nat /\ m \in Nat
    BY <1>1
<1>3. ASSUME k < m PROVE Cardinality(Before(C, k)) < Cardinality(Before(C, m))
  <2>1. Before(C, k) \in SUBSET Before(C, m)
    <3>1. \A l \in Nat : l < k => l < m
      BY <1>3, <1>4
    <3> QED BY <1>1, <3>1 DEF Before
  <2>2. k \in Before(C, m) /\ k \notin Before(C, k)
    BY <1>1, <1>3 DEF Before
  <2> QED BY <1>2, <2>1, <2>2, FS_Subset
<1> QED BY <1>2, <1>3

\* The number of a set with j others before it.
Place(C, j) == CHOOSE k \in C : Cardinality(Before(C, k)) = j

\* It is the only one.
LEMMA PlaceIs ==
    ASSUME NEW C, Numbers(C), NEW k \in C
    PROVE  Place(C, Cardinality(Before(C, k))) = k
<1> DEFINE j == Cardinality(Before(C, k))
           m == Place(C, j)
<1>1. m \in C /\ Cardinality(Before(C, m)) = j
    BY DEF Place
<1>2. C \in SUBSET Nat
    BY DEF Numbers
<1> HIDE DEF m
<1>3. ~(k < m) /\ ~(m < k)
  <2>1. j \in Nat
    BY BeforeGrows
  <2>2. k < m => j < Cardinality(Before(C, m))
    BY <1>1, BeforeGrows
  <2>3. m < k => Cardinality(Before(C, m)) < j
    BY <1>1, BeforeGrows
  <2> QED BY <1>1, <2>1, <2>2, <2>3
<1>4. m = k
    BY <1>1, <1>2, <1>3
<1> QED BY <1>4 DEF m

\* There is one for each number of others.
LEMMA PlaceExists ==
    ASSUME NEW C, Numbers(C), NEW i \in 0 .. Cardinality(C) - 1
    PROVE  Place(C, i) \in C /\ Cardinality(Before(C, Place(C, i))) = i
<1>1. C \in SUBSET Nat /\ IsFiniteSet(C) /\ Cardinality(C) \in Nat
    BY FS_CardinalityType DEF Numbers
<1> DEFINE S == {j \in Nat : \E k \in C : Cardinality(Before(C, k)) = j}
<1>2. 0 \in S
  <2>1. C # {}
    BY <1>1, FS_EmptySet
  <2>2. PICK k \in C : \A y \in C : k <= y
    BY <1>1, <2>1, LeastNumber
  <2>3. \A l \in C : ~(l < k)
    BY <1>1, <2>2
  <2>4. Before(C, k) = {}
    BY <2>3 DEF Before
  <2> QED BY <2>2, <2>4, FS_EmptySet
<1>3. ASSUME NEW j \in 0 .. (Cardinality(C) - 1) - 1, j \in S PROVE j + 1 \in S
  <2>1. PICK k \in C : Cardinality(Before(C, k)) = j
    BY <1>3
  <2>2. \E l \in C : k < l
    <3> SUFFICES ASSUME \A l \in C : l <= k PROVE FALSE
      BY <1>1
    <3>1. C = Before(C, k) \cup {k} /\ k \notin Before(C, k)
      <4>1. \A l \in C : l = k \/ l < k
        BY <1>1
      <4>2. ~(k < k)
        BY <1>1
      <4> QED BY <4>1, <4>2 DEF Before
    <3>2. IsFiniteSet(Before(C, k))
      BY BeforeGrows
    <3>3. Cardinality(C) = j + 1
      BY <2>1, <3>1, <3>2, FS_AddElement
    <3> QED BY <1>1, <3>3
  <2>3. PICK m \in {l \in C : k < l} : \A y \in {l \in C : k < l} : m <= y
    BY <1>1, <2>2, LeastNumber
  <2>4. Before(C, m) = Before(C, k) \cup {k} /\ k \notin Before(C, k)
    <3>1. \A l \in C : l < m <=> l < k \/ l = k
      BY <1>1, <2>3
    <3>2. ~(k < k)
      BY <1>1
    <3> QED BY <3>1, <3>2 DEF Before
  <2>5. IsFiniteSet(Before(C, k))
    BY BeforeGrows
  <2>6. Cardinality(Before(C, m)) = j + 1
    BY <2>1, <2>4, <2>5, FS_AddElement
  <2> QED BY <2>3, <2>6
<1>4. i \in S
  <2>1. Cardinality(C) - 1 \in Nat
    BY <1>1
  <2> HIDE DEF S
  <2>2. 0 .. Cardinality(C) - 1 \subseteq S
    BY <1>2, <1>3, <2>1, SetInduction
  <2> QED BY <2>2
<1> QED BY <1>4 DEF Place

\* Below a limit under which two sets are alike, so are their places.
LEMMA SamePlaces ==
    ASSUME NEW C, Numbers(C), NEW D, Numbers(D), NEW lim \in Nat,
           Before(C, lim) = Before(D, lim),
           NEW j \in 0 .. Cardinality(C) - 1, Place(C, j) < lim
    PROVE  Place(D, j) = Place(C, j)
<1> DEFINE k == Place(C, j)
<1>1. k \in C /\ Cardinality(Before(C, k)) = j
    BY PlaceExists
<1>2. C \in SUBSET Nat /\ D \in SUBSET Nat
    BY DEF Numbers
<1> HIDE DEF k
<1>3. k < lim
    BY DEF k
<1>4. k \in D
  <2>1. k \in Before(C, lim)
    BY <1>1, <1>3 DEF Before
  <2>2. k \in Before(D, lim)
    BY <2>1
  <2> QED BY <2>2 DEF Before
<1>5. Before(D, k) = Before(C, k)
  <2>1. \A l \in Nat : l < k => l < lim
    BY <1>1, <1>2, <1>3
  <2>2. Before(C, k) = Before(Before(C, lim), k)
    BY <1>2, <2>1 DEF Before
  <2>3. Before(D, k) = Before(Before(D, lim), k)
    BY <1>2, <2>1 DEF Before
  <2> QED BY <2>2, <2>3
<1>6. Place(D, Cardinality(Before(D, k))) = k
    BY <1>4, PlaceIs
<1> QED BY <1>1, <1>5, <1>6 DEF k

\* The model's Cut is that place.
LEMMA CutIsPlace ==
    ASSUME NEW s, NEW sep, NEW j
    PROVE  Cut(s, sep, j) = Place(Cuts(s, sep), j)
BY DEF Cut, Place, Before

\* The cuts of a string, and which is the last.
LEMMA CutsOf ==
    ASSUME NEW X, NEW s \in Seq(X), NEW sep, NEW C, C = Cuts(s, sep)
    PROVE  /\ Numbers(C) /\ C \in SUBSET (0 .. Len(s) + 1)
           /\ 0 \in C /\ Len(s) + 1 \in C
           /\ Cardinality(C) \in Nat /\ Cardinality(C) >= 2
           /\ Place(C, Cardinality(C) - 1) = Len(s) + 1
           /\ \A j \in 0 .. Cardinality(C) - 2 : Place(C, j) \in 0 .. Len(s)
           /\ \A j \in 1 .. Cardinality(C) - 1 : Place(C, j - 1) < Place(C, j)
<1>1. Len(s) \in Nat /\ DOMAIN s = 1 .. Len(s)
    OBVIOUS
<1> DEFINE e == Len(s) + 1
<1>2. C \in SUBSET (0 .. e) /\ 0 \in C /\ e \in C
    BY <1>1 DEF Cuts
<1>3. Numbers(C)
  <2>1. IsFiniteSet(0 .. e)
    BY <1>1, FS_Interval
  <2>2. 0 .. e \in SUBSET Nat
    BY <1>1
  <2> QED BY <1>2, <2>1, <2>2, FS_Subset DEF Numbers
<1>4. Cardinality(C) \in Nat /\ IsFiniteSet(C) /\ C \in SUBSET Nat
    BY <1>3, FS_CardinalityType DEF Numbers
<1> HIDE DEF e
<1>5. e \in Nat /\ e > 0
    BY <1>1 DEF e
<1>6. /\ Cardinality(Before(C, e)) = Cardinality(C) - 1
      /\ Cardinality(C) >= 1
  <2>1. \A l \in C : l < e <=> l # e
    BY <1>2, <1>4, <1>5
  <2>2. Before(C, e) = C \ {e}
    BY <2>1 DEF Before
  <2>3. Cardinality(C) # 0
    BY <1>2, <1>4, FS_EmptySet
  <2>4. Cardinality(C \ {e}) = Cardinality(C) - 1
    BY <1>2, <1>4, FS_RemoveElement
  <2> QED BY <1>4, <2>2, <2>3, <2>4
<1>7. Cardinality(C) >= 2
  <2>1. Cardinality(Before(C, 0)) < Cardinality(Before(C, e))
    BY <1>2, <1>3, <1>5, BeforeGrows
  <2>2. Cardinality(Before(C, 0)) \in Nat
    BY <1>2, <1>3, BeforeGrows
  <2> QED BY <1>4, <1>6, <2>1, <2>2
<1>8. Place(C, Cardinality(C) - 1) = e
    BY <1>2, <1>3, <1>6, PlaceIs
<1>9. ASSUME NEW j \in 0 .. Cardinality(C) - 1
      PROVE  /\ Place(C, j) \in 0 .. e
             /\ Cardinality(Before(C, Place(C, j))) = j
    BY <1>2, <1>3, <1>9, PlaceExists
<1>10. ASSUME NEW j \in 0 .. Cardinality(C) - 2 PROVE Place(C, j) \in 0 .. Len(s)
  <2>1. j \in 0 .. Cardinality(C) - 1 /\ j # Cardinality(C) - 1
    BY <1>4
  <2>2. Place(C, j) \in 0 .. e /\ Place(C, j) # e
    BY <1>6, <1>9, <2>1
  <2>3. e = Len(s) + 1
    BY DEF e
  <2> QED BY <1>1, <2>2, <2>3
<1>11. ASSUME NEW j \in 1 .. Cardinality(C) - 1
       PROVE  Place(C, j - 1) < Place(C, j)
  <2>1. j \in 0 .. Cardinality(C) - 1 /\ j - 1 \in 0 .. Cardinality(C) - 1
    BY <1>4
  <2> DEFINE k == Place(C, j - 1)
             m == Place(C, j)
  <2>2. k \in C /\ m \in C
    BY <1>3, <2>1, PlaceExists
  <2>3. /\ Cardinality(Before(C, k)) = j - 1
        /\ Cardinality(Before(C, m)) = j
    BY <1>9, <2>1
  <2> HIDE DEF k, m
  <2>4. k # m /\ ~(m < k)
    <3>1. m < k => Cardinality(Before(C, m)) < Cardinality(Before(C, k))
      BY <1>3, <2>2, BeforeGrows
    <3> QED BY <1>4, <2>3, <3>1
  <2>5. k \in Nat /\ m \in Nat
    BY <1>4, <2>2
  <2>6. k < m
    BY <2>4, <2>5
  <2> QED BY <2>6 DEF k, m
<1> QED BY <1>2, <1>3, <1>4, <1>7, <1>8, <1>10, <1>11 DEF e

\* The cuts of a string that is one character longer.
LEMMA CutsGrow ==
    ASSUME NEW X, NEW s \in Seq(X), NEW sep, NEW ch \in X,
           NEW C, C = Cuts(s, sep), NEW D, D = Cuts(Append(s, ch), sep)
    PROVE  /\ \A j \in 0 .. Cardinality(C) - 2 : Place(D, j) = Place(C, j)
           /\ ch # sep => Cardinality(D) = Cardinality(C)
           /\ ch = sep => /\ Cardinality(D) = Cardinality(C) + 1
                          /\ Place(D, Cardinality(C) - 1) = Len(s) + 1
<1> DEFINE t == Append(s, ch)
<1>1. /\ t \in Seq(X) /\ Len(t) = Len(s) + 1 /\ Len(s) \in Nat
      /\ DOMAIN s = 1 .. Len(s) /\ DOMAIN t = 1 .. Len(s) + 1
      /\ \A k \in 1 .. Len(s) : t[k] = s[k]
      /\ t[Len(s) + 1] = ch
    OBVIOUS
<1> HIDE DEF t
<1>2. /\ Numbers(C) /\ C \in SUBSET (0 .. Len(s) + 1)
      /\ Len(s) + 1 \in C /\ Cardinality(C) \in Nat /\ Cardinality(C) >= 2
      /\ Place(C, Cardinality(C) - 1) = Len(s) + 1
      /\ \A j \in 0 .. Cardinality(C) - 2 : Place(C, j) \in 0 .. Len(s)
    BY CutsOf
<1>3. D = Cuts(t, sep)
    BY DEF t
<1>4. Numbers(D) /\ Cardinality(D) \in Nat
    BY <1>1, <1>3, CutsOf
<1> DEFINE L == Len(s)
           Old == {0} \cup {k \in 1 .. L : s[k] = sep}
<1>5. C = Old \cup {L + 1}
    BY <1>1 DEF Cuts
<1>6. D = Old \cup {L + 2} \cup (IF ch = sep THEN {L + 1} ELSE {})
  <2>1. {k \in DOMAIN t : t[k] = sep} =
            {k \in 1 .. L : s[k] = sep}
                \cup (IF ch = sep THEN {L + 1} ELSE {})
    <3>1. \A k : k \in DOMAIN t <=> k \in 1 .. L \/ k = L + 1
      BY <1>1
    <3>2. L + 1 \notin 1 .. L
      BY <1>1
    <3> QED BY <1>1, <3>1, <3>2
  <2>2. Len(t) + 1 = L + 2
    BY <1>1
  <2> QED BY <1>3, <2>1, <2>2 DEF Cuts
<1>7. Old \in SUBSET (0 .. L) /\ L \in Nat
    BY <1>1
<1> HIDE DEF L, Old
<1>8. IsFiniteSet(Old)
  <2>1. Old \in SUBSET C
    BY <1>5
  <2> QED BY <1>2, <2>1, FS_Subset DEF Numbers
<1>9. L + 1 \notin Old /\ L + 2 \notin Old /\ L + 1 # L + 2
    BY <1>7
<1>10. Cardinality(C) = Cardinality(Old) + 1
    BY <1>5, <1>8, <1>9, FS_AddElement
<1>11. ch # sep => Cardinality(D) = Cardinality(Old) + 1
  <2>1. ch # sep => D = Old \cup {L + 2}
    BY <1>6
  <2>2. Cardinality(Old \cup {L + 2}) = Cardinality(Old) + 1
    BY <1>8, <1>9, FS_AddElement
  <2> QED BY <2>1, <2>2
<1>12. ch = sep => D = C \cup {L + 2} /\ Cardinality(D) = Cardinality(C) + 1
  <2> SUFFICES ASSUME ch = sep
               PROVE  D = C \cup {L + 2} /\ Cardinality(D) = Cardinality(C) + 1
    OBVIOUS
  <2>1. D = C \cup {L + 2} /\ L + 2 \notin C
    BY <1>5, <1>6, <1>9
  <2>2. IsFiniteSet(C)
    BY <1>2 DEF Numbers
  <2>3. Cardinality(C \cup {L + 2}) = Cardinality(C) + 1
    BY <2>1, <2>2, FS_AddElement
  <2> QED BY <2>1, <2>3
<1>13. Before(C, L + 1) = Old /\ Before(D, L + 1) = Old
  <2>1. \A l \in Old : l < L + 1
    BY <1>7
  <2>2. ~(L + 1 < L + 1) /\ ~(L + 2 < L + 1)
    BY <1>7
  <2> QED BY <1>5, <1>6, <2>1, <2>2 DEF Before
<1>14. ASSUME NEW j \in 0 .. Cardinality(C) - 2 PROVE Place(D, j) = Place(C, j)
  <2>1. j \in 0 .. Cardinality(C) - 1
    BY <1>2
  <2>2. Place(C, j) < L + 1 /\ L + 1 \in Nat
    BY <1>2, <1>7, <1>14 DEF L
  <2>3. Before(C, L + 1) = Before(D, L + 1)
    BY <1>13
  <2> QED BY <1>2, <1>4, <2>1, <2>2, <2>3, SamePlaces
<1>15. ch = sep => Place(D, Cardinality(C) - 1) = L + 1
  <2> SUFFICES ASSUME ch = sep PROVE Place(D, Cardinality(C) - 1) = L + 1
    OBVIOUS
  <2>1. L + 1 \in D
    BY <1>6
  <2>2. Cardinality(Before(D, L + 1)) = Cardinality(C) - 1
    <3>1. Cardinality(Old) \in Nat
      BY <1>8, FS_CardinalityType
    <3> QED BY <1>10, <1>13, <3>1
  <2> QED BY <1>4, <2>1, <2>2, PlaceIs
<1> QED BY <1>10, <1>11, <1>12, <1>14, <1>15 DEF L

\* A part of a string is a part of the string that is one character longer; or
\* it has the character too.
LEMMA PartGrows ==
    ASSUME NEW X, NEW s \in Seq(X), NEW ch \in X, NEW a \in 1 .. Len(s) + 1
    PROVE  /\ \A b \in 0 .. Len(s) : SubSeq(Append(s, ch), a, b) = SubSeq(s, a, b)
           /\ SubSeq(Append(s, ch), a, Len(s) + 1) =
                  Append(SubSeq(s, a, Len(s)), ch)
<1> DEFINE t == Append(s, ch)
<1>1. /\ t \in Seq(X) /\ Len(t) = Len(s) + 1 /\ Len(s) \in Nat
      /\ \A k \in 1 .. Len(s) : t[k] = s[k]
      /\ t[Len(s) + 1] = ch
    OBVIOUS
<1> HIDE DEF t
<1>2. ASSUME NEW b \in 0 .. Len(s) PROVE SubSeq(t, a, b) = SubSeq(s, a, b)
  <2>1. \A l \in 1 .. (b - a + 1) : a + l - 1 \in 1 .. Len(s)
    BY <1>1
  <2> DEFINE u == SubSeq(t, a, b)
             v == SubSeq(s, a, b)
             n == IF a <= b THEN b - a + 1 ELSE 0
  <2>2. \A k \in a .. b : k \in 1 .. Len(s) /\ k \in 1 .. Len(t)
    BY <1>1
  <2>3. \A k \in a .. b : s[k] \in X /\ t[k] \in X
    BY <1>1, <2>2, ElementOfSeq
  <2>4. /\ u \in Seq(X) /\ Len(u) = n
        /\ \A l \in 1 .. (b - a + 1) : u[l] = t[a + l - 1]
    BY <2>3, SubSeqProperties
  <2>5. /\ v \in Seq(X) /\ Len(v) = n
        /\ \A l \in 1 .. (b - a + 1) : v[l] = s[a + l - 1]
    BY <2>3, SubSeqProperties
  <2> HIDE DEF u, v
  <2>6. \A l \in 1 .. Len(u) : u[l] = v[l]
    <3> SUFFICES ASSUME NEW l \in 1 .. Len(u) PROVE u[l] = v[l]
      OBVIOUS
    <3>1. l \in 1 .. (b - a + 1)
      BY <2>4
    <3> QED BY <1>1, <2>1, <2>4, <2>5, <3>1
  <2>7. u = v
    BY <2>4, <2>5, <2>6, SeqEqual
  <2> QED BY <2>7 DEF u, v
<1>3. SubSeq(t, a, Len(s) + 1) = Append(SubSeq(s, a, Len(s)), ch)
  <2> DEFINE w == SubSeq(s, a, Len(s))
             u == SubSeq(t, a, Len(t))
             v == Append(w, ch)
  <2>1. /\ w \in Seq(X) /\ Len(w) = Len(s) + 1 - a
        /\ \A l \in 1 .. Len(w) : w[l] = s[a + l - 1]
    BY LeftFrom
  <2>2. /\ u \in Seq(X) /\ Len(u) = Len(s) + 2 - a
        /\ \A l \in 1 .. Len(u) : u[l] = t[a + l - 1]
    <3>1. /\ u \in Seq(X) /\ Len(u) = Len(t) + 1 - a
          /\ \A l \in 1 .. Len(u) : u[l] = t[a + l - 1]
      BY <1>1, LeftFrom
    <3> HIDE DEF u
    <3> QED BY <1>1, <3>1
  <2> HIDE DEF w, u
  <2>3. /\ v \in Seq(X) /\ Len(v) = Len(w) + 1
        /\ \A l \in 1 .. Len(w) : v[l] = w[l]
        /\ v[Len(w) + 1] = ch
    <3>1. w \in Seq(X)
      BY <2>1
    <3>2. /\ v \in Seq(X) /\ Len(v) = Len(w) + 1
          /\ \A l \in 1 .. Len(w) + 1 :
                v[l] = IF l <= Len(w) THEN w[l] ELSE ch
      BY <3>1, AppendProperties
    <3>3. Len(w) \in Nat
      BY <3>1
    <3> HIDE DEF v
    <3> QED BY <3>2, <3>3
  <2> HIDE DEF v
  <2>4. \A l \in 1 .. Len(u) : u[l] = v[l]
    <3> SUFFICES ASSUME NEW l \in 1 .. Len(u) PROVE u[l] = v[l]
      OBVIOUS
    <3>1. CASE l \in 1 .. Len(w)
      <4>1. a + l - 1 \in 1 .. Len(s)
        BY <1>1, <2>1, <3>1
      <4> QED BY <1>1, <2>1, <2>2, <2>3, <3>1, <4>1
    <3>2. CASE l = Len(w) + 1
      <4>1. a + l - 1 = Len(s) + 1
        BY <1>1, <2>1, <3>2
      <4> QED BY <1>1, <2>2, <2>3, <3>2, <4>1
    <3>3. l \in 1 .. Len(w) \/ l = Len(w) + 1
      BY <1>1, <2>1, <2>2
    <3> QED BY <3>1, <3>2, <3>3
  <2>5. Len(u) = Len(v)
    BY <1>1, <2>1, <2>2, <2>3
  <2>6. u = v
    BY <2>2, <2>3, <2>4, <2>5, SeqEqual
  <2> QED BY <1>1, <2>6 DEF u, v, w
<1> QED BY <1>2, <1>3 DEF t

\* The pieces of a string are strings, at least one, and the last goes on to the
\* end.
LEMMA PiecesType ==
    ASSUME NEW X, NEW s \in Seq(X), NEW sep
    PROVE  /\ Pieces(s, sep) \in Seq(Seq(X))
           /\ Len(Pieces(s, sep)) = Cardinality(Cuts(s, sep)) - 1
           /\ Len(Pieces(s, sep)) >= 1
<1> DEFINE C == Cuts(s, sep)
           n == Cardinality(C) - 1
<1>1. Cardinality(C) \in Nat /\ Cardinality(C) >= 2
    BY CutsOf
<1>2. n \in Nat /\ n >= 1
    BY <1>1
<1>3. ASSUME NEW j \in 1 .. n
      PROVE  SubSeq(s, Cut(s, sep, j - 1) + 1, Cut(s, sep, j) - 1) \in Seq(X)
  <2> DEFINE a == Cut(s, sep, j - 1)
             b == Cut(s, sep, j)
  <2>1. j - 1 \in 0 .. Cardinality(C) - 2
    BY <1>1
  <2>2. a \in 0 .. Len(s)
    BY <2>1, CutsOf, CutIsPlace
  <2>3. b \in 0 .. Len(s) + 1
    <3>1. j \in 0 .. Cardinality(C) - 1
      BY <1>1
    <3>2. Numbers(C) /\ C \in SUBSET (0 .. Len(s) + 1)
      BY CutsOf
    <3>3. b \in C
      BY <3>1, <3>2, PlaceExists, CutIsPlace
    <3> QED BY <3>2, <3>3
  <2> HIDE DEF a, b
  <2>4. \A k \in a + 1 .. b - 1 : s[k] \in X
    <3>1. \A k \in a + 1 .. b - 1 : k \in 1 .. Len(s)
      BY <2>2, <2>3
    <3> QED BY <3>1, ElementOfSeq
  <2>5. SubSeq(s, a + 1, b - 1) \in Seq(X)
    <3>1. a + 1 \in Int /\ b - 1 \in Int
      BY <2>2, <2>3
    <3> QED BY <2>4, <3>1, SubSeqProperties
  <2> QED BY <2>5 DEF a, b
<1>4. Pieces(s, sep) = [j \in 1 .. n |->
          SubSeq(s, Cut(s, sep, j - 1) + 1, Cut(s, sep, j) - 1)]
    BY DEF Pieces
<1> HIDE DEF n
<1>5. Pieces(s, sep) \in Seq(Seq(X)) /\ Len(Pieces(s, sep)) = n
    BY <1>2, <1>3, <1>4, IsASeq
<1> QED BY <1>2, <1>5 DEF n

\* The empty string is one piece.
LEMMA PiecesNone ==
    ASSUME NEW sep PROVE Pieces(<<>>, sep) = << <<>> >>
<1> DEFINE C == Cuts(<<>>, sep)
<1>1. C = {0, 1}
    BY DEF Cuts
<1>2. Cardinality(C) = 2
  <2>1. Cardinality({0}) = 1 /\ IsFiniteSet({0})
    BY FS_Singleton
  <2>2. Cardinality({0} \cup {1}) = 2
    BY <2>1, FS_AddElement
  <2> QED BY <1>1, <2>2
<1> HIDE DEF C
<1>3. \A j \in 1 .. 1 : SubSeq(<<>>, Cut(<<>>, sep, j - 1) + 1,
                                      Cut(<<>>, sep, j) - 1) = <<>>
  <2>1. <<>> \in Seq({}) /\ Len(<<>>) = 0
    OBVIOUS
  <2>2. Cut(<<>>, sep, 0) \in 0 .. 0 /\ Cut(<<>>, sep, 1) = 1
    <3>1. /\ Place(C, Cardinality(C) - 1) = Len(<<>>) + 1
          /\ \A j \in 0 .. Cardinality(C) - 2 : Place(C, j) \in 0 .. Len(<<>>)
      BY <2>1, CutsOf DEF C
    <3>2. Place(C, 1) = 1 /\ Place(C, 0) \in 0 .. 0
      BY <1>2, <2>1, <3>1
    <3> QED BY <3>2, CutIsPlace DEF C
  <2>3. SubSeq(<<>>, 0 + 1, 1 - 1) = <<>>
    BY SubSeqEmpty
  <2> QED BY <2>2, <2>3
<1>4. Pieces(<<>>, sep) = [j \in 1 .. 1 |-> <<>>]
    BY <1>2, <1>3 DEF Pieces, C
<1> QED BY <1>4

\* The pieces of s are those in p and then w.
Split(s, sep, p, w) == Pieces(s, sep) = Append(p, w)

\* A character behind a string is a separator, or belongs to the last piece.
LEMMA PiecesGrow ==
    ASSUME NEW X, NEW s \in Seq(X), NEW ch \in X, NEW sep,
           NEW p \in Seq(Seq(X)), NEW w \in Seq(X),
           Split(s, sep, p, w)
    PROVE  /\ ch = sep => Split(Append(s, ch), sep, Append(p, w), <<>>)
           /\ ch # sep => Split(Append(s, ch), sep, p, Append(w, ch))
<1> DEFINE t == Append(s, ch)
           C == Cuts(s, sep)
           D == Cuts(t, sep)
           n == Len(p) + 1
           a(j) == Place(C, j)
           q == Pieces(t, sep)
<1>1. /\ Cardinality(C) - 1 = n /\ n \in Nat /\ n >= 1
      /\ \A j \in 1 .. n : Append(p, w)[j] =
                               SubSeq(s, a(j - 1) + 1, a(j) - 1)
  <2>1. Len(Pieces(s, sep)) = Cardinality(C) - 1
    BY PiecesType
  <2>2. Len(Append(p, w)) = n /\ n \in Nat /\ n >= 1
    OBVIOUS
  <2>3. \A j \in 1 .. Cardinality(C) - 1 :
            Pieces(s, sep)[j] = SubSeq(s, a(j - 1) + 1, a(j) - 1)
    BY CutIsPlace DEF Pieces
  <2> QED BY <2>1, <2>2, <2>3 DEF Split
<1>2. /\ a(n) = Len(s) + 1 /\ Len(s) \in Nat
      /\ \A j \in 0 .. n - 1 : a(j) \in 0 .. Len(s)
      /\ \A j \in 1 .. n : a(j - 1) < a(j)
  <2>1. /\ Place(C, Cardinality(C) - 1) = Len(s) + 1
        /\ \A j \in 0 .. Cardinality(C) - 2 : Place(C, j) \in 0 .. Len(s)
        /\ \A j \in 1 .. Cardinality(C) - 1 : Place(C, j - 1) < Place(C, j)
        /\ Cardinality(C) \in Nat
    BY CutsOf
  <2>2. Cardinality(C) - 2 = n - 1
    BY <1>1, <2>1
  <2> QED BY <1>1, <2>1, <2>2
<1>3. /\ \A j \in 0 .. n - 1 : Place(D, j) = a(j)
      /\ ch # sep => Cardinality(D) - 1 = n
      /\ ch = sep => Cardinality(D) - 1 = n + 1 /\ Place(D, n) = a(n)
  <2>1. /\ \A j \in 0 .. Cardinality(C) - 2 : Place(D, j) = Place(C, j)
        /\ ch # sep => Cardinality(D) = Cardinality(C)
        /\ ch = sep => /\ Cardinality(D) = Cardinality(C) + 1
                       /\ Place(D, Cardinality(C) - 1) = Len(s) + 1
    BY CutsGrow
  <2>2. Cardinality(C) \in Nat
    BY CutsOf
  <2>3. Cardinality(C) - 2 = n - 1
    BY <1>1, <2>2
  <2> QED BY <1>1, <1>2, <2>1, <2>2, <2>3
<1>4. /\ t \in Seq(X) /\ Len(t) = Len(s) + 1
      /\ Place(D, Cardinality(D) - 1) = Len(s) + 2
  <2>1. t \in Seq(X) /\ Len(t) = Len(s) + 1
    OBVIOUS
  <2> HIDE DEF t
  <2>2. Place(D, Cardinality(D) - 1) = Len(t) + 1
    BY <2>1, CutsOf
  <2> QED BY <1>2, <2>1, <2>2
<1>5. /\ q \in Seq(Seq(X)) /\ Len(q) = Cardinality(D) - 1
      /\ \A j \in 1 .. Cardinality(D) - 1 :
             q[j] = SubSeq(t, Place(D, j - 1) + 1, Place(D, j) - 1)
  <2>1. q \in Seq(Seq(X)) /\ Len(q) = Cardinality(D) - 1
    BY <1>4, PiecesType
  <2>2. \A j \in 1 .. Cardinality(D) - 1 :
            q[j] = SubSeq(t, Place(D, j - 1) + 1, Place(D, j) - 1)
    BY CutIsPlace DEF Pieces
  <2> QED BY <2>1, <2>2
<1>6. /\ \A j \in 1 .. n - 1 : Append(p, w)[j] = p[j]
      /\ Append(p, w)[n] = w
    OBVIOUS
<1> HIDE DEF C, D, n, q
<1>7. ASSUME NEW j \in 1 .. n, j < n \/ ch = sep
      PROVE  q[j] = Append(p, w)[j]
  <2>1. /\ j - 1 \in 0 .. n - 1 /\ Place(D, j - 1) = a(j - 1)
        /\ a(j - 1) \in 0 .. Len(s)
    BY <1>1, <1>2, <1>3
  <2>2. Place(D, j) = a(j) /\ a(j) - 1 \in 0 .. Len(s)
    <3>1. CASE j < n
      <4>1. j \in 0 .. n - 1
        BY <1>1, <3>1
      <4>2. a(j) \in 0 .. Len(s) /\ a(j - 1) < a(j)
        BY <1>2, <4>1
      <4> QED BY <1>2, <1>3, <2>1, <4>1, <4>2
    <3>2. CASE j = n
      BY <1>2, <1>3, <1>7, <3>2
    <3> QED BY <1>1, <1>7, <3>1, <3>2
  <2>3. j \in 1 .. Cardinality(D) - 1
    BY <1>1, <1>3
  <2>4. q[j] = SubSeq(t, a(j - 1) + 1, a(j) - 1)
    BY <1>5, <2>1, <2>2, <2>3
  <2>5. a(j - 1) + 1 \in 1 .. Len(s) + 1
    BY <1>2, <2>1
  <2>6. SubSeq(t, a(j - 1) + 1, a(j) - 1) = SubSeq(s, a(j - 1) + 1, a(j) - 1)
    BY <2>2, <2>5, PartGrows
  <2> QED BY <1>1, <2>4, <2>6
<1>8. CASE ch = sep
  <2> DEFINE r == Append(Append(p, w), <<>>)
  <2>1. q[n + 1] = <<>>
    <3>1. n + 1 \in 1 .. Cardinality(D) - 1 /\ (n + 1) - 1 = n
      BY <1>1, <1>3, <1>8
    <3>2. q[n + 1] = SubSeq(t, (Len(s) + 1) + 1, (Len(s) + 2) - 1)
      BY <1>2, <1>3, <1>4, <1>5, <1>8, <3>1
    <3>3. SubSeq(t, (Len(s) + 1) + 1, (Len(s) + 2) - 1) = <<>>
      BY <1>2, SubSeqEmpty
    <3> QED BY <3>2, <3>3
  <2>2. /\ r \in Seq(Seq(X)) /\ Len(r) = n + 1
        /\ \A j \in 1 .. n : r[j] = Append(p, w)[j]
        /\ r[n + 1] = <<>>
    BY DEF n
  <2> HIDE DEF r
  <2>3. \A j \in 1 .. Len(q) : q[j] = r[j]
    <3> SUFFICES ASSUME NEW j \in 1 .. Len(q) PROVE q[j] = r[j]
      OBVIOUS
    <3>1. j \in 1 .. n \/ j = n + 1
      BY <1>1, <1>3, <1>5, <1>8
    <3> QED BY <1>7, <1>8, <2>1, <2>2, <3>1
  <2>4. q = r
    BY <1>3, <1>5, <1>8, <2>2, <2>3, SeqEqual
  <2> QED BY <1>8, <2>4 DEF q, r, Split
<1>9. CASE ch # sep
  <2> DEFINE r == Append(p, Append(w, ch))
  <2>1. q[n] = Append(w, ch)
    <3>1. n \in 1 .. Cardinality(D) - 1 /\ n - 1 \in 0 .. n - 1 /\ n \in 1 .. n
      BY <1>1, <1>3, <1>9
    <3>2. q[n] = SubSeq(t, a(n - 1) + 1, (Len(s) + 2) - 1)
      BY <1>3, <1>4, <1>5, <1>9, <3>1
    <3>3. a(n - 1) + 1 \in 1 .. Len(s) + 1 /\ (Len(s) + 2) - 1 = Len(s) + 1
      BY <1>2, <3>1
    <3>4. q[n] = Append(SubSeq(s, a(n - 1) + 1, Len(s)), ch)
      BY <3>2, <3>3, PartGrows
    <3>5. w = SubSeq(s, a(n - 1) + 1, (Len(s) + 1) - 1)
      BY <1>1, <1>2, <1>6, <3>1
    <3>6. (Len(s) + 1) - 1 = Len(s)
      BY <1>2
    <3> QED BY <3>4, <3>5, <3>6
  <2>2. /\ r \in Seq(Seq(X)) /\ Len(r) = n
        /\ \A j \in 1 .. n - 1 : r[j] = p[j]
        /\ r[n] = Append(w, ch)
    <3>1. Append(w, ch) \in Seq(X)
      OBVIOUS
    <3> QED BY <3>1 DEF n
  <2> HIDE DEF r
  <2>3. \A j \in 1 .. Len(q) : q[j] = r[j]
    <3> SUFFICES ASSUME NEW j \in 1 .. Len(q) PROVE q[j] = r[j]
      OBVIOUS
    <3>1. j \in 1 .. n /\ (j \in 1 .. n - 1 \/ j = n)
      BY <1>1, <1>3, <1>5, <1>9
    <3>2. j \in 1 .. n - 1 => j < n
      BY <1>1
    <3> QED BY <1>6, <1>7, <2>1, <2>2, <3>1, <3>2
  <2>4. q = r
    BY <1>3, <1>5, <1>9, <2>2, <2>3, SeqEqual
  <2> QED BY <1>9, <2>4 DEF q, r, Split
<1> QED BY <1>8, <1>9 DEF Split

\* Without a separator there is one piece.
LEMMA StartPieces ==
    ASSUME NEW a \in Alphabets, NEW sep \in {SP, "\n"}
    PROVE  Split(a.start, sep, <<>>, a.start)
<1>1. Split(<<>>, sep, <<>>, <<>>)
    BY PiecesNone DEF Split
<1>2. Split(<<"SEND">>, sep, <<>>, <<"SEND">>)
  <2>1. /\ <<>> \in Seq({"SEND"}) /\ <<>> \in Seq(Seq({"SEND"}))
        /\ "SEND" \in {"SEND"} /\ "SEND" # sep
        /\ Append(<<>>, "SEND") = <<"SEND">>
    BY DEF SP
  <2>2. Split(Append(<<>>, "SEND"), sep, <<>>, Append(<<>>, "SEND"))
    BY <1>1, <2>1, PiecesGrow
  <2> QED BY <2>1, <2>2
<1> QED BY <1>1, <1>2, LinesAssumption

\* What the loop has found is the pieces of the line, or of its first part
\* when it has ended.
WordInv ==
    IF broken
    THEN /\ command = <<>> /\ Len(Pieces(line, "\n")) >= 2
         /\ tokenized = Pieces(Pieces(line, "\n")[1], SP)
    ELSE Split(line, "\n", <<>>, line) /\ Split(line, SP, tokenized, command)

\* A turn of the loop keeps it.
LEMMA ScanWords ==
    ASSUME LineType, WordInv, NEW ch \in alphabet.chars, Scan(ch)
    PROVE  WordInv'
<1> DEFINE X == Own(alphabet)
<1>1. /\ line \in Seq(X) /\ tokenized \in Seq(Seq(X)) /\ command \in Seq(X)
      /\ ch \in X /\ line' = Append(line, ch) /\ broken \in BOOLEAN
    BY DEF LineType, Scan, Own, Letters
<1> HIDE DEF X
<1>2. CASE broken
  <2>1. UNCHANGED <<tokenized, command, broken>>
    BY <1>2 DEF Scan, Tokenize
  <2> DEFINE q == Pieces(line, "\n")
  <2>2. q \in Seq(Seq(X)) /\ Len(q) >= 2
    BY <1>1, <1>2, PiecesType DEF WordInv
  <2>3. PICK p \in Seq(Seq(X)), w \in Seq(X) : q = Append(p, w)
    <3>1. q # <<>>
      BY <2>2
    <3> QED BY <2>2, <3>1, SequenceEmptyOrAppend
  <2>4. Len(q) = Len(p) + 1 /\ q[1] = p[1] /\ Len(p) \in Nat /\ Len(p) >= 1
    <3> HIDE DEF q
    <3> QED BY <2>2, <2>3
  <2> DEFINE r == Pieces(line', "\n")
  <2>5. /\ ch = "\n" => r = Append(Append(p, w), <<>>)
        /\ ch # "\n" => r = Append(p, Append(w, ch))
    <3>1. Split(line, "\n", p, w)
      BY <2>3 DEF Split
    <3>2. /\ ch = "\n" => Split(line', "\n", Append(p, w), <<>>)
          /\ ch # "\n" => Split(line', "\n", p, Append(w, ch))
      BY <1>1, <3>1, PiecesGrow
    <3> QED BY <3>2 DEF Split
  <2> HIDE DEF r
  <2>6. Len(r) >= 2 /\ r[1] = p[1]
    <3>1. CASE ch = "\n"
      <4>1. /\ Append(p, w) \in Seq(Seq(X)) /\ Len(Append(p, w)) >= 2
            /\ Append(p, w)[1] = p[1] /\ Len(Append(p, w)) \in Nat
        BY <2>4
      <4> DEFINE u == Append(p, w)
      <4> HIDE DEF u
      <4>2. r = Append(u, <<>>)
        BY <2>5, <3>1 DEF u
      <4>3. u \in Seq(Seq(X)) /\ Len(u) >= 2 /\ u[1] = p[1]
        BY <4>1 DEF u
      <4> QED BY <4>2, <4>3
    <3>2. CASE ch # "\n"
      <4> DEFINE v == Append(w, ch)
      <4>1. v \in Seq(X) /\ r = Append(p, v)
        BY <1>1, <2>5, <3>2
      <4> HIDE DEF v
      <4>2. Len(r) = Len(p) + 1 /\ \A k \in 1 .. Len(p) : r[k] = p[k]
        BY <4>1, AppendProperties
      <4> QED BY <2>4, <4>2
    <3> QED BY <3>1, <3>2
  <2> QED BY <1>2, <2>1, <2>4, <2>6 DEF WordInv, q, r
<1>3. CASE ~broken
  <2>1. Split(line, "\n", <<>>, line) /\ Split(line, SP, tokenized, command)
    BY <1>3 DEF WordInv
  <2>2. /\ ch = "\n" => Split(line', "\n", Append(<<>>, line), <<>>)
        /\ ch # "\n" => Split(line', "\n", <<>>, line')
    <3>1. <<>> \in Seq(Seq(X))
      OBVIOUS
    <3> QED BY <1>1, <2>1, <3>1, PiecesGrow
  <2>3. /\ ch = SP => Split(line', SP, Append(tokenized, command), <<>>)
        /\ ch # SP => Split(line', SP, tokenized, Append(command, ch))
    BY <1>1, <2>1, PiecesGrow
  <2>4. SP # "\n"
    BY DEF SP
  <2>5. CASE ch = "\n"
    <3>1. /\ broken' /\ tokenized' = Append(tokenized, command)
          /\ command' = <<>>
      BY <1>3, <2>5 DEF Scan, Tokenize
    <3>2. Len(Append(Append(<<>>, line), <<>>)) = 2
          /\ Append(Append(<<>>, line), <<>>)[1] = line
      OBVIOUS
    <3>3. /\ Pieces(line', "\n") = Append(Append(<<>>, line), <<>>)
          /\ Pieces(line, SP) = tokenized'
      BY <2>1, <2>2, <2>5, <3>1 DEF Split
    <3> QED BY <3>1, <3>2, <3>3 DEF WordInv
  <2>6. CASE ch = SP
    <3>1. /\ ~broken' /\ tokenized' = Append(tokenized, command)
          /\ command' = <<>>
      BY <1>3, <2>4, <2>6 DEF Scan, Tokenize
    <3> QED BY <2>2, <2>3, <2>4, <2>6, <3>1 DEF WordInv
  <2>7. CASE ch \notin {SP, "\n"}
    <3>1. ~broken' /\ tokenized' = tokenized /\ command' = Append(command, ch)
      BY <1>3, <2>7 DEF Scan, Tokenize
    <3> QED BY <2>2, <2>3, <2>7, <3>1 DEF WordInv
  <2> QED BY <2>5, <2>6, <2>7
<1> QED BY <1>2, <1>3

\* Without its last element a sequence is what it was appended to.
LEMMA FrontOf ==
    ASSUME NEW X, NEW p \in Seq(X), NEW w \in X
    PROVE  Front(Append(p, w)) = p
<1> DEFINE q == Append(p, w)
           u == SubSeq(q, 1, Len(p))
<1>1. /\ Len(q) - 1 = Len(p) /\ Len(p) \in Nat /\ q \in Seq(X)
      /\ \A k \in 1 .. Len(p) : q[k] = p[k] /\ q[k] \in X
    OBVIOUS
<1>2. /\ u \in Seq(X) /\ Len(u) = Len(p)
      /\ \A k \in 1 .. Len(p) : u[k] = p[k]
  <2> HIDE DEF q
  <2> QED BY <1>1, SubSeqProperties
<1> HIDE DEF u
<1>3. u = p
    BY <1>2, SeqEqual
<1> QED BY <1>1, <1>3 DEF Front, u

\* The pieces with the last taken off, or only it if it is empty.
LEMMA WordsOfPieces ==
    ASSUME NEW X, NEW s, NEW p \in Seq(Seq(X)), NEW w \in Seq(X),
           Split(s, SP, p, w)
    PROVE  WordsOf(s) = IF w = <<>> THEN p ELSE Append(p, w)
<1>1. Last(Append(p, w)) = w
    BY DEF Last
<1>2. Front(Append(p, w)) = p
    BY FrontOf
<1> QED BY <1>1, <1>2 DEF WordsOf, Split

\* For every line the loop of stringTokenize comes to the line's words.
THEOREM TokensFound == Spec => []TokensAreWords
<1> DEFINE I == LineType /\ WordInv
<1>1. Init => I
  <2>1. Init => WordInv
    <3> SUFFICES ASSUME Init PROVE WordInv
      OBVIOUS
    <3>1. /\ alphabet \in Alphabets /\ line = alphabet.start /\ ~broken
          /\ tokenized = <<>> /\ command = line
      BY DEF Init
    <3> QED BY <3>1, StartPieces DEF WordInv
  <2> QED BY <2>1, InitType
<1>2. I /\ Send => I'
  <2>1. ASSUME I, Send PROVE WordInv'
    <3>1. /\ alphabet \in Alphabets /\ alphabet' = alphabet
          /\ line' = alphabet.start /\ ~broken'
          /\ tokenized' = <<>> /\ command' = line'
      BY <2>1 DEF LineType, Send
    <3>2. /\ Split(alphabet.start, "\n", <<>>, alphabet.start)
          /\ Split(alphabet.start, SP, <<>>, alphabet.start)
      BY <3>1, StartPieces
    <3> QED BY <3>1, <3>2 DEF WordInv
  <2> QED BY <2>1, SendType
<1>3. I /\ UNCHANGED lineVars => I'
    BY DEF LineType, WordInv, lineVars, scanVars
<1>4. I /\ [Next]_lineVars => I'
    BY <1>2, <1>3, ScanType, ScanWords DEF Next
<1>5. I => TokensAreWords
  <2> SUFFICES ASSUME LineType, WordInv PROVE TokensAreWords
    OBVIOUS
  <2>1. tokenized \in Seq(Seq(Own(alphabet))) /\ command \in Seq(Own(alphabet))
    BY DEF LineType
  <2>2. CASE broken
    BY <2>2 DEF WordInv, Tokens, TokensAreWords
  <2>3. CASE ~broken
    <3>1. WordsOf(line) = IF command = <<>> THEN tokenized
                          ELSE Append(tokenized, command)
      <4>1. Split(line, SP, tokenized, command)
        BY <2>3 DEF WordInv
      <4> QED BY <2>1, <4>1, WordsOfPieces, Zenon
    <3> QED BY <2>3, <3>1 DEF Tokens, TokensAreWords
  <2> QED BY <2>2, <2>3
<1> QED BY <1>1, <1>4, <1>5, PTL DEF Spec

-----------------------------------------------------------------------------
(* Strings put together. *)

\* f is the strings of q put together, up to each one of the first n.
Joins(f, q, n) ==
    f = [i \in 1 .. n |-> IF i = 1 THEN q[i] ELSE f[i - 1] \o q[i]]

\* There is such a function.
LEMMA JoinsExist ==
    ASSUME NEW q, NEW n \in Nat PROVE \E f : Joins(f, q, n)
<1> DEFINE S == {k \in Nat : \E f : Joins(f, q, k)}
<1>1. 0 \in S
  <2>1. Joins([i \in 1 .. 0 |-> q], q, 0)
    BY DEF Joins
  <2> QED BY <2>1
<1>2. ASSUME NEW k \in 0 .. n - 1, k \in S PROVE k + 1 \in S
  <2>1. PICK f : Joins(f, q, k)
    BY <1>2
  <2> DEFINE g == [i \in 1 .. k + 1 |->
                      IF i <= k THEN f[i]
                      ELSE IF i = 1 THEN q[i] ELSE f[i - 1] \o q[i]]
  <2>2. \A i \in 1 .. k + 1 :
            g[i] = IF i = 1 THEN q[i] ELSE g[i - 1] \o q[i]
    <3> SUFFICES ASSUME NEW i \in 1 .. k + 1
                 PROVE  g[i] = IF i = 1 THEN q[i] ELSE g[i - 1] \o q[i]
      OBVIOUS
    <3>1. i # 1 => i - 1 \in 1 .. k + 1 /\ i - 1 <= k
      OBVIOUS
    <3>2. i # 1 => g[i - 1] = f[i - 1]
      BY <3>1
    <3>3. CASE i <= k
      <4>1. i \in 1 .. k
        BY <3>3
      <4>2. f[i] = IF i = 1 THEN q[i] ELSE f[i - 1] \o q[i]
        BY <2>1, <4>1 DEF Joins
      <4> QED BY <3>2, <3>3, <4>2
    <3>4. CASE ~(i <= k)
      BY <3>2, <3>4
    <3> QED BY <3>3, <3>4
  <2>3. DOMAIN g = 1 .. k + 1 /\ g = [i \in 1 .. k + 1 |-> g[i]]
    OBVIOUS
  <2> HIDE DEF g
  <2>4. Joins(g, q, k + 1)
    BY <2>2, <2>3 DEF Joins
  <2> QED BY <2>4
<1> HIDE DEF S
<1>3. n \in S
  <2>1. 0 .. n \subseteq S
    BY <1>1, <1>2, SetInduction
  <2> QED BY <2>1
<1> QED BY <1>3 DEF S

\* They are strings, and depend on no more than what is put together.
LEMMA JoinsAgree ==
    ASSUME NEW X, NEW q, NEW r, NEW n \in Nat, NEW m \in Nat, n <= m,
           \A i \in 1 .. n : q[i] = r[i] /\ q[i] \in Seq(X),
           NEW f, Joins(f, q, n), NEW g, Joins(g, r, m)
    PROVE  \A i \in 1 .. n : f[i] = g[i] /\ f[i] \in Seq(X)
<1> DEFINE S == {k \in Nat : k \in 1 .. n => f[k] = g[k] /\ f[k] \in Seq(X)}
<1>1. 0 \in S
    OBVIOUS
<1>2. ASSUME NEW k \in 0 .. n - 1, k \in S PROVE k + 1 \in S
  <2>1. k + 1 \in 1 .. n /\ k + 1 \in 1 .. m /\ (k + 1) - 1 = k
    OBVIOUS
  <2>2. /\ f[k + 1] = IF k + 1 = 1 THEN q[k + 1] ELSE f[k] \o q[k + 1]
        /\ g[k + 1] = IF k + 1 = 1 THEN r[k + 1] ELSE g[k] \o r[k + 1]
    BY <2>1 DEF Joins
  <2>3. q[k + 1] = r[k + 1] /\ q[k + 1] \in Seq(X)
    BY <2>1
  <2>4. CASE k = 0
    <3>1. f[k + 1] = q[k + 1] /\ g[k + 1] = r[k + 1]
      BY <2>2, <2>4
    <3> QED BY <2>3, <3>1
  <2>5. CASE k # 0
    <3>1. f[k] = g[k] /\ f[k] \in Seq(X)
      BY <1>2, <2>5
    <3>2. k + 1 # 1
      BY <2>5
    <3>3. f[k] \o q[k + 1] \in Seq(X)
      BY <2>3, <3>1, ConcatProperties
    <3>4. f[k + 1] = f[k] \o q[k + 1] /\ g[k + 1] = g[k] \o r[k + 1]
      BY <2>2, <3>2
    <3>5. f[k + 1] = g[k + 1] /\ f[k + 1] \in Seq(X)
      BY <2>3, <3>1, <3>3, <3>4
    <3> QED BY <3>5
  <2> QED BY <2>4, <2>5
<1> HIDE DEF S
<1>3. 0 .. n \subseteq S
    BY <1>1, <1>2, SetInduction
<1>4. \A i \in 1 .. n : i \in S
    BY <1>3
<1> QED BY <1>4 DEF S

\* What FlattenSeq makes of some strings.
LEMMA FlattenIs ==
    ASSUME NEW q, Len(q) \in Nat \ {0}
    PROVE  \E f : Joins(f, q, Len(q)) /\ FlattenSeq(q) = f[Len(q)]
<1> DEFINE f == CHOOSE f : Joins(f, q, Len(q))
<1>1. Joins(f, q, Len(q))
    BY JoinsExist
<1>2. FlattenSeq(q) = f[Len(q)]
    BY DEF FlattenSeq, Joins
<1> QED BY <1>1, <1>2

\* No strings make the empty one.
LEMMA FlattenNone == FlattenSeq(<<>>) = <<>>
BY DEF FlattenSeq

\* One string more is put behind the others.
LEMMA FlattenGrow ==
    ASSUME NEW X, NEW q \in Seq(Seq(X)), NEW w \in Seq(X)
    PROVE  /\ FlattenSeq(q) \in Seq(X)
           /\ FlattenSeq(Append(q, w)) = FlattenSeq(q) \o w
<1> DEFINE r == Append(q, w)
           n == Len(q)
<1>1. /\ n \in Nat /\ Len(r) = n + 1 /\ r[n + 1] = w
      /\ \A i \in 1 .. n : r[i] = q[i] /\ q[i] \in Seq(X)
  <2>1. n \in Nat /\ \A i \in 1 .. n : q[i] \in Seq(X)
    BY ElementOfSeq
  <2> QED BY <2>1, AppendProperties
<1> HIDE DEF r
<1>2. PICK g : Joins(g, r, n + 1) /\ FlattenSeq(r) = g[n + 1]
  <2>1. Len(r) \in Nat \ {0}
    BY <1>1
  <2>2. \E g : Joins(g, r, Len(r)) /\ FlattenSeq(r) = g[Len(r)]
    BY <2>1, FlattenIs
  <2> QED BY <1>1, <2>2, Zenon
<1>3. g[n + 1] = IF n + 1 = 1 THEN w ELSE g[n] \o w
  <2>1. n + 1 \in 1 .. n + 1 /\ (n + 1) - 1 = n
    BY <1>1
  <2>2. g[n + 1] = IF n + 1 = 1 THEN r[n + 1] ELSE g[n] \o r[n + 1]
    BY <1>2, <2>1 DEF Joins
  <2> QED BY <1>1, <2>2
<1>4. CASE n = 0
  <2>1. q = <<>>
    BY <1>4
  <2>2. FlattenSeq(q) = <<>> /\ <<>> \in Seq(X) /\ <<>> \o w = w
    BY <2>1, FlattenNone, ConcatEmptySeq
  <2>3. FlattenSeq(r) = w
    BY <1>2, <1>3, <1>4
  <2> QED BY <2>2, <2>3 DEF r
<1>5. CASE n # 0
  <2>1. PICK f : Joins(f, q, n) /\ FlattenSeq(q) = f[n]
    <3>1. n \in Nat \ {0}
      BY <1>1, <1>5
    <3> QED BY <3>1, FlattenIs
  <2>2. \A i \in 1 .. n : f[i] = g[i] /\ f[i] \in Seq(X)
    <3>1. n + 1 \in Nat /\ n <= n + 1
      BY <1>1
    <3>2. \A i \in 1 .. n : q[i] = r[i] /\ q[i] \in Seq(X)
      BY <1>1
    <3> HIDE DEF n
    <3> QED BY <1>1, <1>2, <2>1, <3>1, <3>2, JoinsAgree
  <2>3. n \in 1 .. n /\ n + 1 # 1
    BY <1>1, <1>5
  <2>4. FlattenSeq(r) = f[n] \o w
    BY <1>2, <1>3, <2>2, <2>3
  <2> QED BY <2>1, <2>2, <2>3, <2>4 DEF r
<1> QED BY <1>4, <1>5

\* A character is put behind two strings, or behind the second of them.
Behind(s, t, ch) == Append(s \o t, ch) = s \o Append(t, ch)

\* The two come to the same.
LEMMA AppendConcat ==
    ASSUME NEW X, NEW s \in Seq(X), NEW t \in Seq(X), NEW ch \in X
    PROVE  Behind(s, t, ch)
<1>1. s \o t \in Seq(X) /\ <<ch>> \in Seq(X)
    BY ConcatProperties
<1>2. Append(s \o t, ch) = (s \o t) \o <<ch>>
    BY <1>1, AppendIsConcat
<1>3. Append(t, ch) = t \o <<ch>>
    BY AppendIsConcat
<1>4. (s \o t) \o <<ch>> = s \o (t \o <<ch>>)
    BY <1>1, ConcatAssociative
<1> QED BY <1>2, <1>3, <1>4 DEF Behind

\* Of three strings either two are put together first.
Regrouped(s, t, u) == s \o (t \o u) = (s \o t) \o u

\* It makes no difference which.
LEMMA Regroup ==
    ASSUME NEW X, NEW s \in Seq(X), NEW t \in Seq(X), NEW u \in Seq(X)
    PROVE  Regrouped(s, t, u)
<1>1. (s \o t) \o u = s \o (t \o u)
    BY ConcatAssociative
<1> QED BY <1>1, Zenon DEF Regrouped

\* The first characters of a string, and the next.
LEMMA NextOf ==
    ASSUME NEW X, NEW v \in Seq(X), NEW k \in 0 .. Len(v) - 1
    PROVE  /\ SubSeq(v, 1, k) \in Seq(X) /\ v[k + 1] \in X
           /\ k + 1 \in 1 .. Len(v)
           /\ SubSeq(v, 1, k + 1) = Append(SubSeq(v, 1, k), v[k + 1])
<1>1. Len(v) \in Nat /\ k + 1 \in 1 .. Len(v) /\ 1 \in 1 .. Len(v)
      /\ (k + 1) - 1 = k
    OBVIOUS
<1>2. v[k + 1] \in X
    BY <1>1, ElementOfSeq
<1>3. SubSeq(v, 1, k) \in Seq(X)
  <2>1. \A i \in 1 .. k : v[i] \in X
    BY <1>1, ElementOfSeq
  <2> QED BY <2>1, SubSeqProperties
<1>4. SubSeq(v, 1, k + 1) = SubSeq(v, 1, (k + 1) - 1) \o <<v[k + 1]>>
  <2>1. k + 1 \in 1 .. Len(v) /\ 1 \in 1 .. Len(v)
    BY <1>1
  <2> QED BY <2>1, SubSeqRecursiveSecond
<1>5. Append(SubSeq(v, 1, k), v[k + 1]) = SubSeq(v, 1, k) \o <<v[k + 1]>>
    BY <1>2, <1>3, AppendIsConcat
<1> QED BY <1>1, <1>2, <1>3, <1>4, <1>5

\* A string without a separator goes on with the last piece.
LEMMA PiecesWord ==
    ASSUME NEW X, NEW s \in Seq(X), NEW sep, NEW p \in Seq(Seq(X)),
           NEW w \in Seq(X), Split(s, sep, p, w),
           NEW v \in Seq(X), \A l \in 1 .. Len(v) : v[l] # sep
    PROVE  Split(s \o v, sep, p, w \o v)
<1> DEFINE to(k) == SubSeq(v, 1, k)
           S == {k \in Nat : k <= Len(v) =>
                    Split(s \o to(k), sep, p, w \o to(k))}
<1>1. 0 \in S
  <2>1. to(0) = <<>>
    BY SubSeqEmpty
  <2>2. s \o <<>> = s /\ w \o <<>> = w
    BY ConcatEmptySeq
  <2> QED BY <2>1, <2>2
<1>2. ASSUME NEW k \in 0 .. Len(v) - 1, k \in S PROVE k + 1 \in S
  <2>1. /\ to(k) \in Seq(X) /\ v[k + 1] \in X /\ k + 1 \in 1 .. Len(v)
        /\ to(k + 1) = Append(to(k), v[k + 1])
    BY NextOf
  <2>2. k \in Nat /\ k <= Len(v)
    OBVIOUS
  <2>3. Split(s \o to(k), sep, p, w \o to(k))
    BY <1>2, <2>2
  <2> DEFINE t == to(k)
             ch == v[k + 1]
  <2> HIDE DEF t, ch
  <2>4. t \in Seq(X) /\ ch \in X /\ ch # sep /\ Split(s \o t, sep, p, w \o t)
    BY <2>1, <2>3 DEF t, ch
  <2>5. s \o t \in Seq(X) /\ w \o t \in Seq(X)
    BY <2>4, ConcatProperties
  <2>6. Split(Append(s \o t, ch), sep, p, Append(w \o t, ch))
    BY <2>4, <2>5, PiecesGrow
  <2>7. Behind(s, t, ch) /\ Behind(w, t, ch)
    BY <2>4, AppendConcat
  <2>8. Split(s \o Append(t, ch), sep, p, w \o Append(t, ch))
    BY <2>6, <2>7, Zenon DEF Behind
  <2>9. to(k + 1) = Append(t, ch)
    BY <2>1 DEF t, ch
  <2> HIDE DEF to
  <2>10. Split(s \o to(k + 1), sep, p, w \o to(k + 1))
    BY <2>8, <2>9, Zenon
  <2> QED BY <2>2, <2>10
<1> HIDE DEF S
<1>3. Len(v) \in S
  <2>1. Len(v) \in Nat /\ Len(v) \in 0 .. Len(v)
    OBVIOUS
  <2>2. 0 .. Len(v) \subseteq S
    BY <1>1, <1>2, <2>1, SetInduction
  <2> QED BY <2>1, <2>2
<1>4. Len(v) \in Nat /\ to(Len(v)) = v
    BY SubSeqFull
<1> HIDE DEF to
<1>5. Split(s \o to(Len(v)), sep, p, w \o to(Len(v)))
    BY <1>3, <1>4 DEF S
<1> QED BY <1>4, <1>5, Zenon

\* The strings of q, each with a separator behind it, put behind one another.
Ended(q, sep) == FlattenSeq([k \in DOMAIN q |-> Append(q[k], sep)])

\* No strings make the empty one.
LEMMA EndedNone == ASSUME NEW sep PROVE Ended(<<>>, sep) = <<>>
<1>1. [k \in DOMAIN <<>> |-> Append(<<>>[k], sep)] = <<>>
    OBVIOUS
<1> QED BY <1>1, FlattenNone DEF Ended

\* One string more is put behind the others, with its separator.
LEMMA EndedGrow ==
    ASSUME NEW X, NEW sep \in X, NEW q \in Seq(Seq(X)), NEW w \in Seq(X)
    PROVE  /\ Ended(q, sep) \in Seq(X)
           /\ Ended(Append(q, w), sep) = Ended(q, sep) \o Append(w, sep)
<1> DEFINE e == [k \in DOMAIN q |-> Append(q[k], sep)]
           r == Append(q, w)
           f == [k \in DOMAIN r |-> Append(r[k], sep)]
<1>1. /\ Len(q) \in Nat /\ DOMAIN q = 1 .. Len(q)
      /\ \A k \in 1 .. Len(q) : q[k] \in Seq(X)
    OBVIOUS
<1>2. /\ DOMAIN r = 1 .. Len(q) + 1 /\ r[Len(q) + 1] = w
      /\ \A k \in 1 .. Len(q) : r[k] = q[k]
    OBVIOUS
<1> HIDE DEF r
<1>3. Append(w, sep) \in Seq(X)
    OBVIOUS
<1>4. e \in Seq(Seq(X)) /\ Len(e) = Len(q)
  <2>1. \A k \in 1 .. Len(q) : Append(q[k], sep) \in Seq(X)
    BY <1>1
  <2> QED BY <1>1, <2>1, IsASeq
<1>5. f = Append(e, Append(w, sep))
  <2> DEFINE g == Append(e, Append(w, sep))
  <2>1. /\ g \in Seq(Seq(X)) /\ Len(g) = Len(q) + 1
        /\ g[Len(q) + 1] = Append(w, sep)
        /\ \A k \in 1 .. Len(q) : g[k] = e[k]
    <3> HIDE DEF e
    <3> QED BY <1>3, <1>4, AppendProperties
  <2>2. \A k \in 1 .. Len(q) : e[k] = Append(q[k], sep)
    BY <1>1
  <2> HIDE DEF g, e
  <2>3. /\ g = [k \in 1 .. Len(q) + 1 |-> g[k]]
    BY <1>1, <2>1
  <2>4. \A k \in 1 .. Len(q) + 1 : g[k] = Append(r[k], sep)
    <3> SUFFICES ASSUME NEW k \in 1 .. Len(q) + 1 PROVE g[k] = Append(r[k], sep)
      OBVIOUS
    <3>1. k \in 1 .. Len(q) \/ k = Len(q) + 1
      BY <1>1
    <3> QED BY <1>2, <2>1, <2>2, <3>1
  <2>5. f = [k \in 1 .. Len(q) + 1 |-> Append(r[k], sep)]
    BY <1>2
  <2> HIDE DEF f
  <2>6. f = g
    BY <2>3, <2>4, <2>5
  <2> QED BY <2>6 DEF f, g, e
<1> HIDE DEF e, f
<1>6. /\ FlattenSeq(e) \in Seq(X)
      /\ FlattenSeq(Append(e, Append(w, sep))) = FlattenSeq(e) \o Append(w, sep)
    BY <1>3, <1>4, FlattenGrow
<1> QED BY <1>5, <1>6 DEF Ended, e, f, r

\* Behind a separator, or at the start, they are pieces of their own.
LEMMA EndedPieces ==
    ASSUME NEW X, NEW s \in Seq(X), NEW sep \in X, NEW p \in Seq(Seq(X)),
           Split(s, sep, p, <<>>), NEW q \in Seq(Seq(X)),
           \A k \in 1 .. Len(q) : \A l \in 1 .. Len(q[k]) : q[k][l] # sep
    PROVE  Split(s \o Ended(q, sep), sep, p \o q, <<>>)
<1> DEFINE to(k) == SubSeq(q, 1, k)
           S == {k \in Nat : k <= Len(q) =>
                    Split(s \o Ended(to(k), sep), sep, p \o to(k), <<>>)}
<1>1. 0 \in S
  <2>1. to(0) = <<>>
    BY SubSeqEmpty
  <2>2. s \o <<>> = s /\ p \o <<>> = p /\ Ended(<<>>, sep) = <<>>
    BY ConcatEmptySeq, EndedNone
  <2> QED BY <2>1, <2>2
<1>2. ASSUME NEW k \in 0 .. Len(q) - 1, k \in S PROVE k + 1 \in S
  <2>1. /\ to(k) \in Seq(Seq(X)) /\ q[k + 1] \in Seq(X)
        /\ k + 1 \in 1 .. Len(q)
        /\ to(k + 1) = Append(to(k), q[k + 1])
    BY NextOf
  <2>2. k \in Nat /\ k <= Len(q)
    OBVIOUS
  <2>3. Split(s \o Ended(to(k), sep), sep, p \o to(k), <<>>)
    BY <1>2, <2>2
  <2> DEFINE t == to(k)
             w == q[k + 1]
             b == s \o Ended(t, sep)
  <2> HIDE DEF t, w
  <2>4. /\ t \in Seq(Seq(X)) /\ w \in Seq(X)
        /\ \A l \in 1 .. Len(w) : w[l] # sep
        /\ Split(b, sep, p \o t, <<>>)
    BY <2>1, <2>3 DEF t, w
  <2>5. /\ Ended(t, sep) \in Seq(X)
        /\ Ended(Append(t, w), sep) = Ended(t, sep) \o Append(w, sep)
    BY <2>4, EndedGrow
  <2>6. b \in Seq(X) /\ p \o t \in Seq(Seq(X)) /\ <<>> \in Seq(X)
    BY <2>4, <2>5, ConcatProperties
  <2>7. s \o Ended(Append(t, w), sep) = Append(b \o w, sep)
    <3>1. s \o (Ended(t, sep) \o Append(w, sep)) = b \o Append(w, sep)
      <4>1. Append(w, sep) \in Seq(X)
        BY <2>4
      <4>2. Regrouped(s, Ended(t, sep), Append(w, sep))
        BY <2>5, <4>1, Regroup
      <4> QED BY <4>2, Zenon DEF Regrouped, b
    <3>2. Behind(b, w, sep)
      <4> HIDE DEF b
      <4> QED BY <2>4, <2>6, AppendConcat
    <3> QED BY <2>5, <3>1, <3>2, Zenon DEF Behind
  <2> HIDE DEF b
  <2>8. Split(b \o w, sep, p \o t, w)
    <3>1. Split(b \o w, sep, p \o t, <<>> \o w)
      BY <2>4, <2>6, PiecesWord
    <3>2. <<>> \o w = w
      BY <2>4, ConcatEmptySeq
    <3> QED BY <3>1, <3>2
  <2>9. Split(Append(b \o w, sep), sep, Append(p \o t, w), <<>>)
    <3>1. b \o w \in Seq(X)
      BY <2>4, <2>6, ConcatProperties
    <3> QED BY <2>4, <2>6, <2>8, <3>1, PiecesGrow
  <2>10. Behind(p, t, w)
    BY <2>4, AppendConcat
  <2>11. Split(s \o Ended(Append(t, w), sep), sep, p \o Append(t, w), <<>>)
    BY <2>7, <2>9, <2>10, Zenon DEF Behind
  <2>12. to(k + 1) = Append(t, w)
    BY <2>1 DEF t, w
  <2> HIDE DEF to
  <2>13. Split(s \o Ended(to(k + 1), sep), sep, p \o to(k + 1), <<>>)
    BY <2>11, <2>12, Zenon
  <2> QED BY <2>2, <2>13
<1> HIDE DEF S
<1>3. Len(q) \in S
  <2>1. Len(q) \in Nat /\ Len(q) \in 0 .. Len(q)
    OBVIOUS
  <2>2. 0 .. Len(q) \subseteq S
    BY <1>1, <1>2, <2>1, SetInduction
  <2> QED BY <2>1, <2>2
<1>4. Len(q) \in Nat /\ to(Len(q)) = q
    BY SubSeqFull
<1> HIDE DEF to
<1>5. Split(s \o Ended(to(Len(q)), sep), sep, p \o to(Len(q)), <<>>)
    BY <1>3, <1>4 DEF S
<1> QED BY <1>4, <1>5, Zenon

-----------------------------------------------------------------------------
(* Stored messages. *)

\* The text of a request to SEND is characters of its line.
LEMMA TextType ==
    ASSUME LineType, TokenInv, doSEND
    PROVE  Rest(Rest(line)) \in Seq(Own(alphabet))
<1> DEFINE X == Own(alphabet)
<1>1. line \in Seq(X) /\ Len(line) \in Nat
    BY DEF LineType
<1> HIDE DEF X
<1>2. PICK h \in Hosts :
          \/ Len(line) = 3 /\ line[1] = "SEND" /\ line[2] = SP /\ line[3] = h
          \/ /\ Len(line) >= 4 /\ line[1] = "SEND" /\ line[2] = SP
             /\ line[3] = h /\ line[4] = SP
    BY LineOfSend
<1>3. h # SP /\ "SEND" # SP
    BY LinesAssumption DEF SP
<1>4. CASE Len(line) = 3
  <2>1. line[1] = "SEND" /\ line[2] = SP /\ line[3] = h
    BY <1>2, <1>4
  <2> DEFINE r == SubSeq(line, 3, Len(line))
  <2>2. Rest(line) = r
    <3>1. 2 \in 1 .. Len(line) /\ \A l \in 1 .. (2 - 1) : line[l] # SP
      BY <1>3, <1>4, <2>1
    <3> QED BY <1>1, <2>1, <3>1, WordRestAt
  <2>3. r = <<h>> /\ h \in X
    <3>1. 3 \in 1 .. Len(line)
      BY <1>4
    <3>2. SubSeq(line, 3, 3) = <<line[3]>> /\ line[3] \in X
      BY <1>1, <3>1, SingleChar, ElementOfSeq
    <3> QED BY <1>4, <2>1, <3>2
  <2>4. <<h>> \in Seq(X) /\ \A l \in 1 .. Len(<<h>>) : <<h>>[l] # SP
    BY <1>3, <2>3
  <2>5. Rest(<<h>>) = <<h>>
    BY <2>4, WordRestNone
  <2> HIDE DEF r
  <2> QED BY <2>2, <2>3, <2>4, <2>5 DEF X
<1>5. CASE Len(line) >= 4
  <2>1. line[1] = "SEND" /\ line[2] = SP /\ line[3] = h /\ line[4] = SP
    BY <1>2, <1>5
  <2>2. Rest(Rest(line)) = SubSeq(line, 5, Len(line))
    BY <1>1, <1>3, <1>5, <2>1, TwoWords
  <2>3. SubSeq(line, 5, Len(line)) \in Seq(X)
    BY <1>1, <1>5
  <2> QED BY <2>2, <2>3 DEF X
<1> QED BY <1>2, <1>4, <1>5

\* A message from this host with the text t, which has no newline.
IsMessage(m, t) ==
    /\ m = <<"NEWMESSAGE", SP, me, SP>> \o t
    /\ \A l \in 1 .. Len(t) : t[l] # "\n"

\* The characters of messages.
Kept(a) == Own(a) \cup {"NEWMESSAGE", SP, me, "\n", "BACKLOGGED_MESSAGES"}

\* What is stored is such messages.
StoredInv ==
    /\ stored \in Seq(Seq(Kept(alphabet)))
    /\ \A k \in 1 .. Len(stored) :
          \E t \in Seq(Own(alphabet)) : IsMessage(stored[k], t)

\* Such a message has no newline at all.
LEMMA MessageType ==
    ASSUME NEW a, NEW t \in Seq(Own(a)), NEW m, IsMessage(m, t)
    PROVE  m \in Seq(Kept(a)) /\ \A l \in 1 .. Len(m) : m[l] # "\n"
<1> DEFINE X == Kept(a)
           f == <<"NEWMESSAGE", SP, me, SP>>
<1>1. f \in Seq(X) /\ Len(f) = 4 /\ \A l \in 1 .. 4 : f[l] # "\n"
  <2>1. /\ Len(f) = 4 /\ f[1] = "NEWMESSAGE" /\ f[2] = SP /\ f[3] = me
        /\ f[4] = SP
    OBVIOUS
  <2>2. f \in Seq(X)
    BY DEF Kept
  <2>3. me # "\n" /\ SP # "\n" /\ "NEWMESSAGE" # "\n"
    BY LinesAssumption DEF SP
  <2> HIDE DEF f
  <2>4. \A l \in 1 .. 4 : l \in {1, 2, 3, 4}
    OBVIOUS
  <2> QED BY <2>1, <2>2, <2>3, <2>4
<1>2. t \in Seq(X) /\ Len(t) \in Nat
  <2>1. Own(a) \subseteq X
    BY DEF Kept
  <2> HIDE DEF X
  <2> QED BY <2>1, SeqMonotonic
<1>3. m = f \o t /\ \A l \in 1 .. Len(t) : t[l] # "\n"
    BY DEF IsMessage
<1> HIDE DEF X, f
<1>4. /\ m \in Seq(X) /\ Len(m) = 4 + Len(t)
      /\ \A l \in 1 .. 4 + Len(t) : m[l] = IF l <= 4 THEN f[l] ELSE t[l - 4]
  <2>1. /\ f \o t \in Seq(X) /\ Len(f \o t) = Len(f) + Len(t)
        /\ \A l \in 1 .. Len(f) + Len(t) :
              (f \o t)[l] = IF l <= Len(f) THEN f[l] ELSE t[l - Len(f)]
    BY <1>1, <1>2, ConcatProperties
  <2> QED BY <1>1, <1>3, <2>1
<1>5. ASSUME NEW l \in 1 .. Len(m) PROVE m[l] # "\n"
  <2>1. CASE l <= 4
    BY <1>1, <1>2, <1>4, <2>1
  <2>2. CASE ~(l <= 4)
    <3>1. l - 4 \in 1 .. Len(t)
      BY <1>2, <1>4, <2>2
    <3> QED BY <1>3, <1>4, <2>2, <3>1
  <2> QED BY <2>1, <2>2
<1> QED BY <1>4, <1>5 DEF X

\* Sending stores one message more.
LEMMA SendStores ==
    ASSUME LineType, TokenInv, StoredInv, Send PROVE StoredInv'
<1> DEFINE O == Own(alphabet)
           m == input_msg(me, line)
<1>1. /\ stored' = Append(stored, m) /\ alphabet' = alphabet
      /\ doSEND /\ alphabet \in Alphabets
    BY DEF Send, LineType
<1>2. PICK t \in Seq(O) : IsMessage(m, t)
  <2> DEFINE t == Rest(Rest(line))
  <2>1. t \in Seq(O)
    BY <1>1, TextType
  <2>2. "\n" \notin O
    BY <1>1, NoNewlineSent DEF Own, Letters
  <2>3. \A l \in 1 .. Len(t) : t[l] # "\n"
    <3> HIDE DEF t, O
    <3> QED BY <2>1, <2>2, ElementOfSeq
  <2>4. IsMessage(m, t)
    BY <2>3 DEF IsMessage, input_msg
  <2> QED BY <2>1, <2>4
<1>3. m \in Seq(Kept(alphabet))
    BY <1>2, MessageType
<1>4. stored \in Seq(Seq(Kept(alphabet)))
    BY DEF StoredInv
<1> HIDE DEF m
<1>5. /\ stored' \in Seq(Seq(Kept(alphabet))) /\ Len(stored) \in Nat
      /\ Len(stored') = Len(stored) + 1 /\ stored'[Len(stored) + 1] = m
      /\ \A k \in 1 .. Len(stored) : stored'[k] = stored[k]
    BY <1>1, <1>3, <1>4, AppendProperties
<1>6. \A k \in 1 .. Len(stored') : \E u \in Seq(O) : IsMessage(stored'[k], u)
  <2> SUFFICES ASSUME NEW k \in 1 .. Len(stored')
               PROVE  \E u \in Seq(O) : IsMessage(stored'[k], u)
    OBVIOUS
  <2>1. k \in 1 .. Len(stored) \/ k = Len(stored) + 1
    BY <1>5
  <2>2. CASE k \in 1 .. Len(stored)
    <3>1. stored'[k] = stored[k]
      BY <1>5, <2>2
    <3>2. \E u \in Seq(O) : IsMessage(stored[k], u)
      BY <2>2 DEF StoredInv
    <3> QED BY <3>1, <3>2
  <2>3. CASE k = Len(stored) + 1
    BY <1>2, <1>5, <2>3
  <2> QED BY <2>1, <2>2, <2>3
<1> QED BY <1>1, <1>5, <1>6 DEF StoredInv

\* Behind a first word of one character and a space is the rest.
LEMMA RestBehind ==
    ASSUME NEW X, NEW e \in Seq(X), NEW w, w # SP
    PROVE  Rest(<<w, SP>> \o e) = e
<1> DEFINE Y == X \cup {w, SP}
           f == <<w, SP>>
           b == f \o e
<1>1. f \in Seq(Y) /\ e \in Seq(Y) /\ Len(f) = 2 /\ f[1] = w /\ f[2] = SP
    OBVIOUS
<1>2. Len(e) \in Nat
    OBVIOUS
<1> HIDE DEF f, Y
<1>3. /\ b \in Seq(Y) /\ Len(b) = Len(e) + 2
      /\ \A l \in 1 .. Len(e) + 2 : b[l] = IF l <= 2 THEN f[l] ELSE e[l - 2]
  <2>1. /\ f \o e \in Seq(Y) /\ Len(f \o e) = Len(f) + Len(e)
        /\ \A l \in 1 .. Len(f) + Len(e) :
              (f \o e)[l] = IF l <= Len(f) THEN f[l] ELSE e[l - Len(f)]
    BY <1>1, ConcatProperties
  <2> QED BY <1>1, <1>2, <2>1
<1> HIDE DEF b
<1>4. Rest(b) = SubSeq(b, 3, Len(b))
  <2>1. 2 \in 1 .. Len(b) /\ b[2] = SP /\ \A l \in 1 .. (2 - 1) : b[l] # SP
    BY <1>1, <1>2, <1>3
  <2> QED BY <1>3, <2>1, WordRestAt
<1> DEFINE u == SubSeq(b, 3, Len(b))
<1>5. /\ u \in Seq(Y) /\ Len(u) = Len(b) + 1 - 3
      /\ \A l \in 1 .. Len(u) : u[l] = b[3 + l - 1]
    BY <1>2, <1>3, LeftFrom
<1> HIDE DEF u
<1>6. \A l \in 1 .. Len(u) : u[l] = e[l]
  <2> SUFFICES ASSUME NEW l \in 1 .. Len(u) PROVE u[l] = e[l]
    OBVIOUS
  <2>1. /\ l + 2 \in 1 .. Len(e) + 2 /\ ~(l + 2 <= 2) /\ (l + 2) - 2 = l
        /\ 3 + l - 1 = l + 2
    BY <1>2, <1>3, <1>5
  <2> QED BY <1>3, <1>5, <2>1
<1>7. u = e
    BY <1>1, <1>2, <1>3, <1>5, <1>6, SeqEqual
<1> QED BY <1>4, <1>7 DEF b, f, u

\* A stored message is shown as it would have been, and a newline.
LEMMA ShownLater ==
    ASSUME NEW X, NEW t \in Seq(X), NEW m, IsMessage(m, t)
    PROVE  parseNEWMESSAGE(Append(m, "\n")) =
               [parseNEWMESSAGE(m) EXCEPT !.text = Append(@, "\n")]
<1> DEFINE Y == X \cup {"NEWMESSAGE", SP, me, "\n"}
           f == <<"NEWMESSAGE", SP, me, SP>>
<1>1. f \in Seq(Y) /\ t \in Seq(Y) /\ "\n" \in Y /\ me # SP
    BY LinesAssumption
<1>2. Append(t, "\n") \in Seq(Y)
    BY <1>1
<1> HIDE DEF Y
<1>3. m = f \o t /\ Behind(f, t, "\n")
  <2>1. m = f \o t
    BY DEF IsMessage
  <2> HIDE DEF f
  <2> QED BY <1>1, <2>1, AppendConcat
<1>4. parseNEWMESSAGE(f \o t) = [from |-> <<me>>, text |-> t]
    BY <1>1, ShownText
<1>5. parseNEWMESSAGE(f \o Append(t, "\n")) =
          [from |-> <<me>>, text |-> Append(t, "\n")]
    BY <1>1, <1>2, ShownText
<1>6. Append(m, "\n") = f \o Append(t, "\n")
    BY <1>3, Zenon DEF Behind
<1> HIDE DEF f
<1>7. /\ parseNEWMESSAGE(m) = [from |-> <<me>>, text |-> t]
      /\ parseNEWMESSAGE(Append(m, "\n")) =
             [from |-> <<me>>, text |-> Append(t, "\n")]
    BY <1>3, <1>4, <1>5, <1>6, Zenon
<1> QED BY <1>7

\* The lines of a frame of stored messages are those messages.
LEMMA BacklogLines ==
    ASSUME NEW X, NEW q \in Seq(Seq(X)), "\n" \in X,
           \A k \in 1 .. Len(q) : \A l \in 1 .. Len(q[k]) : q[k][l] # "\n"
    PROVE  TerminatedLines(Rest(Backlog(q))) =
               [k \in DOMAIN q |-> Append(q[k], "\n")]
<1> DEFINE e == Ended(q, "\n")
<1>1. e \in Seq(X)
  <2>1. <<>> \in Seq(X)
    OBVIOUS
  <2> QED BY <2>1, EndedGrow
<1> HIDE DEF e
<1>2. Rest(Backlog(q)) = e
  <2>1. Backlog(q) = <<"BACKLOGGED_MESSAGES", SP>> \o e
    BY DEF Backlog, Ended, e
  <2>2. "BACKLOGGED_MESSAGES" # SP
    BY DEF SP
  <2> QED BY <1>1, <2>1, <2>2, RestBehind
<1>3. Split(e, "\n", q, <<>>)
  <2>1. Split(<<>>, "\n", <<>>, <<>>) /\ <<>> \in Seq(X) /\ <<>> \in Seq(Seq(X))
    BY PiecesNone DEF Split
  <2>2. Split(<<>> \o e, "\n", <<>> \o q, <<>>)
    BY <2>1, EndedPieces DEF e
  <2>3. <<>> \o e = e /\ <<>> \o q = q
    BY <1>1, ConcatEmptySeq
  <2> QED BY <2>2, <2>3, Zenon
<1>4. Front(Pieces(e, "\n")) = q
  <2>1. <<>> \in Seq(X)
    OBVIOUS
  <2> QED BY <1>3, <2>1, FrontOf DEF Split
<1> QED BY <1>2, <1>4 DEF TerminatedLines

\* For every text a message that was stored is shown like one that was relayed.
THEOREM StoredIsShown == Spec => []BacklogAsRelayed
<1> DEFINE I == LineType /\ TokenInv /\ StoredInv
<1>1. Init => I
  <2>1. Init => TokenInv
    BY DEF Init, TokenInv
  <2>2. Init => StoredInv
    BY DEF Init, StoredInv
  <2> QED BY <2>1, <2>2, InitType
<1>2. I /\ Send => I'
  <2>1. I /\ Send => TokenInv'
    BY DEF Send, TokenInv
  <2> QED BY <2>1, SendType, SendStores
<1>3. I /\ (\E ch \in alphabet.chars : Scan(ch)) => I'
  <2>1. StoredInv /\ (\E ch \in alphabet.chars : Scan(ch)) => StoredInv'
    BY DEF Scan, StoredInv
  <2> QED BY <2>1, ScanType, ScanTokens
<1>4. I /\ UNCHANGED lineVars => I'
    BY DEF LineType, TokenInv, StoredInv, lineVars, scanVars
<1>5. I /\ [Next]_lineVars => I'
    BY <1>2, <1>3, <1>4 DEF Next
<1>6. I => BacklogAsRelayed
  <2> SUFFICES ASSUME StoredInv PROVE BacklogAsRelayed
    OBVIOUS
  <2> DEFINE X == Kept(alphabet)
  <2>1. stored \in Seq(Seq(X)) /\ "\n" \in X
    BY DEF StoredInv, Kept
  <2>2. \A k \in 1 .. Len(stored) :
            /\ \A l \in 1 .. Len(stored[k]) : stored[k][l] # "\n"
            /\ parseNEWMESSAGE(Append(stored[k], "\n")) =
                   [parseNEWMESSAGE(stored[k]) EXCEPT !.text = Append(@, "\n")]
    <3> SUFFICES ASSUME NEW k \in 1 .. Len(stored)
                 PROVE  /\ \A l \in 1 .. Len(stored[k]) : stored[k][l] # "\n"
                        /\ parseNEWMESSAGE(Append(stored[k], "\n")) =
                               [parseNEWMESSAGE(stored[k]) EXCEPT
                                   !.text = Append(@, "\n")]
      OBVIOUS
    <3>1. PICK t \in Seq(Own(alphabet)) : IsMessage(stored[k], t)
      BY DEF StoredInv
    <3> QED BY <3>1, MessageType, ShownLater
  <2>3. TerminatedLines(Rest(Backlog(stored))) =
            [k \in DOMAIN stored |-> Append(stored[k], "\n")]
    <3> HIDE DEF X
    <3> QED BY <2>1, <2>2, BacklogLines
  <2>4. DOMAIN stored = 1 .. Len(stored)
    BY <2>1
  <2>5. parseBACKLOGGEDMSG(Backlog(stored)) =
            [k \in DOMAIN stored |-> parseNEWMESSAGE(Append(stored[k], "\n"))]
    BY <2>3 DEF parseBACKLOGGEDMSG
  <2> QED BY <2>2, <2>4, <2>5 DEF BacklogAsRelayed
<1> QED BY <1>1, <1>5, <1>6, PTL DEF Spec

-----------------------------------------------------------------------------
(* The list of clients. *)

\* The first place where t is found in s.
LEMMA FindLeast ==
    ASSUME NEW s, NEW t, Len(s) \in Nat, Len(t) \in Nat,
           NEW k \in 0 .. Len(s) - Len(t),
           SubSeq(s, k + 1, k + Len(t)) = t,
           \A i \in 0 .. k - 1 : SubSeq(s, i + 1, i + Len(t)) # t
    PROVE  find(s, t) = k
<1> DEFINE at == {i \in 0 .. Len(s) - Len(t) :
                     SubSeq(s, i + 1, i + Len(t)) = t}
<1>1. k \in at /\ at \subseteq Int
    OBVIOUS
<1>2. \A i \in at : k <= i
  <2> SUFFICES ASSUME NEW i \in at, ~(k <= i) PROVE FALSE
    OBVIOUS
  <2>1. i \in 0 .. k - 1
    OBVIOUS
  <2> QED BY <2>1
<1> HIDE DEF at
<1>3. Min(at) = k
  <2>1. ASSUME NEW x \in at, \A y \in at : x <= y PROVE x = k
    <3>1. x <= k /\ k <= x /\ x \in Int
      BY <1>1, <1>2, <2>1
    <3> QED BY <3>1
  <2> QED BY <1>1, <1>2, <2>1 DEF Min
<1> QED BY <1>1, <1>3 DEF find, at

\* A host may be called LIENTIP, but a space is in front of it.
Clear(s) == \A j \in 1 .. Len(s) : s[j] = "LIENTIP" => j > 1 /\ s[j - 1] = SP

\* Two such strings make one.
LEMMA ClearConcat ==
    ASSUME NEW X, NEW s \in Seq(X), NEW t \in Seq(X), Clear(s), Clear(t)
    PROVE  Clear(s \o t)
<1> DEFINE u == s \o t
<1>1. /\ Len(u) = Len(s) + Len(t) /\ Len(s) \in Nat /\ Len(t) \in Nat
      /\ \A l \in 1 .. Len(s) + Len(t) :
            u[l] = IF l <= Len(s) THEN s[l] ELSE t[l - Len(s)]
    BY ConcatProperties
<1> HIDE DEF u
<1>2. ASSUME NEW j \in 1 .. Len(u), u[j] = "LIENTIP"
      PROVE  j > 1 /\ u[j - 1] = SP
  <2>1. CASE j <= Len(s)
    <3>1. j \in 1 .. Len(s) /\ s[j] = "LIENTIP"
      BY <1>1, <1>2, <2>1
    <3>2. j > 1 /\ s[j - 1] = SP
      BY <3>1 DEF Clear
    <3>3. j - 1 \in 1 .. Len(s) + Len(t) /\ j - 1 <= Len(s)
      BY <1>1, <2>1, <3>2
    <3> QED BY <1>1, <3>2, <3>3
  <2>2. CASE ~(j <= Len(s))
    <3> DEFINE i == j - Len(s)
    <3>1. i \in 1 .. Len(t) /\ t[i] = "LIENTIP"
      BY <1>1, <1>2, <2>2
    <3>2. i > 1 /\ t[i - 1] = SP
      BY <3>1 DEF Clear
    <3>3. /\ j - 1 \in 1 .. Len(s) + Len(t) /\ ~(j - 1 <= Len(s))
          /\ (j - 1) - Len(s) = i - 1 /\ j > 1
      BY <1>1, <2>2, <3>2
    <3> HIDE DEF i
    <3> QED BY <1>1, <3>2, <3>3
  <2> QED BY <2>1, <2>2
<1> QED BY <1>2 DEF Clear, u

\* So are such strings with newlines behind them.
LEMMA ClearEnded ==
    ASSUME NEW X, "\n" \in X, NEW q \in Seq(Seq(X)),
           \A k \in 1 .. Len(q) : Clear(q[k])
    PROVE  Clear(Ended(q, "\n"))
<1> DEFINE to(k) == SubSeq(q, 1, k)
           S == {k \in Nat : k <= Len(q) => Clear(Ended(to(k), "\n"))}
<1>1. 0 \in S
  <2>1. to(0) = <<>>
    BY SubSeqEmpty
  <2>2. Clear(Ended(<<>>, "\n"))
    BY EndedNone DEF Clear
  <2> QED BY <2>1, <2>2
<1>2. ASSUME NEW k \in 0 .. Len(q) - 1, k \in S PROVE k + 1 \in S
  <2> DEFINE w == q[k + 1]
  <2>1. /\ to(k) \in Seq(Seq(X)) /\ w \in Seq(X) /\ k + 1 \in 1 .. Len(q)
        /\ to(k + 1) = Append(to(k), w)
    BY NextOf
  <2>2. k \in Nat /\ k <= Len(q)
    OBVIOUS
  <2>3. Clear(Ended(to(k), "\n")) /\ Clear(w)
    BY <1>2, <2>1, <2>2
  <2> HIDE DEF to, w
  <2>4. /\ Ended(to(k), "\n") \in Seq(X)
        /\ Ended(to(k + 1), "\n") = Ended(to(k), "\n") \o Append(w, "\n")
    BY <2>1, EndedGrow
  <2>5. Append(w, "\n") = w \o <<"\n">> /\ <<"\n">> \in Seq(X)
        /\ Append(w, "\n") \in Seq(X)
    BY <2>1, AppendIsConcat
  <2>6. Clear(<<"\n">>)
    <3>1. Len(<<"\n">>) = 1 /\ <<"\n">>[1] = "\n"
      OBVIOUS
    <3> QED BY <3>1 DEF Clear
  <2>7. Clear(Append(w, "\n"))
    <3>1. Clear(w \o <<"\n">>)
      BY <2>1, <2>3, <2>5, <2>6, ClearConcat
    <3> QED BY <2>5, <3>1, Zenon
  <2>8. Clear(Ended(to(k), "\n") \o Append(w, "\n"))
    BY <2>3, <2>4, <2>5, <2>7, ClearConcat
  <2>9. Clear(Ended(to(k + 1), "\n"))
    BY <2>4, <2>8, Zenon
  <2> QED BY <2>2, <2>9
<1> HIDE DEF S
<1>3. Len(q) \in S
  <2>1. Len(q) \in Nat /\ Len(q) \in 0 .. Len(q)
    OBVIOUS
  <2>2. 0 .. Len(q) \subseteq S
    BY <1>1, <1>2, <2>1, SetInduction
  <2> QED BY <2>1, <2>2
<1>4. Len(q) \in Nat /\ to(Len(q)) = q
    BY SubSeqFull
<1> HIDE DEF to
<1>5. Clear(Ended(to(Len(q)), "\n"))
    BY <1>3, <1>4 DEF S
<1> QED BY <1>4, <1>5, Zenon

\* The last of some strings with separators ends with one.
LEMMA EndedLast ==
    ASSUME NEW X, NEW sep \in X, NEW q \in Seq(Seq(X)), q # <<>>
    PROVE  \E m \in Seq(X) : Ended(q, sep) = Append(m, sep)
<1>1. PICK p \in Seq(Seq(X)), w \in Seq(X) : q = Append(p, w)
    BY SequenceEmptyOrAppend
<1>2. /\ Ended(p, sep) \in Seq(X)
      /\ Ended(Append(p, w), sep) = Ended(p, sep) \o Append(w, sep)
    BY EndedGrow
<1>3. Behind(Ended(p, sep), w, sep)
    BY <1>2, AppendConcat
<1>4. Ended(p, sep) \o w \in Seq(X)
    BY <1>2, ConcatProperties
<1>5. Ended(q, sep) = Append(Ended(p, sep) \o w, sep)
    BY <1>1, <1>2, <1>3, Zenon DEF Behind
<1> QED BY <1>4, <1>5

\* The words of a line of the list.
Entry(h) == <<"id", SP, "name", SP, h, SP, "port">>

\* It is such a string, and the line is it with a newline.
LEMMA EntryIsClear ==
    ASSUME NEW h PROVE Clear(Entry(h)) /\ Append(Entry(h), "\n") =
        <<"id", SP, "name", SP, h, SP, "port", "\n">>
<1> DEFINE e == Entry(h)
           X == {"id", SP, "name", h, "port", "\n"}
           f == <<"id", SP, "name", SP, h, SP, "port", "\n">>
<1>1. /\ e \in Seq(X) /\ Len(e) = 7 /\ "\n" \in X
      /\ e[1] = "id" /\ e[2] = SP /\ e[3] = "name" /\ e[4] = SP /\ e[5] = h
      /\ e[6] = SP /\ e[7] = "port"
    BY DEF Entry
<1>2. /\ f \in Seq(X) /\ Len(f) = 8
      /\ f[1] = "id" /\ f[2] = SP /\ f[3] = "name" /\ f[4] = SP /\ f[5] = h
      /\ f[6] = SP /\ f[7] = "port" /\ f[8] = "\n"
    OBVIOUS
<1> HIDE DEF e, f, X
<1>3. Clear(e)
  <2>1. \A j \in 1 .. 7 : j \in {1, 2, 3, 4, 5, 6, 7}
    OBVIOUS
  <2>2. SP # "LIENTIP"
    BY DEF SP
  <2>3. \A j \in {1, 2, 3, 4, 6, 7} : e[j] # "LIENTIP"
    BY <1>1, <2>2
  <2>4. ASSUME NEW j \in 1 .. 7, e[j] = "LIENTIP" PROVE j > 1 /\ e[j - 1] = SP
    <3>1. j = 5
      BY <2>1, <2>3, <2>4
    <3> QED BY <1>1, <3>1
  <2> QED BY <1>1, <2>4 DEF Clear
<1>4. Append(e, "\n") = f
  <2> DEFINE g == Append(e, "\n")
  <2>1. /\ g \in Seq(X) /\ Len(g) = 8 /\ g[8] = "\n"
        /\ \A i \in 1 .. 7 : g[i] = e[i]
    <3>1. /\ g \in Seq(X) /\ Len(g) = Len(e) + 1 /\ g[Len(e) + 1] = "\n"
          /\ \A i \in 1 .. Len(e) : g[i] = e[i]
      <4>1. e \in Seq(X) /\ "\n" \in X
        BY <1>1
      <4> QED BY <4>1, AppendProperties
    <3> QED BY <1>1, <3>1
  <2> HIDE DEF g
  <2>2. \A i \in 1 .. 8 : g[i] = f[i]
    <3>1. \A i \in 1 .. 8 : i \in {1, 2, 3, 4, 5, 6, 7, 8}
      OBVIOUS
    <3>2. \A i \in {1, 2, 3, 4, 5, 6, 7} : g[i] = f[i]
      BY <1>1, <1>2, <2>1
    <3> QED BY <1>2, <2>1, <3>1, <3>2
  <2>3. g = f
    BY <1>2, <2>1, <2>2, SeqEqual
  <2> QED BY <2>3 DEF g
<1> QED BY <1>3, <1>4 DEF e, f

\* The characters of a list.
Listed == Hosts \cup {"id", SP, "name", "port", "\n", "NEWLIST", "C", "LIENTIP"}

\* The list ends with a newline and has nothing like CLIENTIP in it; the
\* addresses each have a space behind them.
LEMMA ListParts ==
    ASSUME NEW ips \in Seq(Hosts)
    PROVE  /\ List(ips) \in Seq(Listed) /\ Clear(List(ips))
           /\ ips # <<>> =>
                 \E m \in Seq(Listed) : List(ips) = Append(m, "\n")
           /\ getOnlineIpAddresses(ips) =
                 Ended([k \in DOMAIN ips |-> <<ips[k]>>], SP)
<1> DEFINE q == [k \in DOMAIN ips |-> Entry(ips[k])]
           r == [k \in DOMAIN ips |-> <<ips[k]>>]
<1>1. /\ Len(ips) \in Nat /\ DOMAIN ips = 1 .. Len(ips)
      /\ \A k \in 1 .. Len(ips) : ips[k] \in Hosts
    BY ElementOfSeq
<1>2. q \in Seq(Seq(Listed)) /\ Len(q) = Len(ips)
      /\ \A k \in 1 .. Len(q) : q[k] = Entry(ips[k])
  <2>1. \A k \in 1 .. Len(ips) : Entry(ips[k]) \in Seq(Listed)
    <3> SUFFICES ASSUME NEW k \in 1 .. Len(ips)
                 PROVE  Entry(ips[k]) \in Seq(Listed)
      OBVIOUS
    <3>1. ips[k] \in Listed
      BY <1>1 DEF Listed
    <3> QED BY <3>1 DEF Entry, Listed
  <2> QED BY <1>1, <2>1, IsASeq
<1>3. List(ips) = Ended(q, "\n")
  <2>1. [k \in DOMAIN ips |-> <<"id", SP, "name", SP, ips[k], SP, "port", "\n">>]
            = [k \in DOMAIN q |-> Append(q[k], "\n")]
    BY EntryIsClear
  <2> HIDE DEF q
  <2> QED BY <2>1 DEF List, Ended
<1> HIDE DEF q
<1>4. "\n" \in Listed /\ <<>> \in Seq(Listed)
    BY DEF Listed
<1>5. List(ips) \in Seq(Listed)
    BY <1>2, <1>3, <1>4, EndedGrow
<1>6. Clear(List(ips))
    BY <1>2, <1>3, <1>4, EntryIsClear, ClearEnded
<1>7. ips # <<>> => \E m \in Seq(Listed) : List(ips) = Append(m, "\n")
  <2> SUFFICES ASSUME ips # <<>>
               PROVE  \E m \in Seq(Listed) : List(ips) = Append(m, "\n")
    OBVIOUS
  <2>1. q # <<>>
    BY <1>1, <1>2
  <2> QED BY <1>2, <1>3, <1>4, <2>1, EndedLast
<1>8. getOnlineIpAddresses(ips) = Ended(r, SP)
  <2>1. [k \in DOMAIN ips |-> <<ips[k], SP>>] = [k \in DOMAIN r |-> Append(r[k], SP)]
    OBVIOUS
  <2> HIDE DEF r
  <2> QED BY <2>1 DEF getOnlineIpAddresses, Ended
<1> QED BY <1>5, <1>6, <1>7, <1>8

\* Where what is in the frame with the list, CLIENTIP and the addresses.
Framed(Y, u, a, b) ==
    /\ b \in Seq(Y) /\ Len(b) = Len(u) + 5 + Len(a)
    /\ b[1] = "NEWLIST" /\ b[2] = SP
    /\ \A l \in 1 .. Len(u) : b[l + 2] = u[l]
    /\ b[Len(u) + 3] = "C" /\ b[Len(u) + 4] = "LIENTIP" /\ b[Len(u) + 5] = SP
    /\ \A l \in 1 .. Len(a) : b[Len(u) + 5 + l] = a[l]

\* That is where they are.
LEMMA ListFrame ==
    ASSUME NEW X, NEW u \in Seq(X), NEW a \in Seq(X), NEW b,
           b = <<"NEWLIST", SP>> \o u \o CLIENTIP \o a
    PROVE  \E Y : X \subseteq Y /\ Framed(Y, u, a, b)
<1> DEFINE Y == X \cup {"NEWLIST", SP, "C", "LIENTIP"}
           f == <<"NEWLIST", SP>>
           c == CLIENTIP
           g == f \o u
           h == g \o c
<1>1. /\ f \in Seq(Y) /\ c \in Seq(Y) /\ u \in Seq(Y) /\ a \in Seq(Y)
      /\ Len(f) = 2 /\ f[1] = "NEWLIST" /\ f[2] = SP
      /\ Len(c) = 3 /\ c[1] = "C" /\ c[2] = "LIENTIP" /\ c[3] = SP
    BY DEF CLIENTIP
<1>2. Len(u) \in Nat /\ Len(a) \in Nat /\ X \subseteq Y /\ b = h \o a
    OBVIOUS
<1> HIDE DEF f, c, Y
<1>3. /\ g \in Seq(Y) /\ Len(g) = Len(u) + 2
      /\ \A l \in 1 .. Len(u) + 2 : g[l] = IF l <= 2 THEN f[l] ELSE u[l - 2]
  <2>1. /\ f \o u \in Seq(Y) /\ Len(f \o u) = Len(f) + Len(u)
        /\ \A l \in 1 .. Len(f) + Len(u) :
              (f \o u)[l] = IF l <= Len(f) THEN f[l] ELSE u[l - Len(f)]
    BY <1>1, ConcatProperties
  <2> QED BY <1>1, <1>2, <2>1
<1> HIDE DEF g
<1>4. /\ h \in Seq(Y) /\ Len(h) = Len(u) + 5
      /\ \A l \in 1 .. Len(u) + 5 :
            h[l] = IF l <= Len(u) + 2 THEN g[l] ELSE c[l - (Len(u) + 2)]
  <2>1. /\ g \o c \in Seq(Y) /\ Len(g \o c) = Len(g) + Len(c)
        /\ \A l \in 1 .. Len(g) + Len(c) :
              (g \o c)[l] = IF l <= Len(g) THEN g[l] ELSE c[l - Len(g)]
    BY <1>1, <1>3, ConcatProperties
  <2> QED BY <1>1, <1>2, <1>3, <2>1
<1> HIDE DEF h
<1>5. /\ b \in Seq(Y) /\ Len(b) = Len(u) + 5 + Len(a)
      /\ \A l \in 1 .. Len(u) + 5 + Len(a) :
            b[l] = IF l <= Len(u) + 5 THEN h[l] ELSE a[l - (Len(u) + 5)]
  <2>1. /\ h \o a \in Seq(Y) /\ Len(h \o a) = Len(h) + Len(a)
        /\ \A l \in 1 .. Len(h) + Len(a) :
              (h \o a)[l] = IF l <= Len(h) THEN h[l] ELSE a[l - Len(h)]
    <3>1. h \in Seq(Y) /\ a \in Seq(Y)
      BY <1>1, <1>4
    <3> QED BY <3>1, ConcatProperties
  <2> QED BY <1>2, <1>4, <2>1
<1>6. b[1] = "NEWLIST" /\ b[2] = SP
    BY <1>1, <1>2, <1>3, <1>4, <1>5
<1>7. ASSUME NEW l \in 1 .. Len(u) PROVE b[l + 2] = u[l]
  <2>1. /\ l + 2 \in 1 .. Len(u) + 2 /\ ~(l + 2 <= 2) /\ (l + 2) - 2 = l
        /\ l + 2 \in 1 .. Len(u) + 5 /\ l + 2 <= Len(u) + 5
        /\ l + 2 \in 1 .. Len(u) + 5 + Len(a) /\ l + 2 <= Len(u) + 2
    BY <1>2
  <2> QED BY <1>3, <1>4, <1>5, <2>1
<1>8. ASSUME NEW l \in 1 .. 3 PROVE b[Len(u) + 2 + l] = c[l]
  <2> DEFINE i == Len(u) + 2 + l
  <2>1. /\ i \in 1 .. Len(u) + 5 + Len(a) /\ i <= Len(u) + 5
        /\ i \in 1 .. Len(u) + 5 /\ ~(i <= Len(u) + 2)
        /\ i - (Len(u) + 2) = l
    BY <1>2
  <2> HIDE DEF i
  <2>2. b[i] = c[l]
    BY <1>4, <1>5, <2>1
  <2> QED BY <2>2 DEF i
<1>9. b[Len(u) + 3] = "C" /\ b[Len(u) + 4] = "LIENTIP" /\ b[Len(u) + 5] = SP
  <2>1. /\ Len(u) + 2 + 1 = Len(u) + 3 /\ Len(u) + 2 + 2 = Len(u) + 4
        /\ Len(u) + 2 + 3 = Len(u) + 5
    BY <1>2
  <2>2. /\ b[Len(u) + 2 + 1] = c[1] /\ b[Len(u) + 2 + 2] = c[2]
        /\ b[Len(u) + 2 + 3] = c[3]
    <3>1. 1 \in 1 .. 3 /\ 2 \in 1 .. 3 /\ 3 \in 1 .. 3
      OBVIOUS
    <3> QED BY <1>8, <3>1, Zenon
  <2> QED BY <1>1, <2>1, <2>2
<1>10. ASSUME NEW l \in 1 .. Len(a) PROVE b[Len(u) + 5 + l] = a[l]
  <2> DEFINE i == Len(u) + 5 + l
  <2>1. /\ i \in 1 .. Len(u) + 5 + Len(a) /\ ~(i <= Len(u) + 5)
        /\ i - (Len(u) + 5) = l
    BY <1>2
  <2> HIDE DEF i
  <2>2. b[i] = a[l]
    BY <1>5, <2>1
  <2> QED BY <2>2 DEF i
<1> HIDE DEF Y
<1>11. Framed(Y, u, a, b)
    BY <1>5, <1>6, <1>7, <1>9, <1>10 DEF Framed
<1> QED BY <1>2, <1>11

\* A tuple of two, put together.
LEMMA PairIs ==
    ASSUME NEW x, NEW y PROVE Append(<<x>>, y) = <<x, y>>
<1> DEFINE S == {x, y}
           u == Append(<<x>>, y)
           v == <<x, y>>
<1>1. /\ <<x>> \in Seq(S) /\ y \in S /\ Len(<<x>>) = 1 /\ <<x>>[1] = x
      /\ v \in Seq(S) /\ Len(v) = 2 /\ v[1] = x /\ v[2] = y
    OBVIOUS
<1> DEFINE w == <<x>>
<1> HIDE DEF S, v, w
<1>2. /\ Append(w, y) \in Seq(S) /\ Len(Append(w, y)) = Len(w) + 1
      /\ Append(w, y)[Len(w) + 1] = y
      /\ \A i \in 1 .. Len(w) : Append(w, y)[i] = w[i]
  <2>1. w \in Seq(S) /\ y \in S
    BY <1>1 DEF w
  <2> QED BY <2>1, AppendProperties
<1>3. u \in Seq(S) /\ Len(u) = 2 /\ u[1] = x /\ u[2] = y
  <2>1. Len(w) = 1 /\ w[1] = x /\ u = Append(w, y)
    BY <1>1 DEF w
  <2> HIDE DEF u
  <2> QED BY <1>2, <2>1
<1> HIDE DEF u
<1>4. \A i \in 1 .. 2 : i \in {1, 2}
    OBVIOUS
<1>5. u = v
    BY <1>1, <1>3, <1>4, SeqEqual
<1> QED BY <1>5 DEF u, v

\* A part of a string is what has its length and its characters.
LEMMA PartIs ==
    ASSUME NEW X, NEW s \in Seq(X), NEW t \in Seq(X), NEW m \in 1 .. Len(s) + 1,
           m + Len(t) - 1 <= Len(s),
           \A l \in 1 .. Len(t) : s[m + l - 1] = t[l]
    PROVE  SubSeq(s, m, m + Len(t) - 1) = t
<1> DEFINE n == m + Len(t) - 1
           u == SubSeq(s, m, n)
<1>1. Len(s) \in Nat /\ Len(t) \in Nat /\ m \in Int /\ n \in Int
      /\ n - m + 1 = Len(t)
    OBVIOUS
<1>2. \A i \in m .. n : s[i] \in X
  <2>1. \A i \in m .. n : i \in 1 .. Len(s)
    BY <1>1
  <2> QED BY <2>1, ElementOfSeq
<1> HIDE DEF n
<1>3. /\ u \in Seq(X) /\ Len(u) = IF m <= n THEN n - m + 1 ELSE 0
      /\ \A i \in 1 .. n - m + 1 : u[i] = s[m + i - 1]
  <2>1. m \in Int /\ n \in Int
    BY <1>1
  <2> QED BY SMTT(40), <1>2, <2>1, SubSeqProperties
<1>4. Len(u) = Len(t)
    BY <1>1, <1>3
<1> HIDE DEF u
<1>5. u = t
    BY <1>1, <1>3, <1>4, SeqEqual
<1> QED BY <1>5 DEF u, n

\* The words behind CLIENTIP's C are what is left of it and the addresses.
LEMMA AddressWords ==
    ASSUME NEW ips \in Seq(Hosts),
           NEW r, r = [k \in DOMAIN ips |-> <<ips[k]>>]
    PROVE  WordsOf(<<"LIENTIP", SP>> \o Ended(r, SP)) = << <<"LIENTIP">> >> \o r
<1> DEFINE X == Hosts \cup {"LIENTIP", SP}
           s == <<"LIENTIP", SP>>
           p == << <<"LIENTIP">> >>
<1>1. /\ s \in Seq(X) /\ p \in Seq(Seq(X)) /\ SP \in X /\ <<>> \in Seq(X)
      /\ "LIENTIP" \in X /\ <<>> \in Seq(Seq(X)) /\ <<"LIENTIP">> \in Seq(X)
      /\ Append(<<>>, "LIENTIP") = <<"LIENTIP">>
      /\ Append(<<"LIENTIP">>, SP) = s /\ Append(<<>>, <<"LIENTIP">>) = p
  <2>1. SP \in X /\ "LIENTIP" \in X
    OBVIOUS
  <2>2. Append(<<>>, "LIENTIP") = <<"LIENTIP">>
    OBVIOUS
  <2>3. Append(<<"LIENTIP">>, SP) = s
    BY PairIs, Zenon
  <2>4. Append(<<>>, <<"LIENTIP">>) = p
    OBVIOUS
  <2> HIDE DEF X
  <2>5. s \in Seq(X) /\ <<>> \in Seq(X) /\ <<"LIENTIP">> \in Seq(X)
    BY <2>1
  <2>6. <<>> \in Seq(Seq(X)) /\ p \in Seq(Seq(X))
    BY <2>5
  <2> QED BY <2>1, <2>2, <2>3, <2>4, <2>5, <2>6
<1>2. Split(s, SP, p, <<>>)
  <2>1. Split(<<>>, SP, <<>>, <<>>)
    BY PiecesNone DEF Split
  <2>2. "LIENTIP" # SP
    BY DEF SP
  <2> HIDE DEF X, s, p
  <2>3. Split(Append(<<>>, "LIENTIP"), SP, <<>>, Append(<<>>, "LIENTIP"))
    BY <1>1, <2>1, <2>2, PiecesGrow
  <2>4. Split(<<"LIENTIP">>, SP, <<>>, <<"LIENTIP">>)
    BY <1>1, <2>3, Zenon
  <2>5. Split(Append(<<"LIENTIP">>, SP), SP, Append(<<>>, <<"LIENTIP">>), <<>>)
    BY <1>1, <2>4, PiecesGrow
  <2> QED BY <1>1, <2>5, Zenon
<1>3. /\ r \in Seq(Seq(X)) /\ Len(r) = Len(ips)
      /\ \A k \in 1 .. Len(r) : \A l \in 1 .. Len(r[k]) : r[k][l] # SP
  <2>1. /\ Len(ips) \in Nat /\ DOMAIN ips = 1 .. Len(ips)
        /\ \A k \in 1 .. Len(ips) : ips[k] \in Hosts /\ <<ips[k]>> \in Seq(X)
    BY ElementOfSeq
  <2>2. r \in Seq(Seq(X)) /\ Len(r) = Len(ips)
        /\ \A k \in 1 .. Len(r) : r[k] = <<ips[k]>>
    BY <2>1, IsASeq
  <2>3. \A k \in 1 .. Len(ips) : ips[k] # SP
    BY <2>1, LinesAssumption
  <2>4. \A k \in 1 .. Len(r) : \A l \in 1 .. Len(r[k]) : r[k][l] = ips[k]
    BY <2>2
  <2> QED BY <2>2, <2>3, <2>4
<1> HIDE DEF X, s, p
<1>4. Split(s \o Ended(r, SP), SP, p \o r, <<>>)
    BY <1>1, <1>2, <1>3, EndedPieces
<1>5. p \o r \in Seq(Seq(X))
    BY <1>1, <1>3, ConcatProperties
<1>6. WordsOf(s \o Ended(r, SP)) = p \o r
  <2> DEFINE q == p \o r
  <2> HIDE DEF q
  <2>1. q \in Seq(Seq(X)) /\ Split(s \o Ended(r, SP), SP, q, <<>>)
    BY <1>4, <1>5 DEF q
  <2>2. WordsOf(s \o Ended(r, SP)) =
            IF <<>> = <<>> THEN q ELSE Append(q, <<>>)
    BY <1>1, <2>1, WordsOfPieces, Zenon
  <2> QED BY <2>2 DEF q
<1> QED BY <1>6 DEF s, p

\* Any list and its addresses are kept as they were sent.
LEMMA ListParsed ==
    ASSUME NEW ips \in Seq(Hosts), ips # <<>>
    PROVE  parseNEWLIST(sendListAndIPs(ips)) =
               [list |-> List(ips), ips |-> [k \in DOMAIN ips |-> <<ips[k]>>]]
<1> DEFINE X == Listed
           u == List(ips)
           r == [k \in DOMAIN ips |-> <<ips[k]>>]
           a == getOnlineIpAddresses(ips)
           b == sendListAndIPs(ips)
           n == Len(u)
<1>1. PICK m \in Seq(X) : u = Append(m, "\n")
    BY ListParts
<1>2. u \in Seq(X) /\ Clear(u) /\ a = Ended(r, SP)
    BY ListParts
<1>3. /\ r \in Seq(Seq(X))
      /\ a \in Seq(X)
  <2>1. /\ Len(ips) \in Nat /\ DOMAIN ips = 1 .. Len(ips)
        /\ \A k \in 1 .. Len(ips) : <<ips[k]>> \in Seq(X)
    <3>1. \A k \in 1 .. Len(ips) : ips[k] \in X
      BY ElementOfSeq DEF Listed
    <3> HIDE DEF X
    <3> QED BY <3>1
  <2>2. r \in Seq(Seq(X))
    <3> HIDE DEF X
    <3> QED BY <2>1, IsASeq
  <2>3. SP \in X
    BY DEF Listed
  <2>4. <<>> \in Seq(X)
    OBVIOUS
  <2> HIDE DEF X, r, a
  <2>5. Ended(r, SP) \in Seq(X)
    BY <2>2, <2>3, <2>4, EndedGrow
  <2> QED BY <1>2, <2>2, <2>5
<1>4. b = <<"NEWLIST", SP>> \o u \o CLIENTIP \o a
    BY DEF sendListAndIPs
<1> HIDE DEF X, u, r, a, b
<1>0. PICK Y : X \subseteq Y /\ Framed(Y, u, a, b)
    BY <1>2, <1>3, <1>4, ListFrame
<1>5. /\ X \subseteq Y /\ b \in Seq(Y) /\ Len(b) = n + 5 + Len(a)
      /\ b[1] = "NEWLIST" /\ b[2] = SP
      /\ \A l \in 1 .. n : b[l + 2] = u[l]
      /\ b[n + 3] = "C" /\ b[n + 4] = "LIENTIP" /\ b[n + 5] = SP
      /\ \A l \in 1 .. Len(a) : b[n + 5 + l] = a[l]
    BY <1>0 DEF Framed
<1>6. /\ n \in Nat /\ n >= 1 /\ Len(a) \in Nat /\ Len(m) = n - 1
      /\ u[n] = "\n" /\ \A l \in 1 .. n - 1 : u[l] = m[l]
  <2>1. /\ "\n" \in X /\ Len(m) \in Nat /\ Len(a) \in Nat
    BY <1>3 DEF X, Listed
  <2>2. /\ Len(Append(m, "\n")) = Len(m) + 1
        /\ Append(m, "\n")[Len(m) + 1] = "\n"
        /\ \A l \in 1 .. Len(m) : Append(m, "\n")[l] = m[l]
    BY <2>1, AppendProperties
  <2> QED BY <1>1, <2>1, <2>2
<1> HIDE DEF n
<1>7. u \in Seq(Y) /\ m \in Seq(Y) /\ a \in Seq(Y)
    BY <1>1, <1>2, <1>3, <1>5, SeqMonotonic
<1> DEFINE c == CLIENTIP
<1>8. /\ c \in Seq(Y) /\ Len(c) = 3
      /\ c[1] = "C" /\ c[2] = "LIENTIP" /\ c[3] = SP
  <2>1. Len(c) = 3 /\ c[1] = "C" /\ c[2] = "LIENTIP" /\ c[3] = SP
    BY DEF CLIENTIP
  <2>2. "C" \in Y /\ "LIENTIP" \in Y /\ SP \in Y
    BY <1>5 DEF X, Listed
  <2> QED BY <2>2 DEF CLIENTIP
<1> HIDE DEF c
<1>9. find(b, c) = n + 2
  <2> DEFINE k == n + 2
  <2>1. Len(b) \in Nat /\ Len(c) \in Nat /\ k \in 0 .. Len(b) - Len(c)
    BY <1>5, <1>6, <1>8
  <2>2. SubSeq(b, k + 1, k + Len(c)) = c
    <3> DEFINE i == n + 3
    <3>1. /\ i \in 1 .. Len(b) + 1 /\ i + Len(c) - 1 <= Len(b)
          /\ k + 1 = i /\ k + Len(c) = i + Len(c) - 1
      BY <1>5, <1>6, <1>8
    <3>2. \A l \in 1 .. Len(c) : b[i + l - 1] = c[l]
      <4>1. /\ \A l \in 1 .. Len(c) : l \in {1, 2, 3}
            /\ i + 1 - 1 = n + 3 /\ i + 2 - 1 = n + 4 /\ i + 3 - 1 = n + 5
        BY <1>6, <1>8
      <4> HIDE DEF i
      <4>2. b[i + 1 - 1] = c[1] /\ b[i + 2 - 1] = c[2] /\ b[i + 3 - 1] = c[3]
        BY <1>5, <1>8, <4>1
      <4> QED BY <4>1, <4>2
    <3> HIDE DEF i, k
    <3>3. b \in Seq(Y) /\ c \in Seq(Y)
      BY <1>5, <1>8
    <3>4. SubSeq(b, i, i + Len(c) - 1) = c
      BY <3>1, <3>2, <3>3, PartIs
    <3> QED BY <3>1, <3>4, Zenon
  <2>3. ASSUME NEW i \in 0 .. k - 1, SubSeq(b, i + 1, i + Len(c)) = c
        PROVE  FALSE
    <3>1. /\ i + 1 \in 1 .. Len(b) /\ i + 2 \in 1 .. Len(b)
          /\ i + 3 \in 1 .. Len(b) /\ i + 1 \in Int /\ i + 3 \in Int
          /\ (i + 3) - (i + 1) + 1 = 3
      BY <1>5, <1>6
    <3>2. b[i + 1] = "C" /\ b[i + 2] = "LIENTIP"
      <4> DEFINE v == SubSeq(b, i + 1, i + 3)
      <4>1. v = c
        BY <1>8, <2>3
      <4>2. \A j \in 1 .. 3 : v[j] = b[(i + 1) + j - 1]
        <5>1. \A j \in i + 1 .. i + 3 : b[j] \in Y
          <6>1. \A j \in i + 1 .. i + 3 : j \in 1 .. Len(b)
            BY <3>1
          <6> QED BY <1>5, <6>1, ElementOfSeq
        <5> QED BY <3>1, <5>1, SubSeqProperties
      <4>3. (i + 1) + 1 - 1 = i + 1 /\ (i + 1) + 2 - 1 = i + 2
        BY <3>1
      <4> HIDE DEF v
      <4> QED BY <1>8, <4>1, <4>2, <4>3
    <3>3. CASE i = 0
      <4>1. b[2] = "LIENTIP"
        BY <3>2, <3>3
      <4> QED BY <1>5, <4>1 DEF SP
    <3>4. CASE i = n + 1
      <4>1. (n + 1) + 2 = n + 3
        BY <1>6
      <4> QED BY <1>5, <3>2, <3>4, <4>1
    <3>5. CASE i \in 1 .. n
      <4>1. b[i + 2] = u[i]
        BY <1>5, <3>5
      <4>2. i > 1 /\ u[i - 1] = SP
        BY <1>2, <3>2, <3>5, <4>1 DEF Clear, n
      <4>3. i - 1 \in 1 .. n /\ (i - 1) + 2 = i + 1
        BY <1>6, <3>5, <4>2
      <4>4. b[i + 1] = SP
        BY <1>5, <4>2, <4>3
      <4> QED BY <3>2, <4>4 DEF SP
    <3> QED BY <1>6, <3>3, <3>4, <3>5
  <2> HIDE DEF k
  <2>4. find(b, c) = k
    BY <2>1, <2>2, <2>3, FindLeast
  <2> QED BY <2>4 DEF k
<1>10. substr(b, 2, (n + 2) - Len(c)) = m
  <2>1. /\ (n + 2) - Len(c) = n - 1 /\ n - 1 # npos
        /\ 2 + (n - 1) = n + 1 /\ n + 1 <= Len(b)
    BY <1>5, <1>6, <1>8 DEF npos
  <2>2. Min({Len(b), 2 + (n - 1)}) = n + 1
    BY <1>5, <1>6, <2>1 DEF Min
  <2> DEFINE h == n - 1
  <2>3. substr(b, 2, h) = SubSeq(b, 3, Min({Len(b), 2 + h}))
    <3>1. h # npos
      BY <2>1
    <3> HIDE DEF h
    <3>2. substr(b, 2, h) = SubSeq(b, 2 + 1, Min({Len(b), 2 + h}))
      BY <3>1 DEF substr
    <3>3. 2 + 1 = 3
      OBVIOUS
    <3> QED BY <3>2, <3>3, Zenon
  <2>4. SubSeq(b, 3, n + 1) = m
    <3>1. 3 \in 1 .. Len(b) + 1 /\ 3 + Len(m) - 1 = n + 1
      BY <1>5, <1>6
    <3>2. \A l \in 1 .. Len(m) : b[3 + l - 1] = m[l]
      <4>1. \A l \in 1 .. Len(m) : /\ l \in 1 .. n /\ l \in 1 .. n - 1
                                   /\ 3 + l - 1 = l + 2
        BY <1>6
      <4> QED BY <1>5, <1>6, <4>1
    <3> DEFINE i == 3
    <3>3. i \in 1 .. Len(b) + 1 /\ i + Len(m) - 1 <= Len(b)
          /\ \A l \in 1 .. Len(m) : b[i + l - 1] = m[l]
      BY <2>1, <3>1, <3>2
    <3> HIDE DEF i
    <3>4. SubSeq(b, i, i + Len(m) - 1) = m
      BY <1>5, <1>7, <3>3, PartIs
    <3> QED BY <3>1, <3>4 DEF i
  <2> QED BY <2>1, <2>2, <2>3, <2>4, Zenon
<1>11. substr(b, (n + 2) + 1, npos) = <<"LIENTIP", SP>> \o a
  <2> DEFINE s == <<"LIENTIP", SP>>
             t == s \o a
  <2>1. s \in Seq(Y) /\ Len(s) = 2 /\ s[1] = "LIENTIP" /\ s[2] = SP
    <3>1. "LIENTIP" \in Y /\ SP \in Y
      BY <1>5 DEF X, Listed
    <3> QED BY <3>1
  <2> HIDE DEF s
  <2>2. /\ t \in Seq(Y) /\ Len(t) = 2 + Len(a)
        /\ \A l \in 1 .. 2 + Len(a) :
              t[l] = IF l <= 2 THEN s[l] ELSE a[l - 2]
    <3>1. /\ s \o a \in Seq(Y) /\ Len(s \o a) = Len(s) + Len(a)
          /\ \A l \in 1 .. Len(s) + Len(a) :
                (s \o a)[l] = IF l <= Len(s) THEN s[l] ELSE a[l - Len(s)]
      BY <1>7, <2>1, ConcatProperties
    <3> QED BY <2>1, <3>1
  <2> HIDE DEF t
  <2> DEFINE i == n + 4
  <2>3. substr(b, (n + 2) + 1, npos) = SubSeq(b, i, Len(b))
    <3>1. ((n + 2) + 1) + 1 = i
      BY <1>6
    <3> QED BY <3>1 DEF substr
  <2>4. /\ i \in 1 .. Len(b) + 1 /\ i + Len(t) - 1 = Len(b)
    BY <1>5, <1>6, <2>2
  <2>5. ASSUME NEW l \in 1 .. Len(t) PROVE b[i + l - 1] = t[l]
    <3>1. CASE l = 1
      <4>1. i + 1 - 1 = n + 4
        BY <1>6
      <4>2. t[1] = "LIENTIP"
        BY <1>6, <2>1, <2>2
      <4> QED BY <1>5, <3>1, <4>1, <4>2
    <3>2. CASE l = 2
      <4>1. i + 2 - 1 = n + 5
        BY <1>6
      <4>2. t[2] = SP
        BY <1>6, <2>1, <2>2
      <4> QED BY <1>5, <3>2, <4>1, <4>2
    <3>3. CASE l > 2
      <4> DEFINE j == l - 2
      <4>1. /\ j \in 1 .. Len(a) /\ i + l - 1 = n + 5 + j
            /\ l \in 1 .. 2 + Len(a) /\ ~(l <= 2)
        BY <1>6, <2>2, <3>3
      <4>2. t[l] = a[j]
        BY <2>2, <4>1
      <4> HIDE DEF j, i
      <4>3. b[n + 5 + j] = a[j]
        BY <1>5, <4>1
      <4> QED BY <4>1, <4>2, <4>3
    <3> QED BY <1>6, <2>2, <3>1, <3>2, <3>3
  <2> HIDE DEF i
  <2>6. SubSeq(b, i, i + Len(t) - 1) = t
    <3>1. i + Len(t) - 1 <= Len(b)
      BY <1>5, <1>6, <2>4
    <3> QED BY <1>5, <2>2, <2>4, <2>5, <3>1, PartIs
  <2> QED BY <2>3, <2>4, <2>6 DEF t, s
<1>12. Tail(WordsOf(<<"LIENTIP", SP>> \o a)) = r
  <2> DEFINE w == << <<"LIENTIP">> >>
             v == w \o r
  <2>1. WordsOf(<<"LIENTIP", SP>> \o a) = v
    <3>1. WordsOf(<<"LIENTIP", SP>> \o Ended(r, SP)) = v
      BY AddressWords DEF r
    <3> HIDE DEF v
    <3> QED BY <1>2, <3>1, Zenon
  <2>2. w \in Seq(Seq(X)) /\ Len(w) = 1 /\ Len(r) \in Nat
    <3>1. "LIENTIP" \in X
      BY DEF X, Listed
    <3> QED BY <1>3, <3>1
  <2> HIDE DEF w
  <2>3. /\ v \in Seq(Seq(X)) /\ Len(v) = 1 + Len(r)
        /\ \A l \in 1 .. 1 + Len(r) : v[l] = IF l <= 1 THEN w[l] ELSE r[l - 1]
    <3>1. /\ w \o r \in Seq(Seq(X)) /\ Len(w \o r) = Len(w) + Len(r)
          /\ \A l \in 1 .. Len(w) + Len(r) :
                (w \o r)[l] = IF l <= Len(w) THEN w[l] ELSE r[l - Len(w)]
      BY <1>3, <2>2, ConcatProperties
    <3> QED BY <2>2, <3>1
  <2> HIDE DEF v
  <2>4. /\ v # <<>> /\ Tail(v) \in Seq(Seq(X)) /\ Len(Tail(v)) = Len(r)
        /\ \A l \in 1 .. Len(r) : Tail(v)[l] = v[l + 1]
    <3>1. v # <<>>
      BY <2>2, <2>3
    <3> QED BY <2>2, <2>3, <3>1, HeadTailProperties
  <2>5. \A l \in 1 .. Len(r) : v[l + 1] = r[l]
    <3>1. \A l \in 1 .. Len(r) : /\ l + 1 \in 1 .. 1 + Len(r)
                                 /\ ~(l + 1 <= 1) /\ (l + 1) - 1 = l
      BY <2>2
    <3> QED BY <2>3, <3>1
  <2>6. Tail(v) = r
    BY <1>3, <2>4, <2>5, SeqEqual
  <2> QED BY <2>1, <2>6
<1>13. parseNEWLIST(b) = [list |-> Append(m, "\n"), ips |-> r]
    BY <1>9, <1>10, <1>11, <1>12, Zenon DEF parseNEWLIST, c
<1> QED BY <1>1, <1>13 DEF b, u, r

\* Whatever hosts are on the list, in whatever order and under whatever names,
\* the client keeps the list and the addresses that the server sent.
THEOREM ListIsKept == Spec => []ListArrives
<1>1. ListArrives
    BY ListParsed DEF ListArrives
<1> QED BY <1>1, PTL

=============================================================================
