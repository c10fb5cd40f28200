--------------------------- MODULE Framing_proofs ---------------------------
(***************************************************************************)
(* That both readers find the frames again, for frames and buffers of any  *)
(* size, whatever the buffer held before and whatever stands behind it:    *)
(* Framing implements FrameReader where no frame arrives in two parts.     *)
(***************************************************************************)
EXTENDS Framing, TLAPS, FiniteSetTheorems, SequenceTheorems,
        WellFoundedInduction

Symbols == Letters \cup {"<", "B", "E"}
Chars == Symbols \cup {NUL}

\* s begins with f.
StartsWith(s, f) == Len(f) <= Len(s) /\ \A l \in 1 .. Len(f) : s[l] = f[l]

-----------------------------------------------------------------------------
(* Finding the tags. *)

\* A string of two is found where its characters are.
LEMMA TwoAt ==
    ASSUME NEW X, NEW s \in Seq(X), NEW c \in X, NEW d \in X,
           NEW i \in 0 .. Len(s) - 2
    PROVE  SubSeq(s, i + 1, i + 2) = <<c, d>> <=> s[i + 1] = c /\ s[i + 2] = d
<1> DEFINE t == SubSeq(s, i + 1, i + 2)
<1>1. Len(s) \in Nat /\ i \in Nat /\ i + 2 <= Len(s)
    OBVIOUS
<1>2. t \in Seq(X) /\ Len(t) = 2 /\ t[1] = s[i + 1] /\ t[2] = s[i + 2]
    BY <1>1, SubSeqProperties
<1>3. <<c, d>> \in Seq(X) /\ Len(<<c, d>>) = 2
    OBVIOUS
<1> HIDE DEF t
<1>4. t = <<c, d>> <=> t[1] = c /\ t[2] = d
  <2>1. t[1] = c /\ t[2] = d => \A k \in 1 .. Len(t) : t[k] = <<c, d>>[k]
    BY <1>2
  <2>2. t[1] = c /\ t[2] = d => t = <<c, d>>
    BY <1>2, <1>3, <2>1, SeqEqual
  <2> QED BY <2>2
<1> QED BY <1>2, <1>4 DEF t

\* Where the first of them is, is what find() gives.
LEMMA FindAt ==
    ASSUME NEW X, NEW s \in Seq(X), NEW c \in X, NEW d \in X,
           NEW i \in 0 .. Len(s) - 2, s[i + 1] = c, s[i + 2] = d,
           \A j \in 0 .. i - 1 : ~(s[j + 1] = c /\ s[j + 2] = d)
    PROVE  find(s, <<c, d>>) = i
<1> DEFINE at == {j \in 0 .. Len(s) - Len(<<c, d>>) :
                     SubSeq(s, j + 1, j + Len(<<c, d>>)) = <<c, d>>}
<1>1. Len(s) \in Nat /\ Len(<<c, d>>) = 2 /\ i \in Nat
    OBVIOUS
<1>2. at = {j \in 0 .. Len(s) - 2 : s[j + 1] = c /\ s[j + 2] = d}
    BY <1>1, TwoAt
<1> HIDE DEF at
<1>3. i \in at
    BY <1>2
<1>4. \A j \in at : i <= j
  <2> SUFFICES ASSUME NEW j \in at, j < i PROVE FALSE
    BY <1>1, <1>2
  <2>1. j \in 0 .. i - 1 /\ s[j + 1] = c /\ s[j + 2] = d
    BY <1>1, <1>2
  <2> QED BY <2>1
<1>5. Min(at) = i
  <2>1. ASSUME NEW x \in at, \A y \in at : x <= y PROVE x = i
    <3>1. x <= i /\ i <= x /\ x \in Int
      BY <1>2, <1>3, <1>4, <2>1
    <3> QED BY <1>1, <3>1
  <2> QED BY <1>3, <1>4, <2>1 DEF Min
<1> QED BY <1>3, <1>5 DEF find, at

\* Without the second of them there is nothing to find.
LEMMA FindNone ==
    ASSUME NEW X, NEW s \in Seq(X), NEW c \in X, NEW d \in X,
           \A l \in 1 .. Len(s) : s[l] # d
    PROVE  find(s, <<c, d>>) = npos
<1>1. Len(s) \in Nat /\ Len(<<c, d>>) = 2
    OBVIOUS
<1>2. \A j \in 0 .. Len(s) - 2 : SubSeq(s, j + 1, j + 2) # <<c, d>>
  <2> SUFFICES ASSUME NEW j \in 0 .. Len(s) - 2,
                      SubSeq(s, j + 1, j + 2) = <<c, d>>
               PROVE  FALSE
    OBVIOUS
  <2>1. s[j + 2] = d /\ j + 2 \in 1 .. Len(s)
    BY <1>1, TwoAt
  <2> QED BY <2>1
<1> QED BY <1>1, <1>2 DEF find

\* What find() returns is a position, or npos.
LEMMA FindRange ==
    ASSUME NEW X, NEW s \in Seq(X), NEW c \in X, NEW d \in X
    PROVE  find(s, <<c, d>>) \in 0 .. Len(s) \cup {npos}
<1> DEFINE at == {j \in 0 .. Len(s) - Len(<<c, d>>) :
                     SubSeq(s, j + 1, j + Len(<<c, d>>)) = <<c, d>>}
<1>1. Len(s) \in Nat /\ Len(<<c, d>>) = 2 /\ at \subseteq 0 .. Len(s)
    OBVIOUS
<1> SUFFICES ASSUME at # {} PROVE Min(at) \in at
    BY <1>1 DEF find
<1>2. at \in SUBSET Nat
    BY <1>1
<1> HIDE DEF at
<1>3. PICK x \in at : \A y \in at : x <= y
  <2>1. IsWellFoundedOn(OpToRel(<, Nat), Nat)
    BY NatLessThanWellFounded
  <2>2. PICK x \in at : \A y \in at : ~(<<y, x>> \in OpToRel(<, Nat))
    BY <1>2, <2>1, WFMin
  <2>3. \A y \in at : ~(y < x)
    BY <1>2, <2>2 DEF OpToRel
  <2> QED BY <1>2, <2>3
<1> QED BY <1>3 DEF Min

\* One character of a string.
LEMMA OneChar ==
    ASSUME NEW X, NEW s \in Seq(X), NEW c \in X, NEW k \in 1 .. Len(s)
    PROVE  SubSeq(s, k, k) = <<c>> <=> s[k] = c
<1> DEFINE t == SubSeq(s, k, k)
<1>1. Len(s) \in Nat /\ k \in Int /\ k - k + 1 = 1
    OBVIOUS
<1>2. t \in Seq(X) /\ Len(t) = 1 /\ t[1] = s[k]
    BY <1>1, SubSeqProperties
<1>3. <<c>> \in Seq(X) /\ Len(<<c>>) = 1
    OBVIOUS
<1> HIDE DEF t
<1>4. t[1] = c => t = <<c>>
  <2>1. t[1] = c => \A l \in 1 .. Len(t) : t[l] = <<c>>[l]
    BY <1>2
  <2> QED BY <1>2, <1>3, <2>1, SeqEqual
<1>5. t = <<c>> => t[1] = c
    OBVIOUS
<1> QED BY <1>2, <1>4, <1>5 DEF t

\* string(buffer) is what is in front of the first NUL.
LEMMA StringFront ==
    ASSUME NEW X, NUL \in X, NEW b \in Seq(X)
    PROVE  \E m \in 0 .. Len(b) :
              /\ string(b) = SubSeq(b, 1, m)
              /\ \A l \in 1 .. m : b[l] # NUL
              /\ m < Len(b) => b[m + 1] = NUL
<1> DEFINE at == {i \in 0 .. Len(b) - Len(<<NUL>>) :
                     SubSeq(b, i + 1, i + Len(<<NUL>>)) = <<NUL>>}
<1>1. Len(b) \in Nat /\ Len(<<NUL>>) = 1
    OBVIOUS
<1>2. at = {i \in 0 .. Len(b) - 1 : b[i + 1] = NUL}
  <2>1. \A i \in 0 .. Len(b) - 1 :
            SubSeq(b, i + 1, i + 1) = <<NUL>> <=> b[i + 1] = NUL
    <3> SUFFICES ASSUME NEW i \in 0 .. Len(b) - 1
                 PROVE  SubSeq(b, i + 1, i + 1) = <<NUL>> <=> b[i + 1] = NUL
      OBVIOUS
    <3>1. i + 1 \in 1 .. Len(b)
      BY <1>1
    <3> QED BY <3>1, OneChar
  <2> QED BY <1>1, <2>1
<1>3. find(b, <<NUL>>) = IF at = {} THEN npos ELSE Min(at)
    BY DEF find
<1> HIDE DEF at
<1>4. CASE at = {}
  <2>1. string(b) = SubSeq(b, 1, Len(b))
    BY <1>3, <1>4 DEF string, substr
  <2>2. \A l \in 1 .. Len(b) : b[l] # NUL
    <3> SUFFICES ASSUME NEW l \in 1 .. Len(b), b[l] = NUL PROVE FALSE
      OBVIOUS
    <3>1. l - 1 \in 0 .. Len(b) - 1 /\ (l - 1) + 1 = l
      BY <1>1
    <3> QED BY <1>2, <1>4, <3>1
  <2> QED BY <1>1, <2>1, <2>2
<1>5. CASE at # {}
  <2>1. PICK m \in at : \A j \in at : m <= j
    <3>1. IsWellFoundedOn(OpToRel(<, Nat), Nat)
      BY NatLessThanWellFounded
    <3>2. at \in SUBSET Nat
      BY <1>1, <1>2
    <3>3. PICK m \in at : \A j \in at : ~(<<j, m>> \in OpToRel(<, Nat))
      BY <1>5, <3>1, <3>2, WFMin
    <3>4. \A j \in at : ~(j < m)
      BY <3>2, <3>3 DEF OpToRel
    <3> QED BY <3>2, <3>4
  <2>2. m \in 0 .. Len(b) - 1 /\ b[m + 1] = NUL
    BY <1>2, <2>1
  <2>3. Min(at) = m
    <3>1. ASSUME NEW x \in at, \A y \in at : x <= y PROVE x = m
      <4>1. x <= m /\ m <= x /\ x \in Int
        BY <1>2, <2>1, <3>1
      <4> QED BY <2>2, <4>1
    <3> QED BY <2>1, <3>1 DEF Min
  <2>4. m # npos /\ Min({Len(b), 0 + m}) = m
    BY <1>1, <2>2 DEF npos, Min
  <2>5. string(b) = SubSeq(b, 1, m)
    <3>1. string(b) = substr(b, 0, m)
      BY <1>3, <1>5, <2>3 DEF string
    <3>2. substr(b, 0, m) = SubSeq(b, 0 + 1, m)
      BY <2>4 DEF substr
    <3> QED BY <3>1, <3>2
  <2>6. \A l \in 1 .. m : b[l] # NUL
    <3> SUFFICES ASSUME NEW l \in 1 .. m, b[l] = NUL PROVE FALSE
      OBVIOUS
    <3>1. l - 1 \in 0 .. Len(b) - 1 /\ (l - 1) + 1 = l /\ ~(m <= l - 1)
      BY <1>1, <2>2
    <3> QED BY <1>2, <2>1, <3>1
  <2> QED BY <1>1, <2>2, <2>5, <2>6
<1> QED BY <1>4, <1>5

\* What a frame is made of: no part of the end tag but at its end.
LEMMA FrameChars ==
    ASSUME NEW p \in Payloads
    PROVE  /\ p \in Seq(Letters) /\ Len(p) \in Nat \ {0}
           /\ Frame(p) \in Seq(Symbols) /\ Len(Frame(p)) = Len(p) + 4
           /\ Frame(p)[1] = "<" /\ Frame(p)[2] = "B"
           /\ \A l \in 1 .. Len(p) : Frame(p)[l + 2] = p[l]
           /\ Frame(p)[Len(p) + 3] = "<" /\ Frame(p)[Len(p) + 4] = "E"
           /\ \A l \in 1 .. Len(p) + 3 : Frame(p)[l] # "E"
<1>1. p \in Seq(Letters) /\ Len(p) \in Nat \ {0}
    BY FramingAssumption, EmptySeq
<1>2. /\ p \in Seq(Symbols) /\ begin_msg \in Seq(Symbols) /\ end_msg \in Seq(Symbols)
      /\ Len(begin_msg) = 2 /\ begin_msg[1] = "<" /\ begin_msg[2] = "B"
      /\ Len(end_msg) = 2 /\ end_msg[1] = "<" /\ end_msg[2] = "E"
    BY <1>1, SeqMonotonic DEF begin_msg, end_msg, Symbols
<1> DEFINE f == begin_msg \o p
<1>3. /\ f \in Seq(Symbols) /\ Len(f) = Len(p) + 2
      /\ f[1] = "<" /\ f[2] = "B"
      /\ \A l \in 1 .. Len(p) : f[l + 2] = p[l]
  <2>1. \A i \in 1 .. 2 + Len(p) :
            f[i] = IF i <= 2 THEN begin_msg[i] ELSE p[i - 2]
    <3>1. \A i \in 1 .. Len(begin_msg) + Len(p) :
              f[i] = IF i <= Len(begin_msg) THEN begin_msg[i]
                     ELSE p[i - Len(begin_msg)]
      BY <1>2, ConcatProperties
    <3> HIDE DEF f
    <3> QED BY <1>2, <3>1
  <2>2. \A l \in 1 .. Len(p) : l + 2 \in 1 .. 2 + Len(p) /\ ~(l + 2 <= 2)
                               /\ (l + 2) - 2 = l
    BY <1>1
  <2>3. f \in Seq(Symbols) /\ Len(f) = 2 + Len(p)
    BY <1>2, ConcatProperties
  <2> HIDE DEF f
  <2>4. f[1] = "<" /\ f[2] = "B"
    BY <1>1, <1>2, <2>1
  <2>5. \A l \in 1 .. Len(p) : f[l + 2] = p[l]
    BY <2>1, <2>2
  <2> QED BY <1>1, <2>3, <2>4, <2>5
<1> HIDE DEF f
<1> DEFINE g == f \o end_msg
<1>4. /\ g \in Seq(Symbols) /\ Len(g) = Len(p) + 4
      /\ \A i \in 1 .. Len(p) + 4 :
            g[i] = IF i <= Len(p) + 2 THEN f[i] ELSE end_msg[i - (Len(p) + 2)]
  <2>1. /\ g \in Seq(Symbols) /\ Len(g) = (Len(p) + 2) + 2
        /\ \A i \in 1 .. (Len(p) + 2) + 2 :
              g[i] = IF i <= Len(p) + 2 THEN f[i] ELSE end_msg[i - (Len(p) + 2)]
    <3>1. /\ g \in Seq(Symbols) /\ Len(g) = Len(f) + Len(end_msg)
          /\ \A i \in 1 .. Len(f) + Len(end_msg) :
                g[i] = IF i <= Len(f) THEN f[i] ELSE end_msg[i - Len(f)]
      <4>1. f \in Seq(Symbols) /\ end_msg \in Seq(Symbols)
        BY <1>2, <1>3
      <4> QED BY <4>1, ConcatProperties
    <3> HIDE DEF g
    <3>2. Len(f) = Len(p) + 2 /\ Len(end_msg) = 2
      BY <1>2, <1>3
    <3>3. Len(g) = (Len(p) + 2) + 2
      BY <3>1, <3>2
    <3>4. \A i \in 1 .. (Len(p) + 2) + 2 :
             g[i] = IF i <= Len(p) + 2 THEN f[i] ELSE end_msg[i - (Len(p) + 2)]
      BY <3>1, <3>2, Zenon
    <3> QED BY <3>1, <3>3, <3>4
  <2>2. (Len(p) + 2) + 2 = Len(p) + 4
    BY <1>1
  <2> HIDE DEF g
  <2> QED BY <2>1, <2>2
<1>5. Frame(p) = g
    BY DEF Frame, f, g
<1> HIDE DEF g
<1>6. g[1] = "<" /\ g[2] = "B"
    BY <1>1, <1>3, <1>4
<1>7. \A l \in 1 .. Len(p) : g[l + 2] = p[l]
  <2>1. \A l \in 1 .. Len(p) : l + 2 \in 1 .. Len(p) + 4 /\ l + 2 <= Len(p) + 2
    BY <1>1
  <2> QED BY <1>3, <1>4, <2>1
<1>8. g[Len(p) + 3] = "<" /\ g[Len(p) + 4] = "E"
  <2>1. /\ (Len(p) + 3) - (Len(p) + 2) = 1 /\ (Len(p) + 4) - (Len(p) + 2) = 2
        /\ Len(p) + 3 \in 1 .. Len(p) + 4 /\ ~(Len(p) + 3 <= Len(p) + 2)
        /\ Len(p) + 4 \in 1 .. Len(p) + 4 /\ ~(Len(p) + 4 <= Len(p) + 2)
    BY <1>1
  <2> QED BY <1>2, <1>4, <2>1
<1>9. \A l \in 1 .. Len(p) + 3 : g[l] # "E"
  <2> SUFFICES ASSUME NEW l \in 1 .. Len(p) + 3 PROVE g[l] # "E"
    OBVIOUS
  <2>1. CASE l = 1 \/ l = 2 \/ l = Len(p) + 3
    BY <1>6, <1>8, <2>1
  <2>2. CASE l \in 3 .. Len(p) + 2
    <3>1. l - 2 \in 1 .. Len(p) /\ (l - 2) + 2 = l
      BY <1>1, <2>2
    <3>2. g[l] = p[l - 2] /\ p[l - 2] \in Letters
      BY <1>1, <1>7, <3>1, ElementOfSeq
    <3> QED BY <3>2, FramingAssumption
  <2> QED BY <1>1, <2>1, <2>2
<1> QED BY <1>1, <1>4, <1>5, <1>6, <1>7, <1>8, <1>9

-----------------------------------------------------------------------------
(* What a call makes of what it has collected. *)

\* The front of a string.
LEMMA SubstrFront ==
    ASSUME NEW X, NEW s \in Seq(X), NEW n \in 0 .. Len(s)
    PROVE  /\ substr(s, 0, n) = SubSeq(s, 1, n)
           /\ SubSeq(s, 1, n) \in Seq(X) /\ Len(SubSeq(s, 1, n)) = n
           /\ \A l \in 1 .. n : SubSeq(s, 1, n)[l] = s[l]
<1>1. Len(s) \in Nat /\ n \in Nat /\ n # npos
    BY DEF npos
<1>2. Min({Len(s), 0 + n}) = n
    BY <1>1 DEF Min
<1>3. substr(s, 0, n) = SubSeq(s, 1, n)
  <2>1. substr(s, 0, n) = SubSeq(s, 0 + 1, n)
    BY <1>1, <1>2 DEF substr
  <2> QED BY <2>1
<1>4. /\ SubSeq(s, 1, n) \in Seq(X) /\ Len(SubSeq(s, 1, n)) = n
      /\ \A l \in 1 .. n : SubSeq(s, 1, n)[l] = s[l]
  <2>1. \A i \in 1 .. n : s[i] \in X
    BY <1>1, ElementOfSeq
  <2>2. /\ SubSeq(s, 1, n) \in Seq(X)
        /\ Len(SubSeq(s, 1, n)) = IF 1 <= n THEN n - 1 + 1 ELSE 0
        /\ \A l \in 1 .. n - 1 + 1 : SubSeq(s, 1, n)[l] = s[1 + l - 1]
    BY <1>1, <2>1, SubSeqProperties
  <2> QED BY <1>1, <2>2
<1> QED BY <1>3, <1>4

\* What is left of a frame without its end tag.
LEMMA WithoutEnd ==
    ASSUME NEW p \in Payloads, NEW m \in Seq(Chars), Len(m) = Len(p) + 2,
           \A l \in 1 .. Len(p) + 2 : m[l] = Frame(p)[l]
    PROVE  /\ find(m, begin_msg) = 0 /\ find(m, end_msg) = npos
           /\ substr(m, 0, npos) = m
           /\ substr(m, 2, npos) = p
<1>1. /\ p \in Seq(Letters) /\ Len(p) \in Nat \ {0}
      /\ Frame(p)[1] = "<" /\ Frame(p)[2] = "B"
      /\ \A l \in 1 .. Len(p) : Frame(p)[l + 2] = p[l]
      /\ \A l \in 1 .. Len(p) + 3 : Frame(p)[l] # "E"
    BY FrameChars
<1>2. {"<", "B", "E"} \subseteq Chars
    BY DEF Chars, Symbols
<1>3. find(m, begin_msg) = 0
  <2>1. 0 \in 0 .. Len(m) - 2 /\ m[0 + 1] = "<" /\ m[0 + 2] = "B"
    BY <1>1
  <2>2. \A j \in 0 .. 0 - 1 : ~(m[j + 1] = "<" /\ m[j + 2] = "B")
    OBVIOUS
  <2> QED BY <1>2, <2>1, <2>2, FindAt DEF begin_msg
<1>4. find(m, end_msg) = npos
  <2>1. \A l \in 1 .. Len(m) : m[l] # "E"
    BY <1>1
  <2> QED BY <1>2, <2>1, FindNone DEF end_msg
<1>5. substr(m, 0, npos) = m
  <2>1. substr(m, 0, npos) = SubSeq(m, 1, Len(m))
    BY DEF substr
  <2> QED BY <2>1, SubSeqFull
<1>6. substr(m, 2, npos) = p
  <2> DEFINE t == SubSeq(m, 3, Len(m))
  <2>1. substr(m, 2, npos) = t
    BY DEF substr
  <2>2. /\ t \in Seq(Chars) /\ Len(t) = Len(p)
        /\ \A l \in 1 .. Len(p) : t[l] = m[l + 2]
    <3>1. \A i \in 3 .. Len(m) : m[i] \in Chars
      BY <1>1, ElementOfSeq
    <3>2. /\ t \in Seq(Chars)
          /\ Len(t) = IF 3 <= Len(m) THEN Len(m) - 3 + 1 ELSE 0
          /\ \A l \in 1 .. Len(m) - 3 + 1 : t[l] = m[3 + l - 1]
      BY <1>1, <3>1, SubSeqProperties
    <3> HIDE DEF t
    <3>3. \A l \in 1 .. Len(p) : 3 + l - 1 = l + 2
      BY <1>1
    <3>4. Len(m) - 3 + 1 = Len(p) /\ 3 <= Len(m)
      BY <1>1
    <3> QED BY <3>2, <3>3, <3>4
  <2>3. p \in Seq(Chars)
    BY <1>1, SeqMonotonic DEF Chars, Symbols
  <2> HIDE DEF t
  <2>4. \A l \in 1 .. Len(t) : t[l] = p[l]
    <3>1. \A l \in 1 .. Len(p) : l + 2 \in 1 .. Len(p) + 2
      BY <1>1
    <3> QED BY <1>1, <2>2, <3>1
  <2> QED BY <2>1, <2>2, <2>3, <2>4, SeqEqual
<1> QED BY <1>3, <1>4, <1>5, <1>6

\* In what begins with a frame, both readers find its payload.
LEMMA FrameFound ==
    ASSUME NEW p \in Payloads, NEW s \in Seq(Chars), StartsWith(s, Frame(p))
    PROVE  /\ Complete(s)
           /\ ~Throws(s) /\ parseFromSocket(s) = p
           /\ ~Throws(ServerResult(s)) /\ parseFromSocket(ServerResult(s)) = p
<1>1. /\ Len(p) \in Nat \ {0} /\ Len(s) \in Nat
      /\ Len(p) + 4 <= Len(s)
      /\ \A l \in 1 .. Len(p) + 4 : s[l] = Frame(p)[l]
      /\ Frame(p)[1] = "<" /\ Frame(p)[2] = "B"
      /\ Frame(p)[Len(p) + 3] = "<" /\ Frame(p)[Len(p) + 4] = "E"
      /\ \A l \in 1 .. Len(p) + 3 : Frame(p)[l] # "E"
    BY FrameChars DEF StartsWith
<1>2. {"<", "B", "E"} \subseteq Chars
    BY DEF Chars, Symbols
<1>3. find(s, begin_msg) = 0
  <2>1. 0 \in 0 .. Len(s) - 2 /\ s[0 + 1] = "<" /\ s[0 + 2] = "B"
    BY <1>1
  <2>2. \A j \in 0 .. 0 - 1 : ~(s[j + 1] = "<" /\ s[j + 2] = "B")
    OBVIOUS
  <2> QED BY <1>2, <2>1, <2>2, FindAt DEF begin_msg
<1> DEFINE e == Len(p) + 2
<1>4. find(s, end_msg) = e
  <2>1. e \in 0 .. Len(s) - 2 /\ s[e + 1] = "<" /\ s[e + 2] = "E"
    BY <1>1
  <2>2. \A j \in 0 .. e - 1 : ~(s[j + 1] = "<" /\ s[j + 2] = "E")
    <3>1. \A j \in 0 .. e - 1 : j + 2 \in 1 .. Len(p) + 3
                                /\ j + 2 \in 1 .. Len(p) + 4
      BY <1>1
    <3> QED BY <1>1, <3>1
  <2> HIDE DEF e
  <2> QED BY <1>2, <2>1, <2>2, FindAt DEF end_msg
<1> DEFINE m == SubSeq(s, 1, e)
<1>5. /\ substr(s, 0, e) = m /\ m \in Seq(Chars) /\ Len(m) = e
      /\ \A l \in 1 .. e : m[l] = s[l]
  <2>1. e \in 0 .. Len(s)
    BY <1>1
  <2> HIDE DEF e
  <2> QED BY <2>1, SubstrFront
<1>6. 0 # npos /\ e # npos
    BY <1>1 DEF npos
<1> HIDE DEF m
<1>7. /\ find(m, begin_msg) = 0 /\ find(m, end_msg) = npos
      /\ substr(m, 0, npos) = m
      /\ substr(m, 2, npos) = p
  <2>1. \A l \in 1 .. Len(p) + 2 : m[l] = Frame(p)[l]
    BY <1>1, <1>5
  <2>2. Len(m) = Len(p) + 2
    BY <1>5
  <2> QED BY <1>5, <2>1, <2>2, WithoutEnd
<1>8. Len(m) \in Nat /\ ~(0 + 2 > Len(m)) /\ 0 + 2 = 2
    BY <1>1, <1>5
<1>9. Len(begin_msg) = 2
    BY DEF begin_msg
<1> HIDE DEF e
<1>10. Complete(s)
    BY <1>3, <1>4, <1>6 DEF Complete
<1>11. ~Throws(s) /\ parseFromSocket(s) = p
  <2>1. substr(s, 0, find(s, end_msg)) = m
    BY <1>4, <1>5
  <2> QED BY <1>3, <1>6, <1>7, <1>8, <1>9, <2>1 DEF Throws, parseFromSocket
<1>12. ServerResult(s) = m
    BY <1>3, <1>4, <1>5 DEF ServerResult
<1>13. ~Throws(m) /\ parseFromSocket(m) = p
  <2>1. substr(m, 0, find(m, end_msg)) = m
    BY <1>7
  <2> QED BY <1>6, <1>7, <1>8, <1>9, <2>1 DEF Throws, parseFromSocket
<1> QED BY <1>10, <1>11, <1>12, <1>13

\* A string without the last character of the end tag is not complete.
LEMMA NotComplete ==
    ASSUME NEW s \in Seq(Chars), \A l \in 1 .. Len(s) : s[l] # "E"
    PROVE  ~Complete(s)
<1>1. {"<", "E"} \subseteq Chars
    BY DEF Chars, Symbols
<1>2. find(s, end_msg) = npos
    BY <1>1, FindNone DEF end_msg
<1> QED BY <1>2 DEF Complete

\* Whatever the parser makes of a string is a string.
LEMMA ParsedIsString ==
    ASSUME NEW s \in Seq(Chars)
    PROVE  parseFromSocket(s) \in Seq(Chars)
<1>1. {"<", "B", "E"} \subseteq Chars
    BY DEF Chars, Symbols
<1> DEFINE e == find(s, end_msg)
           m == substr(s, 0, e)
<1>2. e \in 0 .. Len(s) \cup {npos}
    BY <1>1, FindRange DEF end_msg
<1>3. m \in Seq(Chars)
  <2> HIDE DEF e
  <2>1. CASE e = npos
    <3>1. substr(s, 0, e) = SubSeq(s, 1, Len(s))
      BY <2>1 DEF substr
    <3> QED BY <3>1, SubSeqFull
  <2>2. CASE e \in 0 .. Len(s)
    BY <2>2, SubstrFront
  <2> QED BY <1>2, <2>1, <2>2
<1> HIDE DEF m
<1> DEFINE k == find(m, begin_msg) + Len(begin_msg)
<1>4. k \in Nat
  <2>1. find(m, begin_msg) \in 0 .. Len(m) \cup {npos} /\ Len(m) \in Nat
    BY <1>1, <1>3, FindRange DEF begin_msg
  <2>2. Len(begin_msg) = 2
    BY DEF begin_msg
  <2> QED BY <2>1, <2>2 DEF npos
<1> HIDE DEF k
<1>5. substr(m, k, npos) \in Seq(Chars)
  <2>1. substr(m, k, npos) = SubSeq(m, k + 1, Len(m))
    BY DEF substr
  <2>2. Len(m) \in Nat /\ \A i \in k + 1 .. Len(m) : m[i] \in Chars
    BY <1>3, <1>4, ElementOfSeq
  <2> QED BY <1>4, <2>1, <2>2, SubSeqProperties
<1> QED BY <1>5 DEF parseFromSocket, k, m, e

\* A call that has a whole frame hands its payload on and ends.
LEMMA CallHandles ==
    ASSUME NEW p \in Payloads, NEW s \in Seq(Chars), StartsWith(s, Frame(p)),
           Collect(s)
    PROVE  /\ msg' = s /\ ~busy' /\ running' = running
           /\ handled' = Append(handled, p)
<1>1. msg' = s /\ ~busy' /\ Handle(s)
    BY FrameFound DEF Collect
<1>2. PICK m \in {IF side = "server" THEN ServerResult(s) ELSE s} :
          IF Throws(m) \/ (side = "client" /\ parseFromSocket(m) = <<>>)
          THEN running' = FALSE /\ UNCHANGED handled
          ELSE /\ handled' = Append(handled, parseFromSocket(m))
               /\ UNCHANGED running
    BY <1>1 DEF Handle
<1>3. ~Throws(m) /\ parseFromSocket(m) = p
    BY <1>2, FrameFound
<1>4. p # <<>>
    BY FramingAssumption
<1> QED BY <1>1, <1>2, <1>3, <1>4

\* A call that has no end tag goes on.
LEMMA CallGoesOn ==
    ASSUME NEW s \in Seq(Chars), \A l \in 1 .. Len(s) : s[l] # "E", Collect(s)
    PROVE  msg' = s /\ busy' /\ UNCHANGED <<handled, running>>
BY NotComplete DEF Collect

\* What a reader may make of what is not a frame: anything.
Guesses ==
    /\ running' \in BOOLEAN
    /\ \/ handled' = handled
       \/ \E h \in Seq(Chars) : handled' = Append(handled, h)

\* What readFromSocket cuts out of a string is a string.
LEMMA ResultIsString ==
    ASSUME NEW s \in Seq(Chars), Complete(s)
    PROVE  ServerResult(s) \in Seq(Chars)
<1>1. {"<", "B", "E"} \subseteq Chars /\ Len(s) \in Nat
    BY DEF Chars, Symbols
<1> DEFINE i == find(s, begin_msg)
           n == find(s, end_msg)
<1>2. i \in 0 .. Len(s)
    BY <1>1, FindRange DEF begin_msg, Complete
<1>3. n \in 0 .. Len(s) /\ n # npos
    BY <1>1, FindRange DEF end_msg, Complete
<1> HIDE DEF i, n
<1> DEFINE k == Min({Len(s), i + n})
<1>4. k \in Int /\ k <= Len(s)
  <2>1. CASE Len(s) <= i + n
    <3>1. Min({Len(s), i + n}) = Len(s)
      BY <1>1, <1>2, <1>3, <2>1 DEF Min
    <3> QED BY <1>1, <3>1
  <2>2. CASE i + n <= Len(s)
    <3>1. Min({Len(s), i + n}) = i + n
      BY <1>1, <1>2, <1>3, <2>2 DEF Min
    <3> QED BY <1>1, <1>2, <1>3, <2>2, <3>1
  <2> QED BY <1>1, <1>2, <1>3, <2>1, <2>2
<1>5. substr(s, i, n) = SubSeq(s, i + 1, k)
    BY <1>3 DEF substr
<1> HIDE DEF k
<1>6. \A l \in i + 1 .. k : s[l] \in Chars
  <2> SUFFICES ASSUME NEW l \in i + 1 .. k PROVE s[l] \in Chars
    OBVIOUS
  <2>1. l \in 1 .. Len(s)
    BY <1>1, <1>2, <1>4
  <2> QED BY <2>1, ElementOfSeq
<1>7. SubSeq(s, i + 1, k) \in Seq(Chars)
  <2>1. i + 1 \in Int
    BY <1>2
  <2> QED BY <1>4, <1>6, <2>1, SubSeqProperties
<1> QED BY <1>5, <1>7 DEF ServerResult, i, n

\* A reader hands on what it has, or crashes.
LEMMA HandlesGuess ==
    ASSUME NEW s \in Seq(Chars), side \in {"server", "client"},
           side = "client" \/ Complete(s), running \in BOOLEAN, Handle(s)
    PROVE  Guesses
<1>1. PICK m \in {IF side = "server" THEN ServerResult(s) ELSE s} :
          IF Throws(m) \/ (side = "client" /\ parseFromSocket(m) = <<>>)
          THEN running' = FALSE /\ UNCHANGED handled
          ELSE /\ handled' = Append(handled, parseFromSocket(m))
               /\ UNCHANGED running
    BY DEF Handle
<1>2. m \in Seq(Chars)
    BY <1>1, ResultIsString
<1>3. parseFromSocket(m) \in Seq(Chars)
    BY <1>2, ParsedIsString
<1>4. \/ running' = FALSE /\ handled' = handled
      \/ handled' = Append(handled, parseFromSocket(m)) /\ running' = running
    BY <1>1
<1> QED BY <1>3, <1>4 DEF Guesses

\* Whatever a reader has collected, its call ends with a guess or goes on.
LEMMA CallGuesses ==
    ASSUME NEW s \in Seq(Chars), side \in {"server", "client"},
           running \in BOOLEAN, Collect(s)
    PROVE  /\ msg' = s /\ busy' \in BOOLEAN
           /\ busy' => UNCHANGED <<handled, running>>
           /\ Guesses
<1>1. /\ msg' = s /\ busy' = ~Complete(s)
      /\ IF busy' THEN UNCHANGED <<handled, running>> ELSE Handle(s)
    BY DEF Collect
<1>2. CASE busy'
    BY <1>1, <1>2 DEF Guesses
<1>3. CASE ~busy'
    BY <1>1, <1>3, HandlesGuess
<1>4. busy' \in BOOLEAN
    BY <1>1 DEF Complete
<1> QED BY <1>1, <1>2, <1>3, <1>4

-----------------------------------------------------------------------------
(* The invariant. *)

\* The types, with those of what is read.
TypeInv ==
    /\ TypeOK
    /\ stream \in Seq(Symbols)
    /\ buffer \in [1 .. bufsize -> Chars]
    /\ msg \in Seq(Chars)
    /\ handled \in Seq(Seq(Chars))

\* Frame k is in the stream, where ends says.
FrameAt(k) ==
    /\ ends[k] = Start(k) + Len(frames[k]) + 4
    /\ ends[k] <= Len(stream)
    /\ \A l \in 1 .. Len(frames[k]) + 4 :
          stream[Start(k) + l] = Frame(frames[k])[l]

\* The frames stand one behind the other in the stream; behind the last of them
\* there may be more.
SentInv ==
    /\ Len(ends) = Len(frames)
    /\ \A k \in DOMAIN ends : FrameAt(k)
    /\ \A j, k \in DOMAIN ends : j < k => ends[j] < ends[k]
    /\ LastEnd <= Len(stream)

\* This much holds wherever reads end.
StreamInv == TypeInv /\ SentInv

\* Of the frames, t end in what the first n characters are.
Within(t, n) == /\ Start(t + 1) <= n
                /\ \A k \in DOMAIN ends : ends[k] <= n <=> k <= t

\* All frames are taken, and the sender has stopped in the middle of the next.
Exhausted(t) == Partial /\ t = Len(ends)

\* The call has collected the beginning of what comes next.
Partly(t) == /\ pos > Start(t + 1)
             /\ msg = SubSeq(stream, Start(t + 1) + 1, pos)

\* Where a call ends it is at the end of a frame; where it goes on it holds
\* the beginning of a frame.
Position(t) ==
    /\ Within(t, pos)
    /\ busy => running
    /\ running /\ ~busy => pos = Start(t + 1) \/ Exhausted(t)
    /\ busy => Partly(t) \/ Exhausted(t)

PosInv == \E t \in 0 .. Len(ends) : Position(t)

FramingInv == StreamInv /\ (astray \/ PosInv)

\* How many frames are taken.
LEMMA CountTaken ==
    ASSUME NEW e \in Seq(Nat), NEW n \in Nat, NEW t \in 0 .. Len(e),
           \A k \in DOMAIN e : e[k] <= n <=> k <= t
    PROVE  Cardinality({k \in DOMAIN e : e[k] <= n}) = t
<1>1. {k \in DOMAIN e : e[k] <= n} = 1 .. t
    OBVIOUS
<1>2. 1 \in Int /\ t \in Int /\ (IF 1 > t THEN 0 ELSE t - 1 + 1) = t
    OBVIOUS
<1> QED BY <1>1, <1>2, FS_Interval

\* They grow with what is read, and are no more than were sent.
LEMMA CountGrows ==
    ASSUME NEW e \in Seq(Nat), NEW n \in Nat, NEW m \in Nat, n <= m
    PROVE  /\ Cardinality({k \in DOMAIN e : e[k] <= n}) \in Nat
           /\ Cardinality({k \in DOMAIN e : e[k] <= m})
                 \in Cardinality({k \in DOMAIN e : e[k] <= n}) .. Len(e)
<1> DEFINE A == {k \in DOMAIN e : e[k] <= n}
           B == {k \in DOMAIN e : e[k] <= m}
<1>1. /\ IsFiniteSet(DOMAIN e) /\ Cardinality(DOMAIN e) = Len(e)
      /\ Len(e) \in Nat
  <2>1. Len(e) \in Nat /\ DOMAIN e = 1 .. Len(e)
    OBVIOUS
  <2>2. 1 \in Int /\ Len(e) \in Int
        /\ (IF 1 > Len(e) THEN 0 ELSE Len(e) - 1 + 1) = Len(e)
    BY <2>1
  <2> QED BY <2>1, <2>2, FS_Interval
<1>2. A \subseteq B /\ B \subseteq DOMAIN e
  <2>1. \A k \in DOMAIN e : e[k] \in Nat
    OBVIOUS
  <2> QED BY <2>1
<1> HIDE DEF A, B
<1>3. IsFiniteSet(B) /\ Cardinality(B) <= Len(e)
    BY <1>1, <1>2, FS_Subset
<1>4. IsFiniteSet(A) /\ Cardinality(A) <= Cardinality(B)
    BY <1>2, <1>3, FS_Subset
<1>5. Cardinality(A) \in Nat /\ Cardinality(B) \in Nat
    BY <1>3, <1>4, FS_CardinalityType
<1>6. Cardinality(B) \in Cardinality(A) .. Len(e)
    BY <1>1, <1>3, <1>4, <1>5
<1> QED BY <1>5, <1>6 DEF A, B

\* In the beginning nothing is sent or read.
LEMMA InitInv == Init => FramingInv
<1> SUFFICES ASSUME Init PROVE FramingInv
    OBVIOUS
<1>1. /\ frames = <<>> /\ ends = <<>> /\ stream = <<>> /\ closed = FALSE
      /\ pos = 0 /\ busy = FALSE /\ buffer = Blank /\ msg = <<>>
      /\ handled = <<>> /\ running = TRUE /\ side \in Sides /\ astray = FALSE
    BY DEF Init
<1>2. buffer \in [1 .. bufsize -> Chars] /\ Len(buffer) = bufsize
    BY <1>1, FramingAssumption DEF Blank, Chars
<1>3. TypeInv
  <2>1. /\ <<>> \in Seq(Payloads) /\ <<>> \in Seq(Nat) /\ <<>> \in Seq(Symbols)
        /\ <<>> \in Seq(Chars) /\ <<>> \in Seq(Seq(Chars)) /\ Len(<<>>) = 0
    BY EmptySeq
  <2>2. frames \in Seq(Payloads) /\ ends \in Seq(Nat) /\ pos \in 0 .. Len(stream)
    BY <1>1, <2>1
  <2>3. TypeOK
    BY <1>1, <1>2, <2>2 DEF TypeOK
  <2> QED BY <1>1, <1>2, <2>1, <2>3 DEF TypeInv
<1>4. Start(1) = 0
    BY DEF Start
<1>5. SentInv
    BY <1>1, <1>4 DEF SentInv, LastEnd
<1>6. Position(0)
    BY <1>1, <1>4 DEF Position, Within
<1> QED BY <1>1, <1>3, <1>5, <1>6 DEF FramingInv, StreamInv, PosInv

\* Every frame begins in the stream.
LEMMA StartInStream ==
    ASSUME SentInv, TypeInv, NEW k \in 1 .. Len(ends) + 1
    PROVE  Start(k) \in 0 .. Len(stream)
<1>1. ends \in Seq(Nat) /\ Len(ends) \in Nat /\ Len(stream) \in Nat
    BY DEF TypeInv, TypeOK
<1>2. CASE k = 1
    BY <1>1, <1>2 DEF Start
<1>3. CASE k # 1
  <2>1. k - 1 \in DOMAIN ends
    BY <1>1, <1>3
  <2>2. ends[k - 1] \in Nat /\ ends[k - 1] <= Len(stream)
    BY <1>1, <2>1 DEF SentInv, FrameAt
  <2> QED BY <1>1, <1>3, <2>2 DEF Start
<1> QED BY <1>2, <1>3

\* What is behind a frame that was sent does not move it.
LEMMA StartsStay ==
    ASSUME SentInv, TypeInv, NEW k \in 1 .. Len(ends) + 1,
           ends' = ends \/ ends' = Append(ends, Len(stream'))
    PROVE  /\ Start(k)' = Start(k) /\ Start(k) \in 0 .. Len(stream)
           /\ k <= Len(ends) => ends'[k] = ends[k]
<1>1. ends \in Seq(Nat) /\ Len(ends) \in Nat /\ k \in Nat /\ Len(stream) \in Nat
    BY DEF TypeInv, TypeOK
<1>2. \A j \in 1 .. Len(ends) : ends'[j] = ends[j]
    BY <1>1
<1>3. Start(k)' = Start(k)
    BY <1>1, <1>2 DEF Start
<1>4. Start(k) \in 0 .. Len(stream)
  <2>1. CASE k = 1
    BY <1>1, <2>1 DEF Start
  <2>2. CASE k # 1
    <3>1. k - 1 \in DOMAIN ends
      BY <1>1, <2>2
    <3>2. ends[k - 1] \in Nat /\ ends[k - 1] <= Len(stream)
      BY <1>1, <3>1 DEF SentInv, FrameAt
    <3> QED BY <1>1, <2>2, <3>2 DEF Start
  <2> QED BY <2>1, <2>2
<1> QED BY <1>1, <1>2, <1>3, <1>4

\* Where no part of a frame is left, the stream ends with the last one.
LEMMA NothingLeft ==
    ASSUME StreamInv, ~Partial
    PROVE  LastEnd = Len(stream)
<1>1. SentInv /\ TypeInv /\ ends \in Seq(Nat)
    BY DEF StreamInv, TypeInv, TypeOK
<1>2. Len(ends) + 1 \in 1 .. Len(ends) + 1
    BY <1>1
<1>3. LastEnd \in 0 .. Len(stream)
    BY <1>1, <1>2, StartInStream DEF LastEnd
<1> QED BY <1>3 DEF Partial

\* What a sender adds does not change what was read.
LEMMA SendsBehind ==
    ASSUME StreamInv, NEW r \in Seq(Symbols), stream' = stream \o r,
           \/ ends' = ends
           \/ ends' = Append(ends, Len(stream')) /\ r # <<>>,
           ~Partial, UNCHANGED reading
    PROVE  /\ stream' \in Seq(Symbols) /\ Len(stream') = Len(stream) + Len(r)
           /\ \A l \in 1 .. Len(stream) : stream'[l] = stream[l]
           /\ \A l \in 1 .. Len(r) : stream'[Len(stream) + l] = r[l]
           /\ PosInv => PosInv'
           /\ \A t \in 0 .. Len(ends) :
                 Position(t) => t \in 0 .. Len(ends') /\ Position(t)'
<1>1. /\ stream \in Seq(Symbols) /\ Len(stream) \in Nat /\ Len(r) \in Nat
      /\ pos \in 0 .. Len(stream) /\ ends \in Seq(Nat) /\ Len(ends) \in Nat
    BY DEF StreamInv, TypeInv, TypeOK
<1>2. /\ stream' \in Seq(Symbols) /\ Len(stream') = Len(stream) + Len(r)
      /\ \A l \in 1 .. Len(stream) : stream'[l] = stream[l]
      /\ \A l \in 1 .. Len(r) : stream'[Len(stream) + l] = r[l]
  <2>1. /\ stream' \in Seq(Symbols) /\ Len(stream') = Len(stream) + Len(r)
        /\ \A i \in 1 .. Len(stream) + Len(r) :
              stream'[i] = IF i <= Len(stream) THEN stream[i]
                           ELSE r[i - Len(stream)]
    BY <1>1, ConcatProperties
  <2>2. \A l \in 1 .. Len(r) : /\ Len(stream) + l \in 1 .. Len(stream) + Len(r)
                               /\ ~(Len(stream) + l <= Len(stream))
                               /\ (Len(stream) + l) - Len(stream) = l
    BY <1>1
  <2>3. \A l \in 1 .. Len(stream) : l \in 1 .. Len(stream) + Len(r) /\ l <= Len(stream)
    BY <1>1
  <2> QED BY <2>1, <2>2, <2>3
<1>3. ASSUME NEW t \in 0 .. Len(ends), Position(t)
      PROVE  t \in 0 .. Len(ends') /\ Position(t)'
  <2>1. t + 1 \in 1 .. Len(ends) + 1 /\ t \in Nat
    BY <1>1
  <2>2. Start(t + 1)' = Start(t + 1) /\ Start(t + 1) \in 0 .. Len(stream)
    BY <2>1, StartsStay DEF StreamInv
  <2>3. Within(t, pos)'
    <3>1. Start(t + 1)' <= pos'
      BY <1>3, <2>2 DEF Position, Within, reading
    <3>2. \A k \in DOMAIN ends' : ends'[k] <= pos' <=> k <= t
      <4> SUFFICES ASSUME NEW k \in DOMAIN ends'
                   PROVE  ends'[k] <= pos' <=> k <= t
        OBVIOUS
      <4>1. CASE k \in DOMAIN ends
        <5>1. k \in 1 .. Len(ends) + 1 /\ k <= Len(ends)
          BY <1>1, <4>1
        <5>2. ends'[k] = ends[k]
          BY <5>1, StartsStay DEF StreamInv
        <5> QED BY <1>3, <4>1, <5>2 DEF Position, Within, reading
      <4>2. CASE k \notin DOMAIN ends
        <5>1. ends' = Append(ends, Len(stream')) /\ k = Len(ends) + 1 /\ r # <<>>
          BY <1>1, <4>2
        <5>2. ends'[k] = Len(stream') /\ Len(r) # 0
          BY <1>1, <5>1
        <5>3. ends'[k] > pos' /\ ~(k <= t)
          BY <1>1, <1>2, <2>1, <5>1, <5>2 DEF reading
        <5> QED BY <1>1, <1>2, <5>2, <5>3 DEF reading
      <4> QED BY <4>1, <4>2
    <3> QED BY <3>1, <3>2 DEF Within
  <2>4. Partly(t) => Partly(t)'
    <3> SUFFICES ASSUME Partly(t) PROVE Partly(t)'
      OBVIOUS
    <3>1. Start(t + 1) + 1 \in 1 .. Len(stream) /\ pos \in 1 .. Len(stream)
      BY <1>1, <2>2 DEF Partly
    <3>2. SubSeq(stream \o r, Start(t + 1) + 1, pos)
             = SubSeq(stream, Start(t + 1) + 1, pos)
      BY <1>1, <3>1, SubSeqOfConcat1
    <3> QED BY <2>2, <3>2 DEF Partly, reading
  <2>5. t \in 0 .. Len(ends')
    BY <1>1
  <2> QED BY <1>3, <2>2, <2>3, <2>4, <2>5 DEF Position, Exhausted, reading
<1>4. PosInv => PosInv'
  <2> SUFFICES ASSUME PosInv PROVE PosInv'
    OBVIOUS
  <2>1. PICK t \in 0 .. Len(ends) : Position(t)
    BY DEF PosInv
  <2> QED BY <1>3, <2>1 DEF PosInv
<1> QED BY <1>2, <1>3, <1>4

\* A frame stays where it is.
LEMMA FrameStays ==
    ASSUME TypeInv, SentInv, NEW k \in DOMAIN ends,
           stream' \in Seq(Symbols), Len(stream) <= Len(stream'),
           \A l \in 1 .. Len(stream) : stream'[l] = stream[l],
           \/ ends' = ends /\ frames' = frames
           \/ /\ ends' = Append(ends, Len(stream'))
              /\ \E p \in Payloads : frames' = Append(frames, p)
    PROVE  FrameAt(k)'
<1>1. /\ frames \in Seq(Payloads) /\ ends \in Seq(Nat) /\ Len(frames) = Len(ends)
      /\ Len(stream) \in Nat /\ Len(stream') \in Nat
      /\ k \in 1 .. Len(ends) /\ FrameAt(k)
    BY DEF TypeInv, TypeOK, SentInv
<1>2. k \in 1 .. Len(ends) + 1 /\ k <= Len(ends) /\ Len(ends) \in Nat
    BY <1>1
<1>3. /\ Start(k)' = Start(k) /\ Start(k) \in 0 .. Len(stream)
      /\ ends'[k] = ends[k]
    BY <1>2, StartsStay
<1>4. frames'[k] = frames[k]
    BY <1>1
<1>5. Len(frames[k]) \in Nat
  <2>1. frames[k] \in Payloads
    BY <1>1, ElementOfSeq
  <2> QED BY <2>1, FrameChars
<1>6. /\ ends[k] = Start(k) + Len(frames[k]) + 4
      /\ ends[k] <= Len(stream)
      /\ \A l \in 1 .. Len(frames[k]) + 4 :
            stream[Start(k) + l] = Frame(frames[k])[l]
    BY <1>1 DEF FrameAt
<1>7. \A l \in 1 .. Len(frames[k]) + 4 :
          stream'[Start(k) + l] = Frame(frames[k])[l]
  <2>1. PICK b \in Nat, c \in Nat, n \in Nat :
            b = Start(k) /\ c = Len(frames[k]) + 4 /\ n = Len(stream)
    BY <1>1, <1>3, <1>5
  <2>2. b + c <= n
    BY <1>5, <1>6, <2>1
  <2>3. \A l \in 1 .. c : b + l \in 1 .. n
    BY <2>2
  <2> QED BY <1>6, <2>1, <2>3
<1>8. ends[k] <= Len(stream')
    BY <1>1, <1>3, <1>5, <1>6
<1> QED BY <1>3, <1>4, <1>6, <1>7, <1>8 DEF FrameAt

\* A frame that was sent is the last, and whole.
LEMMA FrameSent ==
    ASSUME StreamInv, NEW p \in Payloads, sendOverSocket(p)
    PROVE  StreamInv' /\ (PosInv => PosInv') /\ ~Partial'
<1>1. /\ ~Partial /\ frames' = Append(frames, p)
      /\ stream' = stream \o Frame(p)
      /\ ends' = Append(ends, Len(stream'))
      /\ UNCHANGED <<closed, reading>>
    BY DEF sendOverSocket
<1>2. PICK n \in Nat, e \in Nat : n = Len(stream) /\ e = Len(ends)
    BY DEF StreamInv, TypeInv, TypeOK
<1>3. /\ Frame(p) \in Seq(Symbols) /\ Len(Frame(p)) = Len(p) + 4
      /\ Len(p) \in Nat \ {0} /\ Frame(p) # <<>>
  <2>1. /\ Frame(p) \in Seq(Symbols) /\ Len(Frame(p)) = Len(p) + 4
        /\ Len(p) \in Nat \ {0}
    BY FrameChars
  <2> QED BY <2>1, EmptySeq
<1>4. /\ stream' \in Seq(Symbols) /\ Len(stream') = n + Len(p) + 4
      /\ \A l \in 1 .. n : stream'[l] = stream[l]
      /\ \A l \in 1 .. Len(p) + 4 : stream'[n + l] = Frame(p)[l]
      /\ PosInv => PosInv'
  <2>1. /\ stream' \in Seq(Symbols) /\ Len(stream') = n + Len(Frame(p))
        /\ \A l \in 1 .. n : stream'[l] = stream[l]
        /\ \A l \in 1 .. Len(Frame(p)) : stream'[n + l] = Frame(p)[l]
        /\ PosInv => PosInv'
    BY <1>1, <1>2, <1>3, SendsBehind
  <2> QED BY <1>3, <2>1
<1>5. /\ TypeInv /\ SentInv /\ ends \in Seq(Nat) /\ Len(ends) = e
      /\ frames \in Seq(Payloads) /\ Len(frames) = e
      /\ DOMAIN ends = 1 .. e
    BY <1>2 DEF StreamInv, TypeInv, TypeOK, SentInv
<1>6. /\ Len(ends') = e + 1 /\ Len(frames') = e + 1
      /\ ends'[e + 1] = n + Len(p) + 4 /\ frames'[e + 1] = p
      /\ \A k \in 1 .. e : ends'[k] = ends[k]
      /\ ends' \in Seq(Nat) /\ frames' \in Seq(Payloads)
      /\ DOMAIN ends' = 1 .. e + 1
    BY <1>1, <1>2, <1>3, <1>4, <1>5
<1>7. TypeInv'
  <2>1. pos' \in 0 .. Len(stream')
    BY <1>1, <1>2, <1>3, <1>4, <1>5 DEF TypeInv, TypeOK, reading
  <2>2. TypeOK'
    BY <1>1, <1>5, <1>6, <2>1 DEF TypeInv, TypeOK, reading
  <2> QED BY <1>1, <1>4, <1>5, <2>2 DEF TypeInv, reading
<1>8. Start(e + 1)' = n
  <2>1. e + 1 \in 1 .. Len(ends) + 1
    BY <1>2
  <2>2. Start(e + 1)' = Start(e + 1)
    BY <1>1, <1>5, <2>1, StartsStay
  <2>3. LastEnd = Len(stream)
    BY <1>1, NothingLeft
  <2> QED BY <1>2, <2>2, <2>3 DEF LastEnd
<1>9. \A k \in 1 .. e + 1 : FrameAt(k)'
  <2>1. \A k \in 1 .. e : FrameAt(k)'
    <3>1. Len(stream) <= Len(stream')
      BY <1>2, <1>3, <1>4
    <3> QED BY <1>1, <1>2, <1>4, <1>5, <3>1, FrameStays
  <2>2. FrameAt(e + 1)'
    <3>1. n + Len(p) + 4 <= Len(stream')
      BY <1>2, <1>3, <1>4
    <3> QED BY <1>4, <1>6, <1>8, <3>1 DEF FrameAt
  <2>3. \A k \in 1 .. e + 1 : k \in 1 .. e \/ k = e + 1
    BY <1>2
  <2> QED BY <2>1, <2>2, <2>3
<1>10. \A j, k \in 1 .. e + 1 : j < k => ends'[j] < ends'[k]
  <2> SUFFICES ASSUME NEW j \in 1 .. e + 1, NEW k \in 1 .. e + 1, j < k
               PROVE  ends'[j] < ends'[k]
    OBVIOUS
  <2>1. j \in 1 .. e /\ (k \in 1 .. e \/ k = e + 1)
    BY <1>2
  <2>2. ends'[j] = ends[j] /\ ends[j] \in Nat /\ ends[j] <= n
    <3>1. FrameAt(j)
      BY <1>5, <2>1 DEF SentInv
    <3>2. ends[j] \in Nat
      BY <1>5, <2>1
    <3>3. ends'[j] = ends[j]
      BY <1>6, <2>1
    <3>4. ends[j] <= n
      BY <1>2, <3>1 DEF FrameAt
    <3> QED BY <3>2, <3>3, <3>4
  <2>3. CASE k \in 1 .. e
    <3>1. ends[j] < ends[k]
      BY <1>5, <2>1, <2>3 DEF SentInv
    <3> QED BY <1>6, <2>1, <2>3, <3>1
  <2>4. CASE k = e + 1
    BY <1>2, <1>3, <1>6, <2>2, <2>4
  <2> QED BY <2>1, <2>3, <2>4
<1>11. SentInv' /\ ~Partial'
  <2>1. LastEnd' = Len(stream') /\ Len(stream') \in Nat
    <3>1. (e + 1) + 1 # 1 /\ ((e + 1) + 1) - 1 = e + 1
      BY <1>2
    <3>2. LastEnd' = ends'[e + 1]
      BY <1>6, <3>1 DEF LastEnd, Start
    <3> QED BY <1>2, <1>3, <1>4, <1>6, <3>2
  <2>2. Len(ends') = Len(frames') /\ LastEnd' <= Len(stream')
    BY <1>6, <2>1
  <2>3. ~Partial'
    BY <2>1 DEF Partial
  <2> QED BY <1>6, <1>9, <1>10, <2>1, <2>2, <2>3 DEF SentInv
<1> QED BY <1>4, <1>7, <1>11 DEF StreamInv

\* What a sender leaves that waits in the middle of a frame changes nothing
\* either, but that it is there.
LEMMA StuckSent ==
    ASSUME StreamInv, NEW p \in Payloads, SendStuck(p)
    PROVE  StreamInv' /\ (PosInv => PosInv') /\ Partial'
<1>1. PICK m \in 1 .. (Len(Frame(p)) - 1) :
          stream' = stream \o SubSeq(Frame(p), 1, m)
    BY DEF SendStuck
<1>2. /\ ~Partial /\ closed' = closed /\ frames' = frames /\ ends' = ends
      /\ UNCHANGED reading
    BY DEF SendStuck
<1>3. PICK n \in Nat, e \in Nat : n = Len(stream) /\ e = Len(ends)
    BY DEF StreamInv, TypeInv, TypeOK
<1> DEFINE r == SubSeq(Frame(p), 1, m)
<1>4. r \in Seq(Symbols) /\ Len(r) = m /\ m \in Nat /\ m > 0
  <2>1. /\ Frame(p) \in Seq(Symbols) /\ Len(Frame(p)) = Len(p) + 4
        /\ Len(p) \in Nat
    BY FrameChars
  <2>2. m \in 0 .. Len(Frame(p)) /\ m > 0
    BY <2>1
  <2>3. r \in Seq(Symbols) /\ Len(r) = m
    BY <2>1, <2>2, SubstrFront
  <2> HIDE DEF r
  <2> QED BY <2>1, <2>2, <2>3
<1> HIDE DEF r
<1>5. stream' = stream \o r
    BY <1>1 DEF r
<1>6. /\ stream' \in Seq(Symbols) /\ Len(stream') = n + m
      /\ \A l \in 1 .. n : stream'[l] = stream[l]
      /\ PosInv => PosInv'
    BY <1>2, <1>3, <1>4, <1>5, SendsBehind
<1>7. TypeInv /\ SentInv /\ DOMAIN ends = 1 .. e /\ Len(ends) = e
    BY <1>3 DEF StreamInv, TypeInv, TypeOK
<1>8. TypeInv'
  <2>1. pos' \in 0 .. Len(stream')
    BY <1>2, <1>3, <1>4, <1>6, <1>7 DEF TypeInv, TypeOK, reading
  <2>2. TypeOK'
    BY <1>2, <1>7, <2>1 DEF TypeInv, TypeOK, reading
  <2> QED BY <1>2, <1>6, <1>7, <2>2 DEF TypeInv, reading
<1>9. \A k \in 1 .. e : FrameAt(k)'
  <2>1. Len(stream) <= Len(stream')
    BY <1>3, <1>4, <1>6
  <2> QED BY <1>2, <1>3, <1>6, <1>7, <2>1, FrameStays
<1>10. LastEnd' = n
  <2>1. LastEnd' = LastEnd
    BY <1>2 DEF LastEnd, Start
  <2> QED BY <1>2, <1>3, <2>1, NothingLeft
<1>11. SentInv'
  <2>1. DOMAIN ends' = 1 .. e /\ Len(ends') = Len(frames')
    BY <1>2, <1>7 DEF SentInv
  <2>2. LastEnd' <= Len(stream')
    BY <1>3, <1>4, <1>6, <1>10
  <2>3. \A j, k \in 1 .. e : j < k => ends'[j] < ends'[k]
    BY <1>2, <1>7 DEF SentInv
  <2> QED BY <1>9, <2>1, <2>2, <2>3 DEF SentInv
<1>12. Partial'
    BY <1>3, <1>4, <1>6, <1>10 DEF Partial
<1> QED BY <1>6, <1>8, <1>11, <1>12 DEF StreamInv

\* The sender ends.
LEMMA Closes ==
    ASSUME StreamInv, Close
    PROVE  StreamInv' /\ (PosInv => PosInv')
<1>1. closed' = TRUE /\ UNCHANGED <<frames, ends, stream, reading>>
    BY DEF Close
<1>2. TypeInv'
    BY <1>1 DEF StreamInv, TypeInv, TypeOK, reading
<1>3. SentInv'
    BY <1>1 DEF StreamInv, SentInv, FrameAt, LastEnd, Start
<1>4. PosInv => PosInv'
  <2> SUFFICES ASSUME PosInv PROVE PosInv'
    OBVIOUS
  <2>1. PICK t \in 0 .. Len(ends) : Position(t)
    BY DEF PosInv
  <2>2. Position(t)'
    BY <1>1, <2>1
    DEF Position, Within, Exhausted, Partial, LastEnd, Partly, Start, reading
  <2> QED BY <1>1, <2>2 DEF PosInv
<1> QED BY <1>2, <1>3, <1>4 DEF StreamInv

-----------------------------------------------------------------------------
(* How far a read gets. *)

\* In front of the end of the next frame there is no end tag.
LEMMA NoEndBefore ==
    ASSUME StreamInv, NEW t \in 0 .. Len(ends), t < Len(ends),
           NEW m \in Nat, m < ends[t + 1]
    PROVE  \A l \in Start(t + 1) + 1 .. m : stream[l] # "E"
<1> SUFFICES ASSUME NEW l \in Start(t + 1) + 1 .. m PROVE stream[l] # "E"
    OBVIOUS
<1>1. /\ ends \in Seq(Nat) /\ Len(ends) \in Nat /\ Len(stream) \in Nat
      /\ frames \in Seq(Payloads) /\ Len(frames) = Len(ends) /\ SentInv /\ TypeInv
    BY DEF StreamInv, TypeInv, TypeOK, SentInv
<1>2. t + 1 \in 1 .. Len(ends) + 1 /\ t + 1 \in DOMAIN ends
      /\ t + 1 \in 1 .. Len(frames)
    BY <1>1
<1>3. PICK b \in Nat : b = Start(t + 1)
  <2>1. Start(t + 1) \in 0 .. Len(stream)
    BY <1>1, <1>2, StartInStream
  <2> QED BY <1>1, <2>1
<1>4. FrameAt(t + 1)
    BY <1>1, <1>2 DEF SentInv
<1>5. PICK p \in Payloads : p = frames[t + 1]
    BY <1>1, <1>2
<1>6. Len(p) \in Nat /\ \A i \in 1 .. Len(p) + 3 : Frame(p)[i] # "E"
    BY FrameChars
<1>7. /\ ends[t + 1] = b + Len(p) + 4
      /\ \A i \in 1 .. Len(p) + 4 : stream[b + i] = Frame(p)[i]
    BY <1>3, <1>4, <1>5 DEF FrameAt
<1>8. l - b \in 1 .. Len(p) + 3 /\ b + (l - b) = l
  <2>1. l \in b + 1 .. m /\ m < b + Len(p) + 4
    BY <1>3, <1>7
  <2> QED BY <1>6, <2>1
<1>9. l - b \in 1 .. Len(p) + 4
    BY <1>6, <1>8
<1>10. stream[b + (l - b)] = Frame(p)[l - b]
    BY <1>7, <1>9
<1> QED BY <1>6, <1>8, <1>10

\* Some frames end in what was read, and are the first.
LEMMA SomeWithin ==
    ASSUME StreamInv, NEW n \in Nat
    PROVE  \E u \in 0 .. Len(ends) : Within(u, n)
<1>1. /\ ends \in Seq(Nat) /\ Len(ends) \in Nat /\ DOMAIN ends = 1 .. Len(ends)
      /\ \A j, k \in DOMAIN ends : j < k => ends[j] < ends[k]
    BY DEF StreamInv, TypeInv, TypeOK, SentInv
<1>2. \A k \in DOMAIN ends : ends[k] \in Nat
    BY <1>1
<1> DEFINE K == {k \in DOMAIN ends : n < ends[k]}
<1>3. PICK u \in 0 .. Len(ends) : \A k \in DOMAIN ends : ends[k] <= n <=> k <= u
  <2>1. CASE K = {}
    <3>1. \A k \in DOMAIN ends : ends[k] <= n /\ k <= Len(ends)
      BY <1>1, <1>2, <2>1
    <3>2. Len(ends) \in 0 .. Len(ends)
      BY <1>1
    <3> QED BY <3>1, <3>2
  <2>2. CASE K # {}
    <3>1. K \in SUBSET Nat
      BY <1>1
    <3> HIDE DEF K
    <3>2. PICK m \in K : \A k \in K : m <= k
      <4>1. IsWellFoundedOn(OpToRel(<, Nat), Nat)
        BY NatLessThanWellFounded
      <4>2. PICK m \in K : \A k \in K : ~(<<k, m>> \in OpToRel(<, Nat))
        BY <2>2, <3>1, <4>1, WFMin
      <4>3. \A k \in K : ~(k < m)
        BY <3>1, <4>2 DEF OpToRel
      <4> QED BY <3>1, <4>3
    <3>3. m \in DOMAIN ends /\ n < ends[m]
      BY <3>2 DEF K
    <3>4. m - 1 \in 0 .. Len(ends)
      BY <1>1, <3>3
    <3>5. ASSUME NEW k \in DOMAIN ends PROVE ends[k] <= n <=> k <= m - 1
      <4>1. CASE k \in K
        <5>1. n < ends[k] /\ m <= k
          BY <3>2, <4>1 DEF K
        <5> QED BY <1>1, <1>2, <3>3, <5>1
      <4>2. CASE k \notin K
        <5>1. ends[k] <= n
          BY <1>2, <4>2 DEF K
        <5>2. ~(m < k)
          BY <1>1, <1>2, <3>3, <5>1
        <5>3. m # k
          BY <1>2, <3>3, <5>1
        <5> QED BY <1>1, <3>3, <5>1, <5>2, <5>3
      <4> QED BY <4>1, <4>2
    <3> QED BY <3>4, <3>5
  <2> QED BY <2>1, <2>2
<1>4. Start(u + 1) <= n
  <2>1. CASE u = 0
    BY <2>1 DEF Start
  <2>2. CASE u # 0
    <3>1. u \in DOMAIN ends /\ u <= u /\ u + 1 # 1 /\ (u + 1) - 1 = u
      BY <1>1, <2>2
    <3> QED BY <1>3, <3>1 DEF Start
  <2> QED BY <2>1, <2>2
<1> QED BY <1>3, <1>4 DEF Within

\* A read of n characters, with t frames in front of it, and u then: it gets the
\* end of the next frame, or it fills the buffer without it, and nothing stands
\* behind the buffer.
Reaches(t, u, n, w) ==
    \/ /\ u > t
       /\ ends[t + 1] <= pos + n
       /\ pos + n = Start(u + 1) \/ Exhausted(u)
    \/ /\ u = t
       /\ n = bufsize /\ w = <<>>
       /\ pos + n < ends[t + 1]

\* Every read that mixes up no frames does one of these, while there is a next
\* frame.
LEMMA PieceReaches ==
    ASSUME StreamInv, Whole = TRUE, NEW t \in 0 .. Len(ends), t < Len(ends),
           Within(t, pos), NEW n \in 1 .. bufsize, Piece(n),
           NEW w, ~Strays(n, w)
    PROVE  \E u \in t .. Len(ends) : Within(u, pos + n) /\ Reaches(t, u, n, w)
<1>1. /\ ends \in Seq(Nat) /\ Len(ends) \in Nat /\ Len(stream) \in Nat
      /\ SentInv /\ TypeInv /\ pos \in Nat /\ n \in Nat /\ n > 0
      /\ pos + n \in Nat /\ pos + n <= Len(stream)
      /\ DOMAIN ends = 1 .. Len(ends) /\ t \in Nat
    BY FramingAssumption DEF StreamInv, TypeInv, TypeOK, Piece
<1>2. \A k \in DOMAIN ends : ends[k] \in Nat /\ ends[k] <= Len(stream)
    BY <1>1 DEF SentInv, FrameAt
<1>3. PICK u \in 0 .. Len(ends) : Within(u, pos + n)
    BY <1>1, SomeWithin
<1>4. u \in t .. Len(ends)
  <2>1. CASE t = 0
    BY <1>1, <2>1
  <2>2. CASE t # 0
    <3>1. t \in DOMAIN ends /\ t <= t
      BY <1>1, <2>2
    <3>2. ends[t] <= pos
      BY <3>1 DEF Within
    <3>3. ends[t] <= pos + n
      BY <1>1, <1>2, <3>1, <3>2
    <3>4. t <= u
      BY <1>3, <3>1, <3>3 DEF Within
    <3> QED BY <1>1, <3>4
  <2> QED BY <2>1, <2>2
<1>5. t + 1 \in DOMAIN ends
    BY <1>1
<1>6. CASE u = t
  <2>1. \A k \in DOMAIN ends : ends[k] \notin (pos + 1) .. (pos + n)
    <3> SUFFICES ASSUME NEW k \in DOMAIN ends, ends[k] <= pos + n
                 PROVE  ends[k] <= pos
      BY <1>1, <1>2
    <3>1. k <= t
      BY <1>3, <1>6 DEF Within
    <3> QED BY <3>1 DEF Within
  <2>2. pos + n < ends[t + 1]
    <3>1. ~(ends[t + 1] <= pos + n)
      <4>1. ~(t + 1 <= t)
        BY <1>1
      <4> QED BY <1>3, <1>5, <1>6, <4>1 DEF Within
    <3> QED BY <1>1, <1>2, <1>5, <3>1
  <2>3. n = bufsize
    <3>1. ~(\E k \in DOMAIN ends : ends[k] = pos + n)
      BY <1>1, <2>1
    <3>2. pos + n # Len(stream)
      <4>1. ends[t + 1] \in Nat /\ ends[t + 1] <= Len(stream)
        BY <1>2, <1>5
      <4> QED BY <1>1, <2>2, <4>1
    <3> QED BY <3>1, <3>2 DEF Piece
  <2>4. w = <<>>
    BY <2>1, <2>3 DEF Strays
  <2> QED BY <1>3, <1>4, <1>6, <2>2, <2>3, <2>4 DEF Reaches
<1>7. CASE u # t
  <2>1. u > t /\ u \in DOMAIN ends /\ t + 1 <= u /\ u + 1 # 1 /\ (u + 1) - 1 = u
    BY <1>1, <1>4, <1>7
  <2>2. ends[t + 1] <= pos + n
    BY <1>3, <1>5, <2>1 DEF Within
  <2>3. Start(u + 1) = ends[u] /\ ends[u] <= pos + n
    BY <1>3, <2>1 DEF Within, Start
  <2>4. pos + n = Start(u + 1) \/ Exhausted(u)
    <3>0. ends[u] \in Nat /\ (ends[u] < pos + n \/ ends[u] = pos + n)
      <4>1. ends[u] \in Nat
        BY <1>2, <2>1
      <4>2. \A i, j \in Nat : i <= j => i < j \/ i = j
        OBVIOUS
      <4>3. pos + n \in Nat
        BY <1>1
      <4> QED BY <2>3, <4>1, <4>2, <4>3, Zenon
    <3> SUFFICES ASSUME ends[u] < pos + n PROVE Exhausted(u)
      BY <2>3, <3>0
    <3>1. CASE u = Len(ends)
      <4>1. LastEnd = ends[u]
        BY <2>3, <3>1 DEF LastEnd
      <4>2. Partial
        <5>1. pos + n <= Len(stream) /\ pos + n \in Nat /\ Len(stream) \in Nat
          BY <1>1
        <5>2. ends[u] < Len(stream)
          BY <3>0, <5>1
        <5> QED BY <4>1, <5>2 DEF Partial
      <4> QED BY <3>1, <4>2 DEF Exhausted
    <3>2. CASE u # Len(ends)
      <4>1. u + 1 \in DOMAIN ends /\ ~(u + 1 <= u)
        <5>1. \A e \in Nat : \A v \in 1 .. e :
                 v # e => v + 1 \in 1 .. e /\ ~(v + 1 <= v)
          OBVIOUS
        <5>2. Len(ends) \in Nat /\ u \in 1 .. Len(ends) /\ DOMAIN ends = 1 .. Len(ends)
          BY <1>1, <2>1
        <5> QED BY <3>2, <5>1, <5>2, Zenon
      <4>2. pos + n < ends[u + 1]
        <5>1. ~(ends[u + 1] <= pos + n)
          BY <1>3, <4>1 DEF Within
        <5> QED BY <1>1, <1>2, <4>1, <5>1
      <4>3. pos < ends[u]
        <5>1. ~(ends[u] <= pos)
          <6>1. ~(u <= t)
            BY <1>1, <1>3, <2>1
          <6> QED BY <2>1, <6>1 DEF Within
        <5> QED BY <1>1, <1>2, <2>1, <5>1
      <4> QED BY <2>3, <4>1, <4>2, <4>3 DEF Strays
    <3> QED BY <3>1, <3>2
  <2> QED BY <1>3, <1>4, <2>1, <2>2, <2>4 DEF Reaches
<1> QED BY <1>6, <1>7

\* The string that begins in a buffer after a read of n characters begins with
\* them, and is no longer than the buffer and what stands behind it.
LEMMA FilledBuffer ==
    ASSUME StreamInv, NEW b \in [1 .. bufsize -> Chars], NEW w \in Behind,
           NEW n \in 1 .. bufsize, pos + n <= Len(stream)
    PROVE  /\ Filled(b, n) \in [1 .. bufsize -> Chars]
           /\ Len(w) \in Nat
           /\ string(Filled(b, n) \o w) \in Seq(Chars)
           /\ Len(string(Filled(b, n) \o w)) \in n .. bufsize + Len(w)
           /\ \A l \in 1 .. n : string(Filled(b, n) \o w)[l] = stream[pos + l]
<1>1. /\ bufsize \in Nat \ {0} /\ stream \in Seq(Symbols) /\ pos \in Nat
      /\ n \in 1 .. bufsize /\ Len(stream) \in Nat
    BY FramingAssumption DEF StreamInv, TypeInv, TypeOK
<1>2. \A l \in 1 .. n : stream[pos + l] \in Symbols
  <2> SUFFICES ASSUME NEW l \in 1 .. n PROVE stream[pos + l] \in Symbols
    OBVIOUS
  <2>1. pos + l \in 1 .. Len(stream)
    BY <1>1
  <2> QED BY <1>1, <2>1
<1>3. NUL \notin Symbols /\ Symbols \subseteq Chars /\ NUL \in Chars
  <2>1. NUL \notin Letters /\ NUL \notin {"<", "B", "E"}
    BY FramingAssumption DEF NUL
  <2> QED BY <2>1 DEF Symbols, Chars
<1>4. \A l \in 1 .. bufsize :
         Filled(b, n)[l] = IF l <= n THEN stream[pos + l] ELSE b[l]
    BY DEF Filled
<1>5. Filled(b, n) \in [1 .. bufsize -> Chars]
  <2>1. \A l \in 1 .. bufsize : l <= n => l \in 1 .. n
    BY <1>1
  <2>2. \A l \in 1 .. bufsize :
           (IF l <= n THEN stream[pos + l] ELSE b[l]) \in Chars
    BY <1>2, <1>3, <2>1
  <2> QED BY <2>2 DEF Filled
<1>6. PICK f \in Seq(Chars) : f = Filled(b, n) /\ Len(f) = bufsize
    BY <1>1, <1>5
<1>7. w \in Seq(Chars) /\ Len(w) \in Nat
  <2>1. w \in Seq(Symbols)
    BY FramingAssumption DEF Symbols
  <2> QED BY <1>3, <2>1, SeqMonotonic
<1>8. PICK x \in Seq(Chars) :
         /\ x = f \o w /\ Len(x) = bufsize + Len(w)
         /\ \A l \in 1 .. bufsize + Len(w) :
               x[l] = IF l <= bufsize THEN f[l] ELSE w[l - bufsize]
  <2>1. /\ f \o w \in Seq(Chars) /\ Len(f \o w) = Len(f) + Len(w)
        /\ \A l \in 1 .. Len(f) + Len(w) :
              (f \o w)[l] = IF l <= Len(f) THEN f[l] ELSE w[l - Len(f)]
    BY <1>7, ConcatProperties
  <2> QED BY <1>6, <2>1
<1>9. PICK m \in 0 .. Len(x) : /\ string(x) = SubSeq(x, 1, m)
                               /\ \A l \in 1 .. m : x[l] # NUL
                               /\ m < Len(x) => x[m + 1] = NUL
    BY <1>3, StringFront
<1>10. \A l \in 1 .. n : x[l] = stream[pos + l]
  <2> SUFFICES ASSUME NEW l \in 1 .. n PROVE x[l] = stream[pos + l]
    OBVIOUS
  <2>1. l \in 1 .. bufsize /\ l \in 1 .. bufsize + Len(w) /\ l <= bufsize /\ l <= n
    BY <1>1, <1>7
  <2> QED BY <1>4, <1>6, <1>8, <2>1
<1>11. m \in n .. bufsize + Len(w)
  <2>1. m \in 0 .. bufsize + Len(w)
    BY <1>8
  <2> SUFFICES ASSUME m < n PROVE FALSE
    BY <1>1, <2>1
  <2>2. m + 1 \in 1 .. n /\ m < Len(x)
    BY <1>1, <1>7, <1>8
  <2> QED BY <1>2, <1>3, <1>9, <1>10, <2>2
<1>12. /\ string(x) \in Seq(Chars) /\ Len(string(x)) = m
       /\ \A l \in 1 .. m : string(x)[l] = x[l]
    BY <1>9, SubstrFront
<1>13. \A l \in 1 .. n : string(x)[l] = stream[pos + l]
  <2> SUFFICES ASSUME NEW l \in 1 .. n PROVE string(x)[l] = stream[pos + l]
    OBVIOUS
  <2>1. l \in 1 .. m
    BY <1>1, <1>11
  <2> QED BY <1>10, <1>12, <2>1
<1>14. string(Filled(b, n) \o w) = string(x)
    BY <1>6, <1>8
<1> QED BY <1>5, <1>7, <1>11, <1>12, <1>13, <1>14

\* A string that begins like the rest of the stream, and reaches the end of the
\* next frame, begins with this frame.
LEMMA BeginsWithFrame ==
    ASSUME StreamInv, NEW t \in 0 .. Len(ends), t < Len(ends),
           NEW s \in Seq(Chars), NEW m \in Nat, ends[t + 1] <= m,
           m - Start(t + 1) <= Len(s),
           \A l \in 1 .. m - Start(t + 1) : s[l] = stream[Start(t + 1) + l]
    PROVE  frames[t + 1] \in Payloads /\ StartsWith(s, Frame(frames[t + 1]))
<1>1. /\ ends \in Seq(Nat) /\ Len(ends) \in Nat /\ Len(stream) \in Nat
      /\ frames \in Seq(Payloads) /\ Len(frames) = Len(ends) /\ SentInv /\ TypeInv
    BY DEF StreamInv, TypeInv, TypeOK, SentInv
<1>2. t + 1 \in DOMAIN ends /\ t + 1 \in 1 .. Len(frames) /\ t + 1 \in 1 .. Len(ends) + 1
    BY <1>1
<1>3. PICK a \in Nat : a = Start(t + 1)
  <2>1. Start(t + 1) \in 0 .. Len(stream)
    BY <1>1, <1>2, StartInStream
  <2> QED BY <1>1, <2>1
<1>4. PICK p \in Payloads : p = frames[t + 1]
    BY <1>1, <1>2
<1>5. FrameAt(t + 1)
    BY <1>1, <1>2 DEF SentInv
<1>6. Len(p) \in Nat /\ Len(Frame(p)) = Len(p) + 4
    BY FrameChars
<1>7. /\ ends[t + 1] = a + Len(p) + 4
      /\ \A i \in 1 .. Len(p) + 4 : stream[a + i] = Frame(p)[i]
    BY <1>3, <1>4, <1>5 DEF FrameAt
<1>8. Len(s) \in Nat /\ Len(p) + 4 <= m - a /\ Len(p) + 4 <= Len(s)
  <2>1. a + Len(p) + 4 <= m /\ m - a <= Len(s)
    BY <1>3, <1>7
  <2>2. Len(p) \in Nat /\ a \in Nat /\ Len(s) \in Nat
    BY <1>3, <1>6
  <2> QED BY <2>1, <2>2
<1>9. \A l \in 1 .. Len(p) + 4 : s[l] = Frame(p)[l]
  <2> SUFFICES ASSUME NEW l \in 1 .. Len(p) + 4 PROVE s[l] = Frame(p)[l]
    OBVIOUS
  <2>1. l \in 1 .. m - a
    BY <1>3, <1>6, <1>8
  <2> QED BY <1>3, <1>7, <2>1
<1> QED BY <1>4, <1>6, <1>8, <1>9 DEF StartsWith

-----------------------------------------------------------------------------
(* What a read does. *)

\* The call hands the next frame on, and ends.
TakesFrame(t, u) ==
    /\ u > t
    /\ handled' = Append(handled, frames[t + 1])
    /\ busy' = FALSE /\ running' = TRUE
    /\ pos' = Start(u + 1) \/ Exhausted(u)

\* The call waits for more.
GoesOn(t, u) ==
    /\ u = t
    /\ pos' > Start(t + 1)
    /\ busy' = TRUE /\ running' = TRUE
    /\ handled' = handled
    /\ msg' = SubSeq(stream, Start(t + 1) + 1, pos')

\* The call makes something of the part of a frame, or waits for more.
TakesPart(t, u) ==
    /\ u = t
    /\ Exhausted(t) /\ Guesses
    /\ busy' => running'

\* A read with t frames behind it, and u then.
Outcome(t, u) ==
    /\ Within(u, pos')
    /\ TakesFrame(t, u) \/ GoesOn(t, u) \/ TakesPart(t, u)

\* The characters of a part of a sequence.
LEMMA PartOf ==
    ASSUME NEW X, NEW s \in Seq(X), NEW a \in Nat, NEW e \in 0 .. Len(s), a <= e
    PROVE  /\ SubSeq(s, a + 1, e) \in Seq(X) /\ Len(SubSeq(s, a + 1, e)) = e - a
           /\ \A l \in 1 .. e - a : SubSeq(s, a + 1, e)[l] = s[a + l]
<1>1. a + 1 \in Int /\ e \in Int /\ Len(s) \in Nat
    OBVIOUS
<1>2. \A i \in a + 1 .. e : s[i] \in X
    BY <1>1
<1>3. /\ SubSeq(s, a + 1, e) \in Seq(X)
      /\ Len(SubSeq(s, a + 1, e)) = IF a + 1 <= e THEN e - (a + 1) + 1 ELSE 0
      /\ \A i \in 1 .. e - (a + 1) + 1 : SubSeq(s, a + 1, e)[i] = s[a + 1 + i - 1]
    BY <1>1, <1>2, SubSeqProperties
<1>4. /\ e - (a + 1) + 1 = e - a
      /\ (IF a + 1 <= e THEN e - (a + 1) + 1 ELSE 0) = e - a
      /\ \A i \in 1 .. e - a : a + 1 + i - 1 = a + i
    BY <1>1
<1> QED BY <1>3, <1>4

\* A string with these characters is this part of the stream.
LEMMA IsPart ==
    ASSUME stream \in Seq(Chars), NEW s \in Seq(Chars),
           NEW a \in Nat, NEW e \in 0 .. Len(stream), a <= e,
           Len(s) = e - a, \A l \in 1 .. e - a : s[l] = stream[a + l]
    PROVE  SubSeq(stream, a + 1, e) = s
<1>1. PICK r \in Seq(Chars) :
         /\ r = SubSeq(stream, a + 1, e) /\ Len(r) = e - a
         /\ \A l \in 1 .. e - a : r[l] = stream[a + l]
    BY PartOf
<1>2. Len(r) = Len(s) /\ \A l \in 1 .. Len(r) : r[l] = s[l]
    BY <1>1
<1>3. r = s
    BY <1>2, SeqEqual
<1> QED BY <1>1, <1>3

\* What is in c, a part of the stream from a on, and then the string g, of which
\* the first n characters are the next ones of the stream.
Continues(c, g, a, n) ==
    /\ c \o g \in Seq(Chars) /\ Len(c \o g) = (pos - a) + Len(g)
    /\ \A l \in 1 .. (pos + n) - a : (c \o g)[l] = stream[a + l]
    /\ \A l \in 1 .. Len(g) : (c \o g)[(pos - a) + l] = g[l]

\* A part of the stream up to where the reader is, with what a read gets, and more.
LEMMA PartWith ==
    ASSUME stream \in Seq(Chars), pos \in 0 .. Len(stream),
           NEW a \in Nat, a <= pos,
           NEW c \in Seq(Chars), c = SubSeq(stream, a + 1, pos), NEW g \in Seq(Chars),
           NEW n \in 0 .. Len(g), \A l \in 1 .. n : g[l] = stream[pos + l]
    PROVE  Continues(c, g, a, n)
<1>1. PICK d \in Nat, k \in Nat : d = pos - a /\ k = Len(g) /\ pos = a + d
  <2>1. pos - a \in Nat /\ pos = a + (pos - a)
    OBVIOUS
  <2>2. Len(g) \in Nat
    OBVIOUS
  <2> QED BY <2>1, <2>2, Zenon
<1>2. Len(c) = d /\ \A l \in 1 .. d : c[l] = stream[a + l]
    BY <1>1, PartOf
<1>3. /\ c \o g \in Seq(Chars) /\ Len(c \o g) = d + k
      /\ \A l \in 1 .. d + k : (c \o g)[l] = IF l <= d THEN c[l] ELSE g[l - d]
  <2>1. /\ c \o g \in Seq(Chars) /\ Len(c \o g) = Len(c) + Len(g)
        /\ \A l \in 1 .. Len(c) + Len(g) :
              (c \o g)[l] = IF l <= Len(c) THEN c[l] ELSE g[l - Len(c)]
    BY ConcatProperties
  <2> QED BY <1>1, <1>2, <2>1
<1>4. \A l \in 1 .. k : (c \o g)[d + l] = g[l]
  <2> SUFFICES ASSUME NEW l \in 1 .. k PROVE (c \o g)[d + l] = g[l]
    OBVIOUS
  <2>1. d + l \in 1 .. d + k /\ ~(d + l <= d) /\ (d + l) - d = l
    BY <1>1
  <2> QED BY <1>3, <2>1
<1>5. \A l \in 1 .. d + n : (c \o g)[l] = stream[a + l]
  <2> SUFFICES ASSUME NEW l \in 1 .. d + n PROVE (c \o g)[l] = stream[a + l]
    OBVIOUS
  <2>1. n \in Nat /\ n <= k /\ l \in 1 .. d + k
    BY <1>1
  <2>2. CASE l <= d
    <3>1. l \in 1 .. d
      BY <2>1, <2>2
    <3> QED BY <1>2, <1>3, <2>1, <2>2, <3>1
  <2>3. CASE ~(l <= d)
    <3>1. l - d \in 1 .. n /\ pos + (l - d) = a + l
      BY <1>1, <2>1, <2>3
    <3> QED BY <1>3, <2>1, <2>3, <3>1
  <2> QED BY <2>2, <2>3
<1>6. (pos + n) - a = d + n
    BY <1>1
<1> QED BY <1>1, <1>3, <1>4, <1>5, <1>6 DEF Continues

\* What a call has after a read of n characters: c, which it had, with the
\* string that begins in the buffer.
Gathered(t, c, b, w, n) ==
    \E a \in Nat, g \in Seq(Chars), s \in Seq(Chars) :
       /\ a = Start(t + 1) /\ s = c \o string(Filled(b, n) \o w)
       /\ Len(g) \in n .. bufsize + Len(w) /\ Len(s) = (pos - a) + Len(g)
       /\ \A l \in 1 .. (pos + n) - a : s[l] = stream[a + l]

LEMMA Gathers ==
    ASSUME StreamInv, NEW t \in 0 .. Len(ends), NEW c \in Seq(Chars),
           c = SubSeq(stream, Start(t + 1) + 1, pos), Start(t + 1) <= pos,
           NEW b \in [1 .. bufsize -> Chars], NEW w \in Behind,
           NEW n \in 1 .. bufsize, pos + n <= Len(stream)
    PROVE  Gathered(t, c, b, w, n)
<1>1. /\ bufsize \in Nat \ {0} /\ stream \in Seq(Symbols) /\ pos \in Nat
      /\ n \in Nat /\ Len(stream) \in Nat /\ pos <= Len(stream)
      /\ SentInv /\ TypeInv /\ Len(ends) \in Nat
    BY FramingAssumption DEF StreamInv, TypeInv, TypeOK
<1>2. PICK a \in Nat : a = Start(t + 1)
  <2>1. t + 1 \in 1 .. Len(ends) + 1
    BY <1>1
  <2>2. Start(t + 1) \in 0 .. Len(stream)
    BY <1>1, <2>1, StartInStream
  <2> QED BY <1>1, <2>2
<1>3. PICK g \in Seq(Chars) :
         /\ g = string(Filled(b, n) \o w)
         /\ Len(g) \in n .. bufsize + Len(w)
         /\ \A l \in 1 .. n : g[l] = stream[pos + l]
    BY FilledBuffer, SMTT(30)
<1>4. n \in 0 .. Len(g)
  <2>1. Len(w) \in Nat
    BY FilledBuffer
  <2> QED BY <1>1, <1>3, <2>1
<1>5. Continues(c, g, a, n)
  <2>1. stream \in Seq(Chars)
    BY <1>1, SeqMonotonic DEF Chars
  <2>2. pos \in 0 .. Len(stream)
    BY <1>1
  <2>3. a <= pos /\ c = SubSeq(stream, a + 1, pos)
    BY <1>2
  <2> QED BY <1>3, <1>4, <2>1, <2>2, <2>3, PartWith
<1> QED BY <1>2, <1>3, <1>5 DEF Continues, Gathered

\* Where a read of n characters behind q ends, from a on.
LEMMA EndOf ==
    ASSUME NEW a \in Nat, NEW q \in Nat, NEW n \in Nat, NEW g \in Nat,
           a <= q, n > 0, n <= g
    PROVE  /\ (q + n) - a \in Nat /\ (q + n) - a <= (q - a) + g
           /\ a <= q + n /\ a < q + n
OBVIOUS

\* While there is a next frame, and frames are not mixed up, a read of a call
\* that holds the beginning of this frame takes it, or holds more of it.
LEMMA CallOutcome ==
    ASSUME StreamInv, Whole = TRUE, running,
           NEW t \in 0 .. Len(ends), t < Len(ends), Within(t, pos),
           NEW c \in Seq(Chars), c = SubSeq(stream, Start(t + 1) + 1, pos),
           NEW b \in [1 .. bufsize -> Chars], NEW w \in Behind,
           NEW n \in 1 .. bufsize, Piece(n), ~Strays(n, w),
           buffer' = Filled(b, n), pos' = pos + n,
           Collect(c \o string(buffer' \o w))
    PROVE  \E u \in t .. Len(ends) : Outcome(t, u)
<1>1. /\ bufsize \in Nat \ {0} /\ stream \in Seq(Symbols) /\ pos \in Nat
      /\ n \in Nat /\ n > 0 /\ Len(stream) \in Nat /\ pos + n <= Len(stream)
      /\ running = TRUE /\ t \in Nat
  <2>1. /\ stream \in Seq(Symbols) /\ pos \in 0 .. Len(stream) /\ ends \in Seq(Nat)
        /\ running \in BOOLEAN
    BY DEF StreamInv, TypeInv, TypeOK
  <2>2. pos + n <= Len(stream)
    BY DEF Piece
  <2> QED BY <2>1, <2>2, FramingAssumption
<1>2. PICK a \in Nat, g \in Seq(Chars), s \in Seq(Chars) :
         /\ a = Start(t + 1) /\ s = c \o string(Filled(b, n) \o w)
         /\ Len(g) \in n .. bufsize + Len(w) /\ Len(s) = (pos - a) + Len(g)
         /\ \A l \in 1 .. (pos + n) - a : s[l] = stream[a + l]
  <2>1. Start(t + 1) <= pos
    BY DEF Within
  <2>2. pos + n <= Len(stream)
    BY <1>1
  <2>3. Gathered(t, c, b, w, n)
    BY <2>1, <2>2, Gathers
  <2> QED BY <2>3 DEF Gathered
<1>3. a <= pos /\ Collect(s) /\ msg' = s
  <2>1. a <= pos
    BY <1>2 DEF Within
  <2>2. Collect(s)
    BY <1>2
  <2> QED BY <2>1, <2>2 DEF Collect
<1>4. PICK e \in 0 .. Len(stream) : e = pos + n /\ pos' = e
    BY <1>1
<1>5. PICK u \in t .. Len(ends) : Within(u, e) /\ Reaches(t, u, n, w)
    BY <1>4, PieceReaches
<1>6. Len(w) \in Nat
    BY <1>1, FilledBuffer
<1>7. e - a \in Nat /\ e - a <= Len(s) /\ a <= e /\ a < e
  <2>1. n <= Len(g) /\ Len(g) \in Nat
    BY <1>1, <1>2, <1>6
  <2>2. Len(s) = (pos - a) + Len(g) /\ a \in Nat
    BY <1>2
  <2>3. e = pos + n /\ a <= pos /\ pos \in Nat /\ n \in Nat /\ n > 0
    BY <1>1, <1>3, <1>4
  <2>4. /\ (pos + n) - a \in Nat /\ (pos + n) - a <= (pos - a) + Len(g)
        /\ a <= pos + n /\ a < pos + n
    BY <2>1, <2>2, <2>3, EndOf
  <2> QED BY <2>2, <2>3, <2>4, Zenon
<1>8. \A l \in 1 .. e - a : s[l] = stream[a + l]
    BY <1>2, <1>4
<1>9. CASE u > t
  <2>1. ends[t + 1] <= e /\ (e = Start(u + 1) \/ Exhausted(u))
    BY <1>1, <1>4, <1>5, <1>9 DEF Reaches
  <2>2. PICK p \in Payloads : p = frames[t + 1] /\ StartsWith(s, Frame(p))
    <3>1. e \in Nat /\ e - Start(t + 1) <= Len(s)
      BY <1>1, <1>2, <1>4, <1>7
    <3>2. \A l \in 1 .. e - Start(t + 1) : s[l] = stream[Start(t + 1) + l]
      BY <1>2, <1>8
    <3> QED BY <2>1, <3>1, <3>2, BeginsWithFrame
  <2>3. ~busy' /\ running' = running /\ handled' = Append(handled, p)
    BY <1>3, <2>2, CallHandles
  <2>4. busy' \in BOOLEAN
    BY <1>3 DEF Collect, Complete
  <2>5. TakesFrame(t, u)
    BY <1>1, <1>4, <1>9, <2>1, <2>2, <2>3, <2>4 DEF TakesFrame
  <2> QED BY <1>4, <1>5, <2>5 DEF Outcome
<1>10. CASE u = t
  <2>1. n = bufsize /\ w = <<>> /\ e < ends[t + 1]
    BY <1>4, <1>5, <1>10 DEF Reaches
  <2>2. Len(s) = e - a
    <3>1. Len(w) = 0
      BY <2>1
    <3>2. Len(g) = n
      BY <1>1, <1>2, <2>1, <3>1
    <3>3. Len(s) = (pos - a) + Len(g) /\ a \in Nat
      BY <1>2
    <3>4. e = pos + n /\ pos \in Nat /\ n \in Nat
      BY <1>1, <1>4
    <3> QED BY <3>2, <3>3, <3>4
  <2>3. \A l \in 1 .. Len(s) : s[l] # "E"
    <3> SUFFICES ASSUME NEW l \in 1 .. e - a PROVE s[l] # "E"
      BY <2>2
    <3>1. a + l \in a + 1 .. e
      BY <1>7
    <3>2. \A i \in Start(t + 1) + 1 .. e : stream[i] # "E"
      <4>1. e \in Nat
        BY <1>1
      <4> QED BY <2>1, <4>1, NoEndBefore
    <3> QED BY <1>2, <1>8, <3>1, <3>2
  <2>4. SubSeq(stream, a + 1, e) = s
    <3>1. stream \in Seq(Chars)
      BY <1>1, SeqMonotonic DEF Chars
    <3> QED BY <1>7, <1>8, <2>2, <3>1, IsPart
  <2>5. busy' /\ UNCHANGED <<handled, running>>
    BY <1>3, <2>3, CallGoesOn
  <2>6. busy' \in BOOLEAN
    BY <1>3 DEF Collect, Complete
  <2>7. pos' > Start(t + 1)
    BY <1>1, <1>2, <1>4, <1>7
  <2>8. GoesOn(t, u)
    BY <1>1, <1>2, <1>3, <1>4, <1>10, <2>4, <2>5, <2>6, <2>7 DEF GoesOn
  <2> QED BY <1>4, <1>5, <2>8 DEF Outcome
<1>11. u > t \/ u = t
  <2>1. u \in Nat /\ t <= u
    BY <1>1, <1>5
  <2> QED BY <1>1, <2>1
<1> QED BY <1>9, <1>10, <1>11

\* Whatever is handed on keeps its type.
LEMMA GuessesTyped ==
    ASSUME handled \in Seq(Seq(Chars)), Guesses
    PROVE  handled' \in Seq(Seq(Chars)) /\ running' \in BOOLEAN
<1>1. \A h \in Seq(Chars) : Append(handled, h) \in Seq(Seq(Chars))
    OBVIOUS
<1> QED BY <1>1 DEF Guesses

\* A reader takes nothing back from the stream.
LEMMA SentStays ==
    ASSUME SentInv, UNCHANGED <<side, sent>>
    PROVE  SentInv' /\ Partial' = Partial
<1>1. UNCHANGED <<frames, ends, stream, closed>>
    BY DEF sent
<1>2. \A k \in DOMAIN ends : FrameAt(k) => FrameAt(k)'
    BY <1>1 DEF FrameAt, Start
<1>3. LastEnd' = LastEnd
    BY <1>1 DEF LastEnd, Start
<1>4. Partial' = Partial
    BY <1>1, <1>3 DEF Partial
<1> QED BY <1>1, <1>2, <1>3, <1>4 DEF SentInv

\* What every read does, wherever it ends and whatever is in the memory.
LEMMA ReadKeeps ==
    ASSUME StreamInv, running, NEW c \in Seq(Chars),
           NEW b \in [1 .. bufsize -> Chars], NEW n \in 1 .. bufsize, Read(c, b, n)
    PROVE  /\ StreamInv' /\ Guesses /\ UNCHANGED <<side, sent>>
           /\ pos' \in pos .. Len(stream)
           /\ busy' => running'
           /\ astray' \in BOOLEAN /\ (astray => astray')
<1>1. /\ bufsize \in Nat \ {0} /\ stream \in Seq(Symbols) /\ pos \in Nat
      /\ n \in Nat /\ Len(stream) \in Nat /\ pos <= Len(stream)
      /\ SentInv /\ TypeInv /\ TypeOK /\ running \in BOOLEAN
      /\ side \in {"server", "client"} /\ handled \in Seq(Seq(Chars))
      /\ astray \in BOOLEAN
    BY FramingAssumption DEF StreamInv, TypeInv, TypeOK
<1>2. /\ pos + n <= Len(stream) /\ pos' = pos + n /\ buffer' = Filled(b, n)
      /\ UNCHANGED <<side, sent>>
    BY DEF Read, Piece
<1>3. PICK w \in Behind : /\ Collect(c \o string(buffer' \o w))
                          /\ astray' = (astray \/ Strays(n, w))
    BY DEF Read
<1>4. buffer' \in [1 .. bufsize -> Chars] /\ string(buffer' \o w) \in Seq(Chars)
    BY <1>2, FilledBuffer
<1>5. PICK s \in Seq(Chars) : s = c \o string(buffer' \o w)
    BY <1>4, ConcatProperties
<1>6. /\ msg' = s /\ busy' \in BOOLEAN /\ Guesses
      /\ busy' => UNCHANGED <<handled, running>>
    BY <1>1, <1>3, <1>5, CallGuesses
<1>7. handled' \in Seq(Seq(Chars)) /\ running' \in BOOLEAN
    BY <1>1, <1>6, GuessesTyped
<1>8. Strays(n, w) \in BOOLEAN
    BY DEF Strays
<1>9. TypeInv'
  <2>1. Len(buffer') = bufsize
    <3>1. \A f \in [1 .. bufsize -> Chars] : Len(f) = bufsize
      BY <1>1
    <3> QED BY <1>4, <3>1
  <2>2. pos' \in 0 .. Len(stream)
    BY <1>1, <1>2
  <2>3. astray' \in BOOLEAN
    BY <1>1, <1>3, <1>8
  <2>4. TypeOK'
    BY <1>1, <1>2, <1>6, <1>7, <2>1, <2>2, <2>3 DEF TypeOK, sent
  <2> QED BY <1>1, <1>2, <1>4, <1>5, <1>6, <1>7, <2>4 DEF TypeInv, sent
<1>10. SentInv'
    BY <1>1, <1>2, SentStays
<1>11. pos' \in pos .. Len(stream)
    BY <1>1, <1>2
<1>12. busy' => running'
    BY <1>6
<1>13. astray' \in BOOLEAN /\ (astray => astray')
    BY <1>1, <1>3, <1>8
<1> QED BY <1>2, <1>6, <1>9, <1>10, <1>11, <1>12, <1>13 DEF StreamInv

\* The buffer of a first read holds characters, whatever they are.
LEMMA NewBuffer ==
    ASSUME StreamInv, NEW b \in Stale \cup {Blank, buffer}
    PROVE  b \in [1 .. bufsize -> Chars]
<1>1. Blank \in [1 .. bufsize -> Chars]
    BY DEF Blank, Chars
<1>2. buffer \in [1 .. bufsize -> Chars]
    BY DEF StreamInv, TypeInv
<1>3. Letters \cup {"<", "B", "E", NUL} \subseteq Chars
    BY DEF Chars, Symbols
<1>4. Stale \subseteq [1 .. bufsize -> Letters \cup {"<", "B", "E", NUL}]
    BY FramingAssumption
<1>5. Stale \subseteq [1 .. bufsize -> Chars]
    BY <1>3, <1>4
<1> QED BY <1>1, <1>2, <1>5

\* So does every read of a call.
LEMMA AnyRead ==
    ASSUME StreamInv, ReadFirst \/ ReadMore
    PROVE  /\ StreamInv' /\ Guesses /\ UNCHANGED <<side, sent>>
           /\ pos' \in pos .. Len(stream)
           /\ busy' => running'
           /\ astray' \in BOOLEAN /\ (astray => astray')
<1>1. CASE ReadFirst
  <2>1. PICK n \in 1 .. bufsize, b \in Stale \cup {Blank, buffer} : Read(<<>>, b, n)
    BY <1>1 DEF ReadFirst
  <2>2. b \in [1 .. bufsize -> Chars]
    BY NewBuffer
  <2>3. running /\ <<>> \in Seq(Chars)
    BY <1>1, EmptySeq DEF ReadFirst
  <2> QED BY <2>1, <2>2, <2>3, ReadKeeps
<1>2. CASE ReadMore
  <2>1. PICK n \in 1 .. bufsize : Read(msg, buffer, n)
    BY <1>2 DEF ReadMore
  <2>2. running /\ msg \in Seq(Chars) /\ buffer \in [1 .. bufsize -> Chars]
    BY <1>2 DEF ReadMore, StreamInv, TypeInv
  <2> QED BY <2>1, <2>2, ReadKeeps
<1> QED BY <1>1, <1>2

\* A read that mixes up no frames, by a call that holds the beginning of the next.
LEMMA BeginningOutcome ==
    ASSUME StreamInv, Whole = TRUE, running,
           NEW t \in 0 .. Len(ends), t < Len(ends), Within(t, pos),
           NEW c \in Seq(Chars), c = SubSeq(stream, Start(t + 1) + 1, pos),
           NEW b \in [1 .. bufsize -> Chars],
           NEW n \in 1 .. bufsize, Read(c, b, n), ~astray'
    PROVE  \E u \in t .. Len(ends) : Outcome(t, u)
<1>1. PICK w \in Behind : /\ Collect(c \o string(buffer' \o w))
                          /\ astray' = (astray \/ Strays(n, w))
    BY DEF Read
<1>2. Piece(n) /\ buffer' = Filled(b, n) /\ pos' = pos + n
    BY DEF Read
<1>3. ~Strays(n, w)
    BY <1>1
<1> QED BY <1>1, <1>2, <1>3, CallOutcome

\* Every read that mixes up no frames does what Outcome says.
LEMMA ReadOutcome ==
    ASSUME StreamInv, Whole = TRUE, ReadFirst \/ ReadMore, ~astray',
           NEW t \in 0 .. Len(ends), Position(t)
    PROVE  \E u \in t .. Len(ends) : Outcome(t, u)
<1>1. /\ stream \in Seq(Symbols) /\ pos \in Nat /\ Len(stream) \in Nat
      /\ buffer \in [1 .. bufsize -> Chars] /\ msg \in Seq(Chars)
      /\ ends \in Seq(Nat) /\ Len(ends) \in Nat /\ t \in Nat /\ t <= Len(ends)
      /\ SentInv
    BY FramingAssumption DEF StreamInv, TypeInv, TypeOK
<1>2. Within(t, pos)
    BY DEF Position
<1>3. CASE Exhausted(t)
  <2>1. /\ Guesses /\ pos' \in pos .. Len(stream) /\ (busy' => running')
    BY AnyRead
  <2>2. Within(t, pos')
    <3>1. pos <= pos' /\ pos' \in Nat
      BY <1>1, <2>1
    <3>2. ASSUME NEW k \in DOMAIN ends PROVE ends[k] <= pos' /\ k <= t
      <4>1. k <= t
        BY <1>1, <1>3 DEF Exhausted
      <4>2. ends[k] <= pos
        BY <1>2, <4>1 DEF Within
      <4> QED BY <1>1, <3>1, <4>1, <4>2
    <3>3. Start(t + 1) <= pos'
      <4>1. Start(t + 1) <= pos
        BY <1>2 DEF Within
      <4>2. Start(t + 1) \in Nat
        <5>1. t + 1 \in 1 .. Len(ends) + 1
          BY <1>1
        <5> QED BY <1>1, <5>1 DEF Start
      <4> QED BY <1>1, <3>1, <4>1, <4>2
    <3> QED BY <3>2, <3>3 DEF Within
  <2>3. TakesPart(t, t) /\ t \in t .. Len(ends)
    BY <1>1, <1>3, <2>1 DEF TakesPart
  <2> QED BY <2>2, <2>3 DEF Outcome
<1>4. CASE ~Exhausted(t) /\ ReadFirst
  <2>1. PICK n \in 1 .. bufsize, b \in Stale \cup {Blank, buffer} : Read(<<>>, b, n)
    BY <1>4 DEF ReadFirst
  <2>2. b \in [1 .. bufsize -> Chars]
    BY NewBuffer
  <2>3. running /\ pos = Start(t + 1)
    BY <1>4 DEF ReadFirst, Position
  <2>4. t < Len(ends)
    <3> SUFFICES ASSUME t = Len(ends) PROVE FALSE
      BY <1>1
    <3>1. LastEnd = pos
      BY <2>3 DEF LastEnd
    <3>2. pos + n <= Len(stream) /\ n \in Nat /\ n > 0
      BY <2>1, FramingAssumption DEF Read, Piece
    <3>3. Partial
      BY <1>1, <3>1, <3>2 DEF Partial
    <3> QED BY <1>4, <3>3 DEF Exhausted
  <2>5. <<>> \in Seq(Chars) /\ <<>> = SubSeq(stream, Start(t + 1) + 1, pos)
    <3>1. SubSeq(stream, pos + 1, pos) = <<>>
      BY <1>1, SubSeqEmpty
    <3> QED BY <2>3, <3>1, EmptySeq
  <2> QED BY <1>2, <2>1, <2>2, <2>3, <2>4, <2>5, BeginningOutcome
<1>5. CASE ~Exhausted(t) /\ ReadMore
  <2>1. PICK n \in 1 .. bufsize : Read(msg, buffer, n)
    BY <1>5 DEF ReadMore
  <2>2. running /\ Partly(t)
    BY <1>5 DEF ReadMore, Position
  <2>3. pos > Start(t + 1) /\ msg = SubSeq(stream, Start(t + 1) + 1, pos)
    BY <2>2 DEF Partly
  <2>4. t < Len(ends)
    <3> SUFFICES ASSUME t = Len(ends) PROVE FALSE
      BY <1>1
    <3>1. pos > LastEnd /\ LastEnd \in Nat
      <4>1. Len(ends) + 1 \in 1 .. Len(ends) + 1
        BY <1>1
      <4> QED BY <1>1, <2>3, <4>1 DEF LastEnd, Start
    <3>2. pos <= Len(stream)
      BY DEF StreamInv, TypeInv, TypeOK
    <3>3. Partial
      BY <1>1, <3>1, <3>2 DEF Partial
    <3> QED BY <1>5, <3>3 DEF Exhausted
  <2> QED BY <1>1, <1>2, <2>1, <2>2, <2>3, <2>4, BeginningOutcome
<1> QED BY <1>3, <1>4, <1>5

\* What Outcome says keeps the place.
LEMMA OutcomeInv ==
    ASSUME StreamInv, UNCHANGED <<side, sent>>,
           NEW t \in 0 .. Len(ends), NEW u \in t .. Len(ends), Outcome(t, u)
    PROVE  PosInv'
<1>1. /\ UNCHANGED <<frames, ends, stream>> /\ Within(u, pos')
      /\ TakesFrame(t, u) \/ GoesOn(t, u) \/ TakesPart(t, u)
    BY DEF Outcome, sent
<1>2. u \in 0 .. Len(ends') /\ Partial' = Partial
  <2>1. ends \in Seq(Nat) /\ SentInv
    BY DEF StreamInv, TypeInv, TypeOK
  <2> QED BY <1>1, <2>1, SentStays
<1>3. Within(u, pos)' /\ Start(u + 1)' = Start(u + 1)
    BY <1>1 DEF Within, Start
<1>4. Exhausted(u) => Exhausted(u)'
    BY <1>1, <1>2 DEF Exhausted
<1>5. Position(u)'
  <2>1. CASE TakesFrame(t, u)
    BY <1>3, <1>4, <2>1 DEF TakesFrame, Position
  <2>2. CASE GoesOn(t, u)
    <3>1. u = t
      BY <2>2 DEF GoesOn
    <3>2. Partly(u)'
      BY <1>1, <1>3, <2>2, <3>1 DEF GoesOn, Partly
    <3> QED BY <1>3, <2>2, <3>2 DEF GoesOn, Position
  <2>3. CASE TakesPart(t, u)
    BY <1>3, <1>4, <2>3 DEF TakesPart, Position
  <2> QED BY <1>1, <2>1, <2>2, <2>3
<1> QED BY <1>2, <1>5 DEF PosInv

\* The invariant says how many frames are taken.
LEMMA TakenWithin ==
    ASSUME StreamInv, NEW t \in 0 .. Len(ends), Within(t, pos)
    PROVE  Taken = t
<1>1. ends \in Seq(Nat) /\ pos \in Nat
  <2>1. stream \in Seq(Symbols) /\ ends \in Seq(Nat) /\ pos \in 0 .. Len(stream)
    BY DEF StreamInv, TypeInv, TypeOK
  <2> QED BY <2>1
<1>2. \A k \in DOMAIN ends : ends[k] <= pos <=> k <= t
    BY DEF Within
<1> QED BY <1>1, <1>2, CountTaken DEF Taken

\* When the connection ends in a call, the call ends: the server gives up, the
\* client takes what it has.
LEMMA EndsCall ==
    ASSUME StreamInv, ServerEOF \/ ClientEOF
    PROVE  /\ UNCHANGED <<side, sent, pos, astray>> /\ StreamInv' /\ Guesses
           /\ ~busy' /\ pos = Len(stream)
           /\ running' => busy
           /\ busy \/ UNCHANGED handled
           /\ side = "client" \/ UNCHANGED handled
<1>1. /\ TypeInv /\ TypeOK /\ SentInv /\ side \in {"server", "client"}
      /\ handled \in Seq(Seq(Chars)) /\ msg \in Seq(Chars) /\ running \in BOOLEAN
    BY FramingAssumption DEF StreamInv, TypeInv, TypeOK
<1>2. /\ UNCHANGED <<side, sent, pos, buffer, msg, astray>>
      /\ busy' = FALSE /\ pos = Len(stream)
    BY DEF ServerEOF, ClientEOF, AtEnd
<1>3. /\ Guesses /\ (running' => busy) /\ (busy \/ UNCHANGED handled)
      /\ side = "client" \/ UNCHANGED handled
  <2>1. CASE ServerEOF
    <3>1. running' = FALSE /\ handled' = handled
      BY <2>1 DEF ServerEOF
    <3> QED BY <3>1 DEF Guesses
  <2>2. CASE ClientEOF
    <3>1. side = "client" /\ busy /\ Handle(msg)
      BY <2>2 DEF ClientEOF
    <3> QED BY <1>1, <3>1, HandlesGuess
  <2> QED BY <2>1, <2>2
<1>4. handled' \in Seq(Seq(Chars)) /\ running' \in BOOLEAN
    BY <1>1, <1>3, GuessesTyped
<1>5. TypeInv'
  <2>1. TypeOK'
    BY <1>1, <1>2, <1>4 DEF TypeOK, sent
  <2> QED BY <1>1, <1>2, <1>4, <2>1 DEF TypeInv, sent
<1>6. SentInv'
    BY <1>1, <1>2, SentStays
<1> QED BY <1>2, <1>3, <1>5, <1>6 DEF StreamInv

\* The end of a connection finds a call, if any, with the part of a frame.
LEMMA EndsPart ==
    ASSUME StreamInv, ServerEOF \/ ClientEOF, NEW t \in 0 .. Len(ends), Position(t)
    PROVE  /\ PosInv'
           /\ UNCHANGED handled \/ (Exhausted(t) /\ Guesses)
<1>1. /\ UNCHANGED <<side, frames, ends, stream, closed, pos>> /\ Guesses
      /\ ~busy' /\ pos = Len(stream) /\ (running' => busy)
      /\ busy \/ UNCHANGED handled
    BY EndsCall DEF sent
<1>2. /\ SentInv /\ ends \in Seq(Nat) /\ Len(ends) \in Nat /\ stream \in Seq(Symbols)
      /\ Len(stream) \in Nat /\ t \in Nat /\ t <= Len(ends)
    BY DEF StreamInv, TypeInv, TypeOK
<1>3. busy => Exhausted(t)
  <2> SUFFICES ASSUME busy PROVE Exhausted(t)
    OBVIOUS
  <2>1. Within(t, pos) /\ (Partly(t) \/ Exhausted(t))
    BY DEF Position
  <2>2. t = Len(ends)
    <3> SUFFICES ASSUME t # Len(ends) PROVE FALSE
      OBVIOUS
    <3>1. t + 1 \in DOMAIN ends /\ ~(t + 1 <= t)
      BY <1>2
    <3>2. ends[t + 1] <= Len(stream)
      BY <1>2, <3>1 DEF SentInv, FrameAt
    <3> QED BY <1>1, <2>1, <3>1, <3>2 DEF Within
  <2>3. CASE Partly(t)
    <3>1. LastEnd < pos
      <4>1. LastEnd = Start(t + 1)
        BY <2>2 DEF LastEnd
      <4>2. Start(t + 1) \in Nat
        BY <1>2 DEF Start
      <4>3. pos \in Nat
        BY <1>1, <1>2
      <4> QED BY <2>3, <4>1, <4>2, <4>3 DEF Partly
    <3> QED BY <1>1, <2>2, <3>1 DEF Exhausted, Partial
  <2> QED BY <2>1, <2>3
<1>4. Partial' = Partial
    BY <1>1, <1>2, SentStays DEF sent
<1>5. Position(t)'
  <2>1. Within(t, pos)'
    BY <1>1 DEF Within, Start, Position
  <2>2. Exhausted(t)' = Exhausted(t)
    BY <1>1, <1>4 DEF Exhausted
  <2>3. running' => Exhausted(t)'
    BY <1>1, <1>3, <2>2
  <2> QED BY <1>1, <2>1, <2>3 DEF Position
<1>6. PosInv'
    BY <1>1, <1>5 DEF PosInv
<1> QED BY <1>1, <1>3, <1>6

-----------------------------------------------------------------------------
(* The theorems. *)

\* Every step keeps what holds wherever reads end.
LEMMA NextStream ==
    ASSUME StreamInv, [Next]_framingVars
    PROVE  StreamInv'
<1>1. CASE ReadFirst \/ ReadMore
    BY <1>1, AnyRead
<1>2. CASE ServerEOF \/ ClientEOF
    BY <1>2, EndsCall
<1>3. ASSUME NEW p \in Payloads, sendOverSocket(p) \/ SendStuck(p)
      PROVE  StreamInv'
    BY <1>3, FrameSent, StuckSent
<1>4. CASE Close
    BY <1>4, Closes
<1>5. CASE UNCHANGED framingVars
  <2>1. UNCHANGED <<side, frames, ends, stream, closed, pos, busy, buffer, msg,
                    handled, running, astray>>
    BY <1>5 DEF framingVars, sent
  <2>2. TypeInv'
    BY <2>1 DEF StreamInv, TypeInv, TypeOK
  <2>3. SentInv'
    BY <2>1 DEF StreamInv, SentInv, LastEnd, FrameAt, Start
  <2> QED BY <2>2, <2>3 DEF StreamInv
<1> QED BY <1>1, <1>2, <1>3, <1>4, <1>5 DEF Next, Reader

\* readFromSocket and the loop of startClient read no further than what was
\* sent, and keep their types, wherever reads end, whatever is sent and in the
\* memory, and however large the buffer is.
THEOREM ReaderTypes == Spec => []TypeOK
<1>1. Init => StreamInv
    BY InitInv DEF FramingInv
<1>2. StreamInv /\ [Next]_framingVars => StreamInv'
    BY NextStream
<1>3. StreamInv => TypeOK
    BY DEF StreamInv, TypeInv
<1> QED BY <1>1, <1>2, <1>3, PTL DEF Spec

\* Every step keeps the invariant.
LEMMA NextInv ==
    ASSUME FramingInv, Whole = TRUE, [Next]_framingVars
    PROVE  FramingInv'
<1>1. StreamInv /\ StreamInv' /\ (astray \/ PosInv)
    BY NextStream DEF FramingInv
<1> SUFFICES ASSUME ~astray' PROVE PosInv'
    BY <1>1 DEF FramingInv
<1>2. CASE ReadFirst \/ ReadMore
  <2>1. (astray => astray') /\ UNCHANGED <<side, sent>>
    BY <1>1, <1>2, AnyRead
  <2>2. PICK t \in 0 .. Len(ends) : Position(t)
    BY <1>1, <2>1 DEF PosInv
  <2>3. PICK u \in t .. Len(ends) : Outcome(t, u)
    BY <1>1, <1>2, <2>2, ReadOutcome
  <2> QED BY <1>1, <2>1, <2>3, OutcomeInv
<1>3. CASE ServerEOF \/ ClientEOF
  <2>1. astray' = astray
    BY <1>1, <1>3, EndsCall
  <2>2. PICK t \in 0 .. Len(ends) : Position(t)
    BY <1>1, <2>1 DEF PosInv
  <2> QED BY <1>1, <1>3, <2>2, EndsPart
<1>4. ASSUME NEW p \in Payloads, sendOverSocket(p) PROVE PosInv'
  <2>1. astray' = astray
    BY <1>4 DEF sendOverSocket, reading
  <2> QED BY <1>1, <1>4, <2>1, FrameSent
<1>5. ASSUME NEW p \in Payloads, SendStuck(p) PROVE PosInv'
  <2>1. astray' = astray
    BY <1>5 DEF SendStuck, reading
  <2> QED BY <1>1, <1>5, <2>1, StuckSent
<1>6. CASE Close
  <2>1. astray' = astray
    BY <1>6 DEF Close, reading
  <2> QED BY <1>1, <1>6, <2>1, Closes
<1>7. CASE UNCHANGED framingVars
  <2>1. UNCHANGED <<side, frames, ends, stream, closed, pos, busy, buffer, msg,
                    handled, running, astray>>
    BY <1>7 DEF framingVars, sent
  <2>2. PosInv
    BY <1>1, <2>1
  <2> QED BY <2>1, <2>2
          DEF PosInv, Position, Within, Exhausted, Partial, LastEnd, Partly, Start
<1> QED BY <1>2, <1>3, <1>4, <1>5, <1>6, <1>7 DEF Next, Reader

\* The invariant holds throughout, where no frame arrives in two parts.
LEMMA Invariant == ASSUME Whole = TRUE PROVE Spec => []FramingInv
<1>1. FramingInv /\ [Next]_framingVars => FramingInv'
    BY NextInv
<1> QED BY <1>1, InitInv, PTL DEF Spec

\* What was appended to can be taken back.
LEMMA AppendedFront ==
    ASSUME NEW X, NEW s \in Seq(X), NEW x \in X
    PROVE  Len(Append(s, x)) = Len(s) + 1 /\ SubSeq(Append(s, x), 1, Len(s)) = s
OBVIOUS

\* What a reader makes of anything is what FrameReader allows.
LEMMA GuessIsAnything ==
    ASSUME handled \in Seq(Seq(Chars)), Guesses
    PROVE  Reads!Anything
<1>1. CASE handled' = handled
    BY <1>1 DEF Reads!Anything
<1>2. ASSUME NEW h \in Seq(Chars), handled' = Append(handled, h)
      PROVE  Reads!Anything
    BY <1>2, AppendedFront DEF Reads!Anything
<1> QED BY <1>1, <1>2 DEF Guesses

\* The part of a frame is there, or not.
LEMMA PartialBoolean == Partial \in BOOLEAN /\ Partial' \in BOOLEAN
BY DEF Partial

\* Every step of Framing is one of FrameReader, or changes nothing there.
LEMMA StepImplements ==
    ASSUME FramingInv, Whole = TRUE, [Next]_framingVars
    PROVE  [Reads!Next]_(Reads!readerVars)
<1>1. /\ StreamInv /\ StreamInv' /\ (astray \/ PosInv) /\ SentInv
      /\ ends \in Seq(Nat) /\ Len(ends) = Len(frames) /\ Len(ends) \in Nat
      /\ pos \in Nat /\ stream \in Seq(Symbols) /\ Len(stream) \in Nat
      /\ handled \in Seq(Seq(Chars)) /\ astray \in BOOLEAN
  <2>1. StreamInv /\ StreamInv' /\ (astray \/ PosInv)
    BY NextStream DEF FramingInv
  <2>2. /\ SentInv /\ ends \in Seq(Nat) /\ Len(ends) = Len(frames)
        /\ pos \in 0 .. Len(stream) /\ stream \in Seq(Symbols)
        /\ handled \in Seq(Seq(Chars)) /\ astray \in BOOLEAN
    BY <2>1 DEF StreamInv, SentInv, TypeInv, TypeOK
  <2>3. Len(ends) \in Nat /\ Len(stream) \in Nat
    BY <2>2
  <2>4. pos \in Nat
    BY <2>2, <2>3
  <2> QED BY <2>1, <2>2, <2>3, <2>4
<1>2. ASSUME UNCHANGED <<side, sent>> PROVE Partial' = Partial
    BY <1>1, <1>2, SentStays
<1>3. ASSUME UNCHANGED <<ends, pos>> PROVE Taken' = Taken
    BY <1>3 DEF Taken
<1>4. ASSUME UNCHANGED <<frames, handled, astray>>, Taken' = Taken,
             Partial' = Partial
      PROVE  [Reads!Next]_(Reads!readerVars)
    BY <1>4 DEF Reads!readerVars
<1>5. ASSUME Partial, UNCHANGED <<side, sent>>, Taken = Len(ends),
             Taken' = Taken, astray' = astray, Guesses
      PROVE  [Reads!Next]_(Reads!readerVars)
  <2>1. Partial' = Partial /\ UNCHANGED frames
    BY <1>2, <1>5 DEF sent
  <2>2. Reads!Anything
    BY <1>1, <1>5, GuessIsAnything
  <2>3. Reads!ReadTorn
    BY <1>1, <1>5, <2>1, <2>2 DEF Reads!ReadTorn
  <2> QED BY <2>3 DEF Reads!Next
<1>6. ASSUME UNCHANGED <<side, sent>>, pos' \in pos .. Len(stream),
             astray' = TRUE, Guesses
      PROVE  [Reads!Next]_(Reads!readerVars)
  <2>1. Partial' = Partial /\ UNCHANGED <<frames, ends>>
    BY <1>2, <1>6 DEF sent
  <2>2. Taken' \in Taken .. Len(frames)
    <3>1. pos' \in Nat /\ pos <= pos'
      BY <1>1, <1>6
    <3>2. Cardinality({k \in DOMAIN ends : ends[k] <= pos'})
             \in Cardinality({k \in DOMAIN ends : ends[k] <= pos}) .. Len(ends)
      BY <1>1, <3>1, CountGrows
    <3> QED BY <1>1, <2>1, <3>2 DEF Taken
  <2>3. Reads!Anything
    BY <1>1, <1>6, GuessIsAnything
  <2>4. Reads!ReadAstray
    BY <1>6, <2>1, <2>2, <2>3 DEF Reads!ReadAstray
  <2> QED BY <2>4 DEF Reads!Next
<1>7. ASSUME NEW t \in 0 .. Len(ends), Position(t), NEW u \in t .. Len(ends),
             Outcome(t, u), UNCHANGED <<side, sent>>, astray' = astray
      PROVE  [Reads!Next]_(Reads!readerVars)
  <2>1. /\ UNCHANGED <<frames, ends>> /\ Within(u, pos') /\ Partial' = Partial
        /\ u \in 0 .. Len(ends) /\ u \in Nat /\ t \in Nat /\ t <= u
        /\ TakesFrame(t, u) \/ GoesOn(t, u) \/ TakesPart(t, u)
    <3>1. u \in 0 .. Len(ends) /\ u \in Nat /\ t \in Nat /\ t <= u
      BY <1>1
    <3> QED BY <1>2, <1>7, <3>1 DEF Outcome, sent
  <2>2. Taken = t
    BY <1>1, <1>7, TakenWithin DEF Position
  <2>3. Taken' = u
    <3>1. pos' \in Nat
      <4>1. stream' \in Seq(Symbols) /\ pos' \in 0 .. Len(stream')
        BY <1>1 DEF StreamInv, TypeInv, TypeOK
      <4> QED BY <4>1
    <3>2. \A k \in DOMAIN ends : ends[k] <= pos' <=> k <= u
      BY <2>1 DEF Within
    <3>3. Cardinality({k \in DOMAIN ends : ends[k] <= pos'}) = u
      BY <1>1, <2>1, <3>1, <3>2, CountTaken
    <3> QED BY <2>1, <3>3 DEF Taken
  <2>4. CASE TakesFrame(t, u)
    <3>1. Taken < Len(frames) /\ Taken' \in (Taken + 1) .. Len(frames)
      BY <1>1, <2>1, <2>2, <2>3, <2>4 DEF TakesFrame
    <3>2. Reads!Read
      BY <1>7, <2>1, <2>2, <2>4, <3>1 DEF TakesFrame, Reads!Read
    <3> QED BY <3>2 DEF Reads!Next
  <2>5. CASE GoesOn(t, u)
    BY <1>4, <1>7, <2>1, <2>2, <2>3, <2>5 DEF GoesOn
  <2>6. CASE TakesPart(t, u)
    <3>1. Partial /\ t = Len(ends) /\ u = t /\ Guesses
      BY <2>6 DEF TakesPart, Exhausted
    <3> QED BY <1>5, <1>7, <2>2, <2>3, <3>1
  <2> QED BY <2>1, <2>4, <2>5, <2>6
<1>8. CASE ReadFirst \/ ReadMore
  <2>1. /\ UNCHANGED <<side, sent>> /\ Guesses /\ pos' \in pos .. Len(stream)
        /\ astray' \in BOOLEAN /\ (astray => astray')
    BY <1>1, <1>8, AnyRead
  <2>2. CASE astray'
    BY <1>6, <2>1, <2>2
  <2>3. CASE ~astray'
    <3>1. PICK t \in 0 .. Len(ends) : Position(t)
      BY <1>1, <2>1, <2>3 DEF PosInv
    <3>2. PICK u \in t .. Len(ends) : Outcome(t, u)
      BY <1>1, <1>8, <2>3, <3>1, ReadOutcome
    <3>3. astray' = astray
      BY <1>1, <2>1, <2>3
    <3> QED BY <1>7, <2>1, <3>1, <3>2, <3>3
  <2> QED BY <2>2, <2>3
<1>9. CASE ServerEOF \/ ClientEOF
  <2>1. UNCHANGED <<side, sent, pos, astray>> /\ Guesses
    BY <1>1, <1>9, EndsCall
  <2>2. Taken' = Taken /\ Partial' = Partial /\ UNCHANGED frames
    BY <1>2, <1>3, <2>1 DEF sent
  <2>3. CASE astray
    <3>1. pos' \in pos .. Len(stream)
      <4>1. pos \in 0 .. Len(stream)
        BY <1>1 DEF StreamInv, TypeInv, TypeOK
      <4> QED BY <1>1, <2>1, <4>1
    <3>2. astray' = TRUE
      BY <1>1, <2>1, <2>3
    <3> QED BY <1>6, <2>1, <3>1, <3>2
  <2>4. CASE ~astray
    <3>1. PICK t \in 0 .. Len(ends) : Position(t)
      BY <1>1, <2>4 DEF PosInv
    <3>2. UNCHANGED handled \/ (Exhausted(t) /\ Guesses)
      BY <1>1, <1>9, <3>1, EndsPart
    <3>3. Taken = t
      BY <1>1, <3>1, TakenWithin DEF Position
    <3>4. CASE Exhausted(t)
      BY <1>5, <2>1, <2>2, <3>3, <3>4 DEF Exhausted
    <3> QED BY <1>4, <2>1, <2>2, <3>2, <3>4
  <2> QED BY <2>3, <2>4
<1>10. ASSUME NEW p \in Payloads, sendOverSocket(p)
       PROVE  [Reads!Next]_(Reads!readerVars)
  <2>1. /\ ~Partial /\ frames' = Append(frames, p)
        /\ stream' = stream \o Frame(p) /\ ends' = Append(ends, Len(stream'))
        /\ UNCHANGED <<pos, handled, astray>>
    BY <1>10 DEF sendOverSocket, reading
  <2>2. ~Partial'
    BY <1>1, <1>10, FrameSent
  <2>3. Partial = FALSE /\ Partial' = FALSE
    BY <2>1, <2>2, PartialBoolean
  <2>4. pos < Len(stream')
    <3>1. Frame(p) \in Seq(Symbols) /\ Len(Frame(p)) = Len(p) + 4 /\ Len(p) \in Nat
      BY FrameChars
    <3>2. Len(stream') = Len(stream) + Len(Frame(p))
      BY <1>1, <2>1, <3>1, ConcatProperties
    <3>3. pos <= Len(stream)
      BY <1>1 DEF StreamInv, TypeInv, TypeOK
    <3> QED BY <1>1, <3>1, <3>2, <3>3
  <2>5. {k \in DOMAIN ends' : ends'[k] <= pos'} = {k \in DOMAIN ends : ends[k] <= pos}
    <3>1. Len(stream') \in Nat
      <4>1. stream' \in Seq(Symbols)
        BY <1>1 DEF StreamInv, TypeInv
      <4> QED BY <4>1
    <3>2. /\ DOMAIN ends' = 1 .. Len(ends) + 1 /\ ends'[Len(ends) + 1] = Len(stream')
          /\ \A k \in 1 .. Len(ends) : ends'[k] = ends[k]
      BY <1>1, <2>1, <3>1, AppendProperties
    <3>3. ~(ends'[Len(ends) + 1] <= pos')
      BY <1>1, <2>1, <2>4, <3>1, <3>2
    <3>4. DOMAIN ends = 1 .. Len(ends)
      BY <1>1
    <3>5. \A k \in DOMAIN ends' : k \in DOMAIN ends \/ k = Len(ends) + 1
      BY <1>1, <3>2, <3>4
    <3>6. DOMAIN ends \subseteq DOMAIN ends'
      BY <1>1, <3>2, <3>4
    <3> QED BY <2>1, <3>2, <3>3, <3>4, <3>5, <3>6
  <2>6. Taken' = Taken
    BY <2>5 DEF Taken
  <2>7. Reads!Send(p)
    BY <2>1, <2>3, <2>6 DEF Reads!Send
  <2> QED BY <2>7 DEF Reads!Next
<1>11. ASSUME NEW p \in Payloads, SendStuck(p)
       PROVE  [Reads!Next]_(Reads!readerVars)
  <2>1. UNCHANGED <<frames, ends, pos, handled, astray>>
    BY <1>11 DEF SendStuck, reading
  <2>2. Taken' = Taken
    BY <1>3, <2>1
  <2>3. Partial' = TRUE
    BY <1>1, <1>11, StuckSent, PartialBoolean
  <2>4. Reads!Tear
    BY <2>1, <2>2, <2>3 DEF Reads!Tear
  <2> QED BY <2>4 DEF Reads!Next
<1>12. CASE Close
  <2>1. UNCHANGED <<frames, ends, stream, pos, handled, astray>>
    BY <1>12 DEF Close, reading
  <2>2. Partial' = Partial
    BY <2>1 DEF Partial, LastEnd, Start
  <2> QED BY <1>3, <1>4, <2>1, <2>2
<1>13. CASE UNCHANGED framingVars
  <2>1. UNCHANGED <<frames, ends, stream, pos, handled, astray>>
    BY <1>13 DEF framingVars, sent
  <2>2. Partial' = Partial
    BY <2>1 DEF Partial, LastEnd, Start
  <2> QED BY <1>3, <1>4, <2>1, <2>2
<1> QED BY <1>8, <1>9, <1>10, <1>11, <1>12, <1>13 DEF Next, Reader

\* Refinement: where no frame that is sent to its end arrives in two parts, both
\* readers do what ChatServer and ChatClient assume, whatever the memory of the
\* buffer holds and whatever stands behind it: each call handles the next frame,
\* whole.  Of a frame that is not sent to its end either side may handle
\* something else, and after a read that mixes up frames (Strays) everything.
THEOREM ReadersFindFrames == ASSUME Whole = TRUE PROVE Spec => ImplementsReader
<1>1. Init => Reads!Init
  <2> SUFFICES ASSUME Init PROVE Reads!Init
    OBVIOUS
  <2>1. /\ frames = <<>> /\ ends = <<>> /\ stream = <<>> /\ handled = <<>>
        /\ pos = 0 /\ astray = FALSE
    BY DEF Init
  <2>2. Partial = FALSE
    <3>1. Len(ends) + 1 = 1 /\ Len(stream) = 0
      BY <2>1
    <3>2. LastEnd = 0
      BY <3>1 DEF LastEnd, Start
    <3> QED BY <3>1, <3>2 DEF Partial
  <2>3. Taken = 0
    <3>1. {k \in DOMAIN ends : ends[k] <= pos} = {}
      BY <2>1
    <3> QED BY <3>1, FS_EmptySet DEF Taken
  <2> QED BY <2>1, <2>2, <2>3 DEF Reads!Init
<1>2. FramingInv /\ [Next]_framingVars => [Reads!Next]_(Reads!readerVars)
    BY StepImplements
<1> QED BY <1>1, <1>2, Invariant, PTL DEF Spec, ImplementsReader, Reads!Spec

=============================================================================
