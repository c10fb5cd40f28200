------------------------ MODULE SelectionSort_proofs ------------------------
(***************************************************************************)
(* For a list of any length: what selectionSortArray is step by step, and  *)
(* that it only rearranges.  Induction over data is induction over the     *)
(* steps of the loops, by the least number for which something fails.      *)
(***************************************************************************)
EXTENDS SelectionSort, TLAPS, WellFoundedInduction

\* A set of numbers has a least element.
LEMMA LeastNumber ==
    ASSUME NEW S \in SUBSET Nat, S # {}
    PROVE  \E x \in S : \A y \in S : x <= y
<1>1. IsWellFoundedOn(OpToRel(<, Nat), Nat)
    BY NatLessThanWellFounded
<1>2. PICK x \in S : \A y \in S : ~(<<y, x>> \in OpToRel(<, Nat))
    BY <1>1, WFMin
<1>3. \A y \in S : ~ (y < x)
    BY <1>2 DEF OpToRel
<1> QED BY <1>3

\* Induction over the numbers, for a set.
LEMMA SetInduction ==
    ASSUME NEW S, 0 \in S, \A k \in Nat : k \in S => k + 1 \in S
    PROVE  Nat \subseteq S
<1> SUFFICES ASSUME Nat \ S # {} PROVE FALSE
    OBVIOUS
<1>1. PICK x \in Nat \ S : \A y \in Nat \ S : x <= y
    BY LeastNumber
<1>2. x - 1 \in Nat /\ x - 1 \notin S
    BY <1>1
<1> QED BY <1>1, <1>2

\* f is what the steps T make of b, from lo to hi.
Stepwise(f, b, lo, hi, T) == /\ f[lo] = b
                             /\ \A k \in (lo + 1) .. hi : f[k] = T[k][f[k - 1]]

\* What is computed in steps exists: a state to start from, and a function for
\* each step.
LEMMA Iterate ==
    ASSUME NEW X, NEW b \in X, NEW lo \in Int, NEW hi \in Int, lo <= hi,
           NEW T \in [(lo + 1) .. hi -> [X -> X]]
    PROVE  \E f \in [lo .. hi -> X] : Stepwise(f, b, lo, hi, T)
<1> DEFINE len == hi - lo
           Good(f, d) == /\ f \in [lo .. (lo + d) -> X]
                         /\ f[lo] = b
                         /\ \A k \in (lo + 1) .. (lo + d) : f[k] = T[k][f[k - 1]]
           S == {d \in Nat : d <= len => \E f \in [lo .. (lo + d) -> X] : Good(f, d)}
<1> HIDE DEF len
<1>1. 0 \in S
  <2> DEFINE f == [k \in lo .. (lo + 0) |-> b]
  <2>1. f \in [lo .. (lo + 0) -> X] /\ Good(f, 0)
    OBVIOUS
  <2> QED BY <2>1
<1>2. ASSUME NEW d \in Nat, d \in S
      PROVE  d + 1 \in S
  <2> SUFFICES ASSUME d + 1 <= len
               PROVE  \E f \in [lo .. (lo + (d + 1)) -> X] : Good(f, d + 1)
    OBVIOUS
  <2>1. PICK f \in [lo .. (lo + d) -> X] : Good(f, d)
    <3>1. d <= len
      BY DEF len
    <3> QED BY <1>2, <3>1
  <2> DEFINE e == lo + d + 1
             g == [k \in lo .. (lo + (d + 1)) |->
                      IF k = e THEN T[e][f[e - 1]] ELSE f[k]]
  <2>2. e \in (lo + 1) .. hi /\ e - 1 \in lo .. (lo + d)
    BY DEF len
  <2>3. T[e][f[e - 1]] \in X
    BY <2>1, <2>2
  <2>4. g \in [lo .. (lo + (d + 1)) -> X]
    BY <2>1, <2>3
  <2>5. ASSUME NEW k \in (lo + 1) .. (lo + (d + 1))
        PROVE  g[k] = T[k][g[k - 1]]
    <3>1. k \in lo .. (lo + (d + 1)) /\ k - 1 \in lo .. (lo + d) /\ k - 1 # e
      OBVIOUS
    <3>2. k \in lo .. (lo + (d + 1)) /\ k - 1 \in lo .. (lo + (d + 1))
      BY <3>1
    <3>3. g[k - 1] = f[k - 1]
      BY <3>1, <3>2
    <3>4. CASE k = e
      <4>1. g[k] = T[e][f[e - 1]]
        BY <3>1, <3>4
      <4> QED BY <3>3, <3>4, <4>1
    <3>5. CASE k # e
      <4>1. g[k] = f[k]
        BY <3>1, <3>5
      <4>2. k \in (lo + 1) .. (lo + d)
        <5>1. k <= lo + d + 1 /\ k # lo + d + 1 /\ k >= lo + 1 /\ k \in Int
          BY <3>5
        <5> QED BY <5>1
      <4> QED BY <2>1, <3>3, <4>1, <4>2
    <3> QED BY <3>4, <3>5
  <2>6. g[lo] = b
    BY <2>1
  <2> QED BY <2>4, <2>5, <2>6
<1>3. len \in S
  <2>1. len \in Nat
    BY DEF len
  <2> HIDE DEF S
  <2> QED BY <1>1, <1>2, <2>1, SetInduction
<1>4. PICK f \in [lo .. (lo + len) -> X] : Good(f, len)
    BY <1>3
<1> QED BY <1>4 DEF len, Stepwise

\* It is made of such states.
LEMMA StepsStay ==
    ASSUME NEW X, NEW b \in X, NEW lo \in Int, NEW hi \in Int,
           NEW T \in [(lo + 1) .. hi -> [X -> X]], NEW f,
           Stepwise(f, b, lo, hi, T)
    PROVE  \A k \in lo .. hi : f[k] \in X
<1> DEFINE S == {d \in Nat : lo + d <= hi => f[lo + d] \in X}
<1>1. 0 \in S
    BY DEF Stepwise
<1>2. ASSUME NEW d \in Nat, d \in S PROVE d + 1 \in S
  <2> SUFFICES ASSUME lo + (d + 1) <= hi
               PROVE  f[lo + (d + 1)] \in X
    OBVIOUS
  <2>1. lo + (d + 1) \in (lo + 1) .. hi /\ (lo + (d + 1)) - 1 = lo + d
    OBVIOUS
  <2>2. f[lo + d] \in X
    BY <1>2
  <2>3. f[lo + (d + 1)] = T[lo + (d + 1)][f[lo + d]]
    BY <2>1 DEF Stepwise
  <2> QED BY <2>1, <2>2, <2>3
<1>3. Nat \subseteq S
  <2> HIDE DEF S
  <2> QED BY <1>1, <1>2, SetInduction
<1>4. ASSUME NEW k \in lo .. hi PROVE f[k] \in X
  <2>1. k - lo \in Nat /\ lo + (k - lo) = k
    OBVIOUS
  <2>2. k - lo \in S
    BY <1>3, <2>1
  <2>3. lo + (k - lo) <= hi => f[lo + (k - lo)] \in X
    BY <2>2
  <2> QED BY <2>1, <2>3
<1> QED BY <1>4

\* The states of the inner loop.
LoopStates(N) == [order : Orders(N), minIndex : 1 .. N]

\* A turn of the inner loop takes such a state to such a state.
LEMMA TurnCarries ==
    ASSUME NEW ks, Len(ks) \in Nat, NEW a \in 1 .. Len(ks), NEW d \in 1 .. Len(ks)
    PROVE  Turn(ks, a, d) \in [LoopStates(Len(ks)) -> LoopStates(Len(ks))]
<1> SUFFICES ASSUME NEW st \in LoopStates(Len(ks))
             PROVE  Turn(ks, a, d)[st] \in LoopStates(Len(ks))
    BY DEF Turn, LoopStates
<1> DEFINE m == Candidate(ks, st.order, d, st.minIndex)
<1>1. m \in 1 .. Len(ks) /\ st.order \in [1 .. Len(ks) -> 1 .. Len(ks)]
    BY DEF Candidate, LoopStates, Orders
<1>2. Turn(ks, a, d)[st] = [order |-> Swap(st.order, m, a), minIndex |-> m]
    BY DEF Turn, LoopStates
<1> HIDE DEF m
<1>3. Swap(st.order, m, a) \in Orders(Len(ks))
    BY <1>1 DEF Swap, Orders
<1> QED BY <1>1, <1>2, <1>3 DEF LoopStates

\* r is what the inner loop makes of the order o, for a.
IsTurns(r, ks, a, o) ==
    /\ r \in [a .. Len(ks) -> LoopStates(Len(ks))]
    /\ r[a] = [order |-> o, minIndex |-> a]
    /\ \A d \in (a + 1) .. Len(ks) : r[d] = Turn(ks, a, d)[r[d - 1]]

\* The operator's inner loop, turn by turn.
LEMMA TurnsStepwise ==
    ASSUME NEW ks, Len(ks) \in Nat, NEW a \in 1 .. Len(ks),
           NEW o \in Orders(Len(ks))
    PROVE  IsTurns(Turns(ks, a, o), ks, a, o)
<1> DEFINE N == Len(ks)
           X == LoopStates(N)
           b == [order |-> o, minIndex |-> a]
           T == [d \in (a + 1) .. N |-> Turn(ks, a, d)]
<1>1. b \in X /\ a \in Int /\ N \in Int /\ a <= N
    BY DEF LoopStates
<1>2. T \in [(a + 1) .. N -> [X -> X]]
    BY TurnCarries
<1> HIDE DEF X, b
<1>3. PICK f \in [a .. N -> X] : Stepwise(f, b, a, N, T)
  <2> HIDE DEF T, N
  <2> QED BY <1>1, <1>2, Iterate
<1>4. f = [d \in a .. N |-> IF d = a THEN b ELSE Turn(ks, a, d)[f[d - 1]]]
  <2>1. \A d \in a .. N : d # a => T[d] = Turn(ks, a, d)
    BY <1>1
  <2> HIDE DEF T
  <2> QED BY <1>1, <1>3, <2>1 DEF Stepwise
<1>5. Turns(ks, a, o) =
          [d \in a .. N |->
              IF d = a THEN b ELSE Turn(ks, a, d)[Turns(ks, a, o)[d - 1]]]
    BY <1>4 DEF Turns, b
<1>6. \A d \in a .. N : Turns(ks, a, o)[d] \in X
  <2>1. \A d \in (a + 1) .. N : d - 1 \in a .. N /\ T[d] = Turn(ks, a, d)
    OBVIOUS
  <2>2. Stepwise(Turns(ks, a, o), b, a, N, T)
    <3> HIDE DEF T
    <3> QED BY <1>1, <1>5, <2>1 DEF Stepwise
  <2> HIDE DEF T, N
  <2> QED BY <1>1, <1>2, <2>2, StepsStay
<1>7. Turns(ks, a, o) \in [a .. N -> X]
    BY <1>5, <1>6
<1>8. /\ Turns(ks, a, o)[a] = b
      /\ \A d \in (a + 1) .. N :
            Turns(ks, a, o)[d] = Turn(ks, a, d)[Turns(ks, a, o)[d - 1]]
    BY <1>1, <1>5
<1> QED BY <1>7, <1>8 DEF X, b, IsTurns

\* A pass of the inner loop takes an order to an order.
LEMMA PassMaps ==
    ASSUME NEW ks, Len(ks) \in Nat, NEW a \in 1 .. Len(ks)
    PROVE  Pass(ks, a) \in [Orders(Len(ks)) -> Orders(Len(ks))]
<1> SUFFICES ASSUME NEW o \in Orders(Len(ks))
             PROVE  Turns(ks, a, o)[Len(ks)].order \in Orders(Len(ks))
    BY DEF Pass
<1>1. Turns(ks, a, o) \in [a .. Len(ks) -> LoopStates(Len(ks))]
    BY TurnsStepwise DEF IsTurns
<1>2. Turns(ks, a, o)[Len(ks)] \in LoopStates(Len(ks))
    BY <1>1
<1> QED BY <1>2 DEF LoopStates

\* r is what the outer loop makes of a list.
IsPasses(r, ks) ==
    /\ r \in [1 .. Len(ks) -> Orders(Len(ks))]
    /\ r[1] = [k \in 1 .. Len(ks) |-> k]
    /\ \A a \in 2 .. Len(ks) : r[a] = Pass(ks, a - 1)[r[a - 1]]

\* The operator's outer loop, pass by pass.
LEMMA PassesStepwise ==
    ASSUME NEW ks, Len(ks) \in Nat \ {0}
    PROVE  IsPasses(Passes(ks), ks)
<1> DEFINE N == Len(ks)
           X == Orders(N)
           b == [k \in 1 .. N |-> k]
           T == [a \in (1 + 1) .. N |-> Pass(ks, a - 1)]
<1>1. b \in X /\ 1 \in Int /\ N \in Int /\ 1 <= N
    BY DEF Orders
<1>2. T \in [(1 + 1) .. N -> [X -> X]]
  <2>1. \A a \in (1 + 1) .. N : a - 1 \in 1 .. N
    OBVIOUS
  <2> QED BY <2>1, PassMaps
<1> HIDE DEF X, b
<1>3. PICK f \in [1 .. N -> X] : Stepwise(f, b, 1, N, T)
  <2> HIDE DEF T, N
  <2> QED BY <1>1, <1>2, Iterate
<1>4. f = [a \in 1 .. N |-> IF a = 1 THEN b ELSE Pass(ks, a - 1)[f[a - 1]]]
  <2>1. \A a \in 1 .. N : a # 1 => a \in (1 + 1) .. N /\ T[a] = Pass(ks, a - 1)
    BY <1>1
  <2> HIDE DEF T
  <2> QED BY <1>1, <1>3, <2>1 DEF Stepwise
<1>5. Passes(ks) =
          [a \in 1 .. N |->
              IF a = 1 THEN b ELSE Pass(ks, a - 1)[Passes(ks)[a - 1]]]
    BY <1>4 DEF Passes, b
<1>6. \A a \in 1 .. N : Passes(ks)[a] \in X
  <2>1. \A a \in (1 + 1) .. N :
            a \in 1 .. N /\ a # 1 /\ T[a] = Pass(ks, a - 1)
    OBVIOUS
  <2>2. Stepwise(Passes(ks), b, 1, N, T)
    <3> HIDE DEF T
    <3> QED BY <1>1, <1>5, <2>1 DEF Stepwise
  <2> HIDE DEF T, N
  <2> QED BY <1>1, <1>2, <2>2, StepsStay
<1>7. Passes(ks) \in [1 .. N -> X]
    BY <1>5, <1>6
<1>8. /\ Passes(ks)[1] = b
      /\ \A a \in 2 .. N : Passes(ks)[a] = Pass(ks, a - 1)[Passes(ks)[a - 1]]
    BY <1>1, <1>5
<1> QED BY <1>7, <1>8 DEF X, b, IsPasses

\* The swap of two entries in range keeps an order an order.
LEMMA SwapRearranges ==
    ASSUME NEW N \in Nat, NEW f \in Rearrangements(N),
           NEW x \in 1 .. N, NEW y \in 1 .. N
    PROVE  Swap(f, x, y) \in Rearrangements(N)
<1> DEFINE g == Swap(f, x, y)
<1>1. f \in [1 .. N -> 1 .. N]
    BY DEF Rearrangements, Orders
<1>2. /\ g \in [1 .. N -> 1 .. N]
      /\ g[y] = f[x] /\ g[x] = f[y]
      /\ \A k \in 1 .. N : k # x /\ k # y => g[k] = f[k]
    BY <1>1 DEF Swap
<1>3. \A k, l \in 1 .. N : g[k] = g[l] => k = l
  <2>1. \A k, l \in 1 .. N : f[k] = f[l] => k = l
    BY DEF Rearrangements
  <2> HIDE DEF g
  <2>2. SUFFICES ASSUME NEW k \in 1 .. N, NEW l \in 1 .. N, g[k] = g[l]
                 PROVE  k = l
    OBVIOUS
  <2>3. CASE k \in {x, y}
    BY <1>2, <2>1, <2>2, <2>3
  <2>4. CASE k \notin {x, y}
    BY <1>2, <2>1, <2>2, <2>4
  <2> QED BY <2>3, <2>4
<1>4. \A v \in 1 .. N : \E k \in 1 .. N : g[k] = v
    BY <1>1, <1>2 DEF Rearrangements
<1> QED BY <1>2, <1>3, <1>4 DEF Rearrangements, Orders

\* The inner loop rearranges.
LEMMA TurnsRearrange ==
    ASSUME NEW ks, Len(ks) \in Nat, NEW a \in 1 .. Len(ks),
           NEW o \in Rearrangements(Len(ks))
    PROVE  Turns(ks, a, o)[Len(ks)].order \in Rearrangements(Len(ks))
<1> DEFINE N == Len(ks)
           r == Turns(ks, a, o)
           S == {d \in Nat : a + d <= N => r[a + d].order \in Rearrangements(N)}
<1>1. IsTurns(r, ks, a, o)
    BY TurnsStepwise DEF Rearrangements
<1> HIDE DEF r
<1>2. 0 \in S
    BY <1>1 DEF IsTurns
<1>3. ASSUME NEW d \in Nat, d \in S PROVE d + 1 \in S
  <2> SUFFICES ASSUME a + (d + 1) <= N
               PROVE  r[a + (d + 1)].order \in Rearrangements(N)
    OBVIOUS
  <2> DEFINE e == a + (d + 1)
             st == r[a + d]
             m == Candidate(ks, st.order, e, st.minIndex)
  <2>1. e \in (a + 1) .. N /\ e \in 1 .. N /\ e - 1 = a + d /\ a + d \in a .. N
    OBVIOUS
  <2>2. st.order \in Rearrangements(N) /\ st \in LoopStates(N)
    BY <1>1, <1>3, <2>1 DEF IsTurns
  <2>3. r[e] = Turn(ks, a, e)[st]
    BY <1>1, <2>1 DEF IsTurns
  <2>4. m \in 1 .. N
    BY <2>1, <2>2 DEF Candidate, LoopStates
  <2>5. Turn(ks, a, e)[st].order = Swap(st.order, m, a)
    BY <2>2 DEF Turn, LoopStates
  <2> HIDE DEF m, e, st
  <2>6. Swap(st.order, m, a) \in Rearrangements(N)
    BY <2>2, <2>4, SwapRearranges
  <2>7. r[e].order \in Rearrangements(N)
    BY <2>3, <2>5, <2>6
  <2> QED BY <2>7 DEF e
<1>4. N - a \in S
  <2> HIDE DEF S
  <2> QED BY <1>2, <1>3, SetInduction
<1>5. r[N].order \in Rearrangements(N)
    BY <1>4
<1> QED BY <1>5 DEF r

\* A list of any length and any ports is only rearranged by the sort: a LIST, a
\* REFRESH or a NEWCLIENT loses no client and shows none twice.
THEOREM SortRearranges ==
    ASSUME NEW ks, Len(ks) \in Nat
    PROVE  selectionSortArray(ks) \in Rearrangements(Len(ks))
<1> DEFINE N == Len(ks)
           id == [k \in 1 .. N |-> k]
           S == {d \in Nat : 1 + d <= N => Passes(ks)[1 + d] \in Rearrangements(N)}
<1>1. id \in Rearrangements(N)
    BY DEF Rearrangements, Orders
<1>2. CASE N <= 1
    BY <1>1, <1>2 DEF selectionSortArray
<1>3. CASE N > 1
  <2>1. 0 \in S
    <3>1. Passes(ks)[1] = id
      BY <1>3, PassesStepwise DEF IsPasses
    <3> QED BY <1>1, <3>1
  <2>2. ASSUME NEW d \in Nat, d \in S PROVE d + 1 \in S
    <3> SUFFICES ASSUME 1 + (d + 1) <= N
                 PROVE  Passes(ks)[1 + (d + 1)] \in Rearrangements(N)
      OBVIOUS
    <3> DEFINE a == 1 + d
               o == Passes(ks)[a]
    <3>1. a \in 1 .. N /\ a + 1 \in 2 .. N /\ (a + 1) - 1 = a
          /\ 1 + (d + 1) = a + 1
      OBVIOUS
    <3>2. o \in Rearrangements(N)
      BY <2>2
    <3>3. Passes(ks)[a + 1] = Pass(ks, a)[o]
      <4>1. IsPasses(Passes(ks), ks)
        BY <1>3, PassesStepwise
      <4> QED BY <3>1, <4>1 DEF IsPasses
    <3> HIDE DEF o, a
    <3>4. Pass(ks, a)[o] = Turns(ks, a, o)[N].order
      BY <3>2 DEF Pass, Rearrangements
    <3>5. Turns(ks, a, o)[N].order \in Rearrangements(N)
      BY <3>1, <3>2, TurnsRearrange
    <3> QED BY <3>1, <3>3, <3>4, <3>5
  <2>3. N - 1 \in S
    <3> HIDE DEF S
    <3> QED BY <1>3, <2>1, <2>2, SetInduction
  <2>4. Passes(ks)[N] \in Rearrangements(N)
    BY <1>3, <2>3
  <2> QED BY <1>3, <2>4 DEF selectionSortArray
<1> QED BY <1>2, <1>3
=============================================================================
