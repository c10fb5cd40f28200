-------------------------- MODULE SortLoop_proofs --------------------------
(***************************************************************************)
(* For an array of any length: the loops of selectionSortArray keep their  *)
(* indices in range and only rearrange the array, and one that is in order *)
(* already is left as it is; the highest port always ends up last; and     *)
(* they end with what the operator of SelectionSort says.                  *)
(***************************************************************************)
EXTENDS SortLoop, SelectionSort_proofs

\* The invariant of the two loops: the ranges of the indices, and no element
\* lost or repeated by the swaps so far.
Inv == TypeOK /\ Rearranged

\* The array has a length, and ports in it.
LEMMA KeysAreNumbers == Inv => n \in Nat /\ \A k \in 1 .. n : keys[k] \in Int
<1> SUFFICES ASSUME Inv PROVE n \in Nat /\ \A k \in 1 .. n : keys[k] \in Int
    OBVIOUS
<1>1. keys \in Seq(Ports)
    BY DEF Inv, TypeOK
<1>2. n \in Nat /\ \A k \in 1 .. n : keys[k] \in Ports
    BY <1>1 DEF n
<1> QED BY <1>2, SortAssumption

\* The invariant holds at the start.
LEMMA InitInv == Init => Inv
<1> SUFFICES ASSUME Init PROVE Inv
    OBVIOUS
<1>1. PICK k \in 2 .. MaxLen : keys \in [1 .. k -> Ports]
    BY DEF Init
<1>2. k \in Nat /\ k >= 2
    BY SortAssumption
<1>3. keys \in Seq(Ports) /\ n = k
    BY <1>1, <1>2 DEF n
<1>4. TypeOK
    BY <1>2, <1>3 DEF Init, TypeOK
<1>5. Rearranged
    BY <1>2, <1>3 DEF Init, Rearranged, Rearrangements, Orders
<1> QED BY <1>4, <1>5 DEF Inv

\* A turn of the inner loop keeps it.
LEMMA InnerInv == Inv /\ InnerTurn => Inv'
<1> SUFFICES ASSUME Inv, InnerTurn PROVE Inv'
    OBVIOUS
<1>1. n \in Nat /\ n' = n /\ i \in 1 .. n /\ j \in 1 .. n /\ j > i
    BY DEF Inv, TypeOK, InnerTurn, n
<1>2. minIndex' \in i .. n
    BY <1>1 DEF Inv, TypeOK, InnerTurn, Candidate
<1>3. order' \in Rearrangements(n)
    BY <1>1, <1>2, SwapRearranges DEF Inv, Rearranged, InnerTurn
<1>4. order' \in [1 .. n -> 1 .. n]
    BY <1>3 DEF Rearrangements, Orders
<1>5. keys' \in Seq(Ports) /\ i' \in 1 .. n /\ j' \in (i + 1) .. (n + 1)
    BY <1>1 DEF Inv, TypeOK, InnerTurn
<1>6. TypeOK'
    BY <1>1, <1>2, <1>4, <1>5 DEF Inv, TypeOK, InnerTurn
<1> QED BY <1>1, <1>3, <1>6 DEF Inv, Rearranged

\* A turn of the outer loop keeps it.
LEMMA OuterInv == Inv /\ OuterTurn => Inv'
<1> SUFFICES ASSUME Inv, OuterTurn PROVE Inv'
    OBVIOUS
<1>1. n \in Nat /\ n' = n /\ i \in 1 .. n /\ i < n
    BY DEF Inv, TypeOK, OuterTurn, n
<1>2. TypeOK'
    BY <1>1 DEF Inv, TypeOK, OuterTurn
<1> QED BY <1>1, <1>2 DEF Inv, Rearranged, OuterTurn

\* The indices of both loops stay in range for a list of any length: every
\* a[...] of the function is an element of the vector.
THEOREM IndicesInRange == Spec => []TypeOK
<1>1. Inv /\ UNCHANGED vars => Inv'
    BY DEF Inv, TypeOK, Rearranged, vars, n
<1>2. Inv /\ [Next]_vars => Inv'
    BY <1>1, InnerInv, OuterInv DEF Next
<1>3. Inv => TypeOK
    BY DEF Inv
<1> QED BY InitInv, <1>2, <1>3, PTL DEF Spec

\* For a list of any length, at any point of the two loops, every client is in
\* the array exactly once.
THEOREM NoClientLost == Spec => []Rearranged
<1>1. Inv /\ UNCHANGED vars => Inv'
    BY DEF Inv, TypeOK, Rearranged, vars, n
<1>2. Inv /\ [Next]_vars => Inv'
    BY <1>1, InnerInv, OuterInv DEF Next
<1>3. Inv => Rearranged
    BY DEF Inv
<1> QED BY InitInv, <1>2, <1>3, PTL DEF Spec

\* Why a list in order stays as it is: no entry the inner loop has passed is
\* below entry i, so that the candidate stays i and every swap is of an entry
\* with itself.
Untouched ==
    Ordered([k \in 1 .. n |-> k]) =>
        /\ order = [k \in 1 .. n |-> k]
        /\ minIndex = i
        /\ \A k \in i .. (j - 1) : keys[i] <= keys[k]

\* A turn of the inner loop does not touch an ordered list.
LEMMA InnerUntouched == Inv /\ Untouched /\ InnerTurn => Untouched'
<1> SUFFICES ASSUME Inv, Untouched, InnerTurn,
                    Ordered([k \in 1 .. n |-> k])'
             PROVE  /\ order' = [k \in 1 .. n |-> k]
                    /\ minIndex' = i
                    /\ \A k \in i .. j : keys[i] <= keys[k]
    BY DEF Untouched, InnerTurn, Inv, TypeOK, n
<1>1. /\ n \in Nat /\ i \in 1 .. n /\ j \in 1 .. n /\ j > i
      /\ \A k \in 1 .. n : keys[k] \in Int
    BY KeysAreNumbers DEF Inv, TypeOK, InnerTurn
<1>2. \A k \in 1 .. (n - 1) : keys[k] <= keys[k + 1]
  <2>1. \A k \in 1 .. (n - 1) : /\ [h \in 1 .. n |-> h][k] = k
                                /\ [h \in 1 .. n |-> h][k + 1] = k + 1
    BY <1>1
  <2>2. Ordered([k \in 1 .. n |-> k])
    BY DEF Ordered, InnerTurn, n
  <2> QED BY <2>1, <2>2 DEF Ordered
<1>3. /\ order = [k \in 1 .. n |-> k]
      /\ minIndex = i
      /\ \A k \in i .. (j - 1) : keys[i] <= keys[k]
    BY DEF Untouched, Ordered, InnerTurn, n
<1>4. keys[i] <= keys[j - 1] /\ keys[j - 1] <= keys[j]
    BY <1>1, <1>2, <1>3
<1>5. keys[i] <= keys[j]
    BY <1>1, <1>4
<1>6. minIndex' = i
    BY <1>1, <1>3, <1>5 DEF InnerTurn, Candidate
<1>7. order' = [k \in 1 .. n |-> k]
    BY <1>1, <1>3, <1>6 DEF InnerTurn, Swap
<1> QED BY <1>1, <1>3, <1>5, <1>6, <1>7

\* Nor does a turn of the outer loop.
LEMMA OuterUntouched == Inv /\ Untouched /\ OuterTurn => Untouched'
<1> SUFFICES ASSUME Inv, Untouched, OuterTurn,
                    Ordered([k \in 1 .. n |-> k])'
             PROVE  /\ order = [k \in 1 .. n |-> k]
                    /\ keys[i + 1] <= keys[i + 1]
    BY DEF Untouched, OuterTurn, Inv, TypeOK, n
<1>1. order = [k \in 1 .. n |-> k]
    BY DEF Untouched, Ordered, OuterTurn, n
<1>2. keys[i + 1] \in Int
    BY KeysAreNumbers DEF Inv, TypeOK, OuterTurn
<1> QED BY <1>1, <1>2

\* A list of any length that is in order is not touched: an entry of
\* clients_sockets keeps its index through every REFRESH that meets the list
\* in order.
THEOREM OrderedListKept == Spec => []SortedStaysPut
<1> DEFINE I == Inv /\ Untouched
<1>1. Init => I
  <2> SUFFICES ASSUME Init PROVE I
      OBVIOUS
  <2>1. Inv
    BY InitInv
  <2>2. n \in Nat /\ n >= 2 /\ keys[1] \in Int
    BY <2>1, KeysAreNumbers DEF Inv, TypeOK
  <2> QED BY <2>1, <2>2 DEF Init, Untouched
<1>2. I /\ UNCHANGED vars => I'
    BY DEF Inv, TypeOK, Rearranged, Untouched, Ordered, vars, n
<1>3. I /\ [Next]_vars => I'
    BY <1>2, InnerInv, OuterInv, InnerUntouched, OuterUntouched DEF Next
<1>4. I => SortedStaysPut
    BY DEF Untouched, SortedStaysPut
<1> QED BY <1>1, <1>3, <1>4, PTL DEF Spec

\* Why the highest port ends up last: nothing that entry i can be given is
\* above all the entries after it, so what is largest is always still ahead.
LargestAhead ==
    /\ minIndex < j
    /\ \A p \in 1 .. n : \E k \in i .. n : keys[p] <= keys[order[k]]
    /\ i < n /\ j > n =>
          \A p \in 1 .. n : \E k \in (i + 1) .. n : keys[p] <= keys[order[k]]

\* A turn of the inner loop keeps the largest port ahead of i.
LEMMA InnerLargest == Inv /\ LargestAhead /\ InnerTurn => LargestAhead'
<1> SUFFICES ASSUME Inv, LargestAhead, InnerTurn PROVE LargestAhead'
    OBVIOUS
<1> DEFINE m == minIndex'
           K(k) == keys[order[k]]
           L(k) == keys[order'[k]]
<1>1. /\ n \in Nat /\ i \in 1 .. n /\ j \in 1 .. n /\ j > i /\ i < n
      /\ minIndex \in i .. n /\ minIndex < j
      /\ order \in [1 .. n -> 1 .. n]
      /\ n' = n /\ keys' = keys /\ i' = i /\ j' = j + 1
  <2>1. keys' = keys /\ i' = i /\ j' = j + 1 /\ i < n /\ j <= n
    BY DEF InnerTurn
  <2>2. n' = n /\ n \in Nat
    BY <2>1 DEF Inv, TypeOK, n
  <2>3. /\ i \in 1 .. n /\ j \in (i + 1) .. (n + 1) /\ minIndex \in i .. n
        /\ order \in [1 .. n -> 1 .. n] /\ minIndex < j
    BY DEF Inv, TypeOK, LargestAhead
  <2> QED BY <2>1, <2>2, <2>3
<1>2. m = IF K(j) < K(minIndex) THEN j ELSE minIndex
    BY DEF InnerTurn, Candidate
<1>3. order' = Swap(order, m, i)
    BY DEF InnerTurn
<1>4. m \in i .. j
    BY <1>1, <1>2
<1> HIDE DEF m
<1>5. /\ order'[i] = order[m] /\ order'[m] = order[i]
      /\ \A k \in 1 .. n : k # i /\ k # m => order'[k] = order[k]
    BY <1>1, <1>3, <1>4 DEF Swap
<1>6. L(i) = K(m) /\ L(m) = K(i)
      /\ \A k \in 1 .. n : k # i /\ k # m => L(k) = K(k)
    BY <1>5
<1>7. /\ \A p \in 1 .. n : keys[p] \in Int
      /\ \A k \in 1 .. n : K(k) \in Int
    BY <1>1, KeysAreNumbers
<1>8. \A p \in 1 .. n : \E k \in i .. n : keys[p] <= K(k)
    BY DEF LargestAhead
<1> HIDE DEF K, L
<1>9. \A p \in 1 .. n : \E k \in i .. n : keys[p] <= L(k)
  <2> SUFFICES ASSUME NEW p \in 1 .. n
               PROVE  \E k \in i .. n : keys[p] <= L(k)
    OBVIOUS
  <2>1. PICK k \in i .. n : keys[p] <= K(k)
    BY <1>8
  <2>2. k \in 1 .. n /\ m \in i .. n /\ i \in i .. n
    BY <1>1, <1>4
  <2> QED BY <1>6, <2>1, <2>2
<1>10. ASSUME j = n
       PROVE  \A p \in 1 .. n : \E k \in (i + 1) .. n : keys[p] <= L(k)
  <2> SUFFICES ASSUME NEW p \in 1 .. n
               PROVE  \E k \in (i + 1) .. n : keys[p] <= L(k)
    OBVIOUS
  <2>1. PICK k \in i .. n : keys[p] <= K(k)
    BY <1>8
  <2>2. k \in 1 .. n /\ n \in (i + 1) .. n
    BY <1>1
  <2>3. CASE k # i /\ k # m
    <3>1. k \in (i + 1) .. n
      BY <1>1, <2>3
    <3> QED BY <1>6, <2>1, <2>2, <2>3, <3>1
  <2>4. CASE k = i /\ k # m
    <3>1. m \in (i + 1) .. n
      BY <1>1, <1>4, <1>10, <2>4
    <3> QED BY <1>6, <2>1, <2>4, <3>1
  <2>5. CASE k = m /\ m = j
    <3>1. K(m) < K(minIndex) /\ minIndex \in 1 .. n /\ minIndex # m
      BY <1>1, <1>2, <1>7, <2>5
    <3>2. keys[p] <= K(minIndex)
      <4>1. keys[p] \in Int /\ K(m) \in Int /\ K(minIndex) \in Int
        BY <1>7, <2>2, <2>5, <3>1
      <4>2. keys[p] <= K(m)
        BY <2>1, <2>5
      <4> QED BY <3>1, <4>1, <4>2
    <3>3. CASE minIndex = i
      BY <1>6, <1>10, <2>2, <2>5, <3>2, <3>3
    <3>4. CASE minIndex # i
      <4>1. minIndex \in (i + 1) .. n
        BY <1>1, <3>4
      <4> QED BY <1>6, <3>1, <3>2, <3>4, <4>1
    <3> QED BY <3>3, <3>4
  <2>6. CASE k = m /\ m # j
    <3>1. m = minIndex /\ K(m) <= K(n)
      <4>1. m = minIndex /\ ~(K(n) < K(m))
        BY <1>2, <1>10, <2>6
      <4>2. K(n) \in Int /\ K(m) \in Int
        BY <1>1, <1>7, <2>2, <2>6
      <4> QED BY <4>1, <4>2
    <3>2. L(n) = K(n)
      BY <1>1, <1>6, <1>10, <2>6
    <3>3. keys[p] \in Int /\ K(m) \in Int /\ K(n) \in Int
      BY <1>1, <1>7, <2>2, <2>6
    <3>4. keys[p] <= K(m)
      BY <2>1, <2>6
    <3>5. keys[p] <= L(n)
      BY <3>1, <3>2, <3>3, <3>4
    <3> QED BY <2>2, <3>5
  <2> QED BY <2>3, <2>4, <2>5, <2>6
<1>11. \A p \in 1 .. n : \E k \in i .. n : keys[p] <= keys[order'[k]]
    BY <1>9 DEF L
<1>12. j = n => \A p \in 1 .. n : \E k \in (i + 1) .. n :
                                      keys[p] <= keys[order'[k]]
    BY <1>10 DEF L
<1>13. minIndex' < j'
    BY <1>1, <1>4 DEF m
<1> QED BY <1>1, <1>11, <1>12, <1>13 DEF LargestAhead

\* So does a turn of the outer loop.
LEMMA OuterLargest == Inv /\ LargestAhead /\ OuterTurn => LargestAhead'
<1> SUFFICES ASSUME Inv, LargestAhead, OuterTurn PROVE LargestAhead'
    OBVIOUS
<1>1. /\ n \in Nat /\ i \in 1 .. n /\ i < n /\ j > n
      /\ n' = n /\ keys' = keys /\ order' = order
      /\ i' = i + 1 /\ minIndex' = i + 1 /\ j' = i + 2
    BY DEF Inv, TypeOK, OuterTurn, n
<1>2. \A p \in 1 .. n : \E k \in (i + 1) .. n : keys[p] <= keys[order[k]]
    BY <1>1 DEF LargestAhead
<1>3. ~(i' < n' /\ j' > n')
    BY <1>1
<1> QED BY <1>1, <1>2, <1>3 DEF LargestAhead

\* The client with the highest port is listed last, for a list of any length,
\* although the rest of the list may be out of order.
THEOREM HighestPortIsLast == Spec => []LargestLast
<1> DEFINE I == Inv /\ LargestAhead
<1>1. Init => I
  <2> SUFFICES ASSUME Init PROVE I
      OBVIOUS
  <2>1. Inv
    BY InitInv
  <2>2. n \in Nat /\ n >= 2 /\ \A p \in 1 .. n : keys[p] \in Int
    BY <2>1, KeysAreNumbers DEF Inv, TypeOK
  <2>3. order = [k \in 1 .. n |-> k] /\ i = 1 /\ minIndex = 1 /\ j = 2
    BY DEF Init
  <2>4. \A p \in 1 .. n : p \in i .. n /\ keys[p] <= keys[order[p]]
    BY <2>2, <2>3
  <2>5. LargestAhead
    BY <2>2, <2>3, <2>4 DEF LargestAhead
  <2> QED BY <2>1, <2>5
<1>2. I /\ UNCHANGED vars => I'
    BY DEF Inv, TypeOK, Rearranged, LargestAhead, vars, n
<1>3. I /\ [Next]_vars => I'
    BY <1>2, InnerInv, OuterInv, InnerLargest, OuterLargest DEF Next
<1>4. I => LargestLast
  <2> SUFFICES ASSUME I, Done, NEW k \in 1 .. n
               PROVE  keys[order[k]] <= keys[order[n]]
    BY DEF LargestLast
  <2>1. i = n /\ n \in Nat /\ order[k] \in 1 .. n
    BY DEF Done, Inv, TypeOK
  <2>2. \E h \in n .. n : keys[order[k]] <= keys[order[h]]
    BY <2>1 DEF LargestAhead
  <2> QED BY <2>1, <2>2
<1> QED BY <1>1, <1>3, <1>4, PTL DEF Spec

\* The loops are where the operator is after as many turns: the outer loop has
\* made i - 1 passes, and the inner one has looked at the entries before j.
InStep ==
    Turns(keys, i, Passes(keys)[i])[j - 1] = [order |-> order, minIndex |-> minIndex]

\* A turn of the inner loop keeps them there.
LEMMA InnerInStep == Inv /\ InStep /\ InnerTurn => InStep'
<1> SUFFICES ASSUME Inv, InStep, InnerTurn PROVE InStep'
    OBVIOUS
<1> PICK o : o = Passes(keys)[i]
    OBVIOUS
<1> DEFINE st == [order |-> order, minIndex |-> minIndex]
<1>1. /\ n \in Nat \ {0} /\ i \in 1 .. n /\ j \in (i + 1) .. n /\ j \in 1 .. n
      /\ order \in Orders(n) /\ minIndex \in 1 .. n
      /\ keys' = keys /\ i' = i /\ j' = j + 1 /\ j' - 1 = j
    BY KeysAreNumbers DEF Inv, TypeOK, InnerTurn, Orders
<1>2. o \in Orders(n)
    BY <1>1, PassesStepwise DEF n, IsPasses
<1>3. Turns(keys, i, o)[j] = Turn(keys, i, j)[st]
  <2>1. Turns(keys, i, o)[j] = Turn(keys, i, j)[Turns(keys, i, o)[j - 1]]
    <3>1. /\ Len(keys) \in Nat /\ i \in 1 .. Len(keys) /\ o \in Orders(Len(keys))
          /\ j \in (i + 1) .. Len(keys)
      BY <1>1, <1>2 DEF n
    <3>2. IsTurns(Turns(keys, i, o), keys, i, o)
      BY <3>1, TurnsStepwise
    <3> QED BY <3>1, <3>2 DEF IsTurns
  <2> QED BY <2>1 DEF InStep
<1>4. Turn(keys, i, j)[st] = [order |-> order', minIndex |-> minIndex']
  <2>1. st \in [order : Orders(Len(keys)), minIndex : 1 .. Len(keys)]
    BY <1>1 DEF n
  <2> QED BY <2>1 DEF Turn, InnerTurn
<1> QED BY <1>1, <1>3, <1>4 DEF InStep

\* So does a turn of the outer loop.
LEMMA OuterInStep == Inv /\ InStep /\ OuterTurn => InStep'
<1> SUFFICES ASSUME Inv, InStep, OuterTurn PROVE InStep'
    OBVIOUS
<1>1. /\ n \in Nat \ {0} /\ i \in 1 .. n /\ i + 1 \in 2 .. n /\ i + 1 \in 1 .. n
      /\ (i + 1) - 1 = i /\ j - 1 = n
      /\ keys' = keys /\ order' = order /\ i' = i + 1 /\ minIndex' = i + 1
      /\ j' = i + 2 /\ j' - 1 = i + 1
    BY KeysAreNumbers DEF Inv, TypeOK, OuterTurn
<1>2. Passes(keys) \in [1 .. n -> Orders(n)]
    BY <1>1, PassesStepwise DEF n, IsPasses
<1>3. Passes(keys)[i + 1] = order
  <2>1. Passes(keys)[i + 1] = Pass(keys, (i + 1) - 1)[Passes(keys)[(i + 1) - 1]]
    BY <1>1, PassesStepwise DEF n, IsPasses
  <2>2. Pass(keys, i)[Passes(keys)[i]] = Turns(keys, i, Passes(keys)[i])[n].order
    BY <1>1, <1>2 DEF Pass, n
  <2> QED BY <1>1, <2>1, <2>2 DEF InStep
<1>4. Turns(keys, i + 1, order)[i + 1] = [order |-> order, minIndex |-> i + 1]
  <2>1. order \in Orders(n)
    BY <1>1, <1>2, <1>3
  <2> QED BY <1>1, <2>1, TurnsStepwise DEF n, IsTurns
<1> QED BY <1>1, <1>3, <1>4 DEF InStep

\* For a list of any length the loops end with what the operator says: the order
\* that ChatServer gives to a list is the one the code computes.
THEOREM LoopsComputeOperator == Spec => []LoopMatchesOperator
<1> DEFINE I == Inv /\ InStep
<1>1. Init => I
  <2> SUFFICES ASSUME Init PROVE I
      OBVIOUS
  <2>1. Inv
    BY InitInv
  <2>2. n \in Nat \ {0} /\ 1 \in 1 .. n
    BY <2>1, KeysAreNumbers DEF Inv, TypeOK
  <2>3. /\ order = [k \in 1 .. n |-> k] /\ i = 1 /\ minIndex = 1 /\ j - 1 = 1
        /\ order \in Orders(n)
    BY DEF Init, Orders
  <2>4. Passes(keys)[1] = order
    BY <2>2, <2>3, PassesStepwise DEF n, IsPasses
  <2>5. Turns(keys, 1, order)[1] = [order |-> order, minIndex |-> 1]
    BY <2>2, <2>3, TurnsStepwise DEF n, IsTurns
  <2> QED BY <2>1, <2>3, <2>4, <2>5 DEF InStep
<1>2. I /\ UNCHANGED vars => I'
    BY DEF Inv, TypeOK, Rearranged, InStep, vars, n
<1>3. I /\ [Next]_vars => I'
    BY <1>2, InnerInv, OuterInv, InnerInStep, OuterInStep DEF Next
<1>4. I => LoopMatchesOperator
  <2> SUFFICES ASSUME I, Done PROVE order = Passes(keys)[n]
    <3>1. I => Len(keys) > 1
      BY KeysAreNumbers DEF Inv, TypeOK, n
    <3> QED BY <3>1 DEF LoopMatchesOperator, selectionSortArray, n
  <2>1. n \in Nat \ {0} /\ n \in 1 .. n /\ i = n /\ j - 1 = n
    BY KeysAreNumbers DEF Done, Inv, TypeOK
  <2>2. Passes(keys)[n] \in Orders(n)
    BY <2>1, PassesStepwise DEF n, IsPasses
  <2>3. Turns(keys, n, Passes(keys)[n])[n] =
            [order |-> Passes(keys)[n], minIndex |-> n]
    BY <2>1, <2>2, TurnsStepwise DEF n, IsTurns
  <2> QED BY <2>1, <2>3 DEF InStep
<1> QED BY <1>1, <1>3, <1>4, PTL DEF Spec
=============================================================================
