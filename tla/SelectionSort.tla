--------------------------- MODULE SelectionSort ---------------------------
(***************************************************************************)
(* server::selectionSortArray (src/server.cpp:509), which LIST, REFRESH,   *)
(* NEWCLIENT, STATISTICS and BLOCKED use to put clients in the order of    *)
(* their listening ports.  The array is modelled by the order in which it  *)
(* shows its original positions: entry k of the result is the position the *)
(* k-th element had in the argument, so `keys` (the ports, by original     *)
(* position) never moves and a result that loses or repeats an element is  *)
(* an `order` that is not injective.  Indices run from 1 instead of 0.     *)
(***************************************************************************)
EXTENDS Integers, Sequences

\* The three assignments through `temp`.  Bug: two of them, without it.
Overwrite(order, i, k) == [order EXCEPT ![i] = order[k]]
Swap(order, i, k) == [order EXCEPT ![i] = order[k], ![k] = order[i]]

\* Bug: the comparison the wrong way round; and one that is not strict.
CandidateLargest(keys, order, j, minIndex) ==
    IF keys[order[j]] > keys[order[minIndex]] THEN j ELSE minIndex
CandidateLast(keys, order, j, minIndex) ==
    IF keys[order[j]] <= keys[order[minIndex]] THEN j ELSE minIndex

\* The comparison: the candidate for the minimum after looking at entry j.
Candidate(keys, order, j, minIndex) ==
    IF keys[order[j]] < keys[order[minIndex]] THEN j ELSE minIndex

Orders(n) == [1 .. n -> 1 .. n]

\* One turn of the inner loop, as a function of what the loop carries along.
\* The swap is inside the loop, not after it.
Turn(keys, i, j) ==
    [st \in [order : Orders(Len(keys)), minIndex : 1 .. Len(keys)] |->
        LET m == Candidate(keys, st.order, j, st.minIndex)
        IN  [order |-> Swap(st.order, m, i), minIndex |-> m]]

\* What the inner loop carries along, for one i, after it has looked at entry j.
Turns(keys, i, order) ==
    LET after[j \in i .. Len(keys)] ==
            IF j = i THEN [order |-> order, minIndex |-> i]
            ELSE Turn(keys, i, j)[after[j - 1]]
    IN  after

Pass(keys, i) ==
    [order \in Orders(Len(keys)) |-> Turns(keys, i, order)[Len(keys)].order]

\* The array as the outer loop finds it at each i.
Passes(keys) ==
    LET before[i \in 1 .. Len(keys)] ==
            IF i = 1 THEN [k \in 1 .. Len(keys) |-> k]
            ELSE Pass(keys, i - 1)[before[i - 1]]
    IN  before

\* No caller sorts a list of less than two, which a.size()-1 would not fit.
selectionSortArray(keys) ==
    IF Len(keys) > 1 THEN Passes(keys)[Len(keys)]
    ELSE [k \in 1 .. Len(keys) |-> k]

\* The orders a sort may produce: every position once.
Rearrangements(n) ==
    {f \in Orders(n) : /\ \A x, y \in 1 .. n : f[x] = f[y] => x = y
                       /\ \A y \in 1 .. n : \E x \in 1 .. n : f[x] = y}
=============================================================================
