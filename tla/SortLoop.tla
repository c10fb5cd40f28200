------------------------------ MODULE SortLoop ------------------------------
(***************************************************************************)
(* The two loops of server::selectionSortArray as a state machine, one     *)
(* action per turn, so that what they preserve can be seen at every point  *)
(* and proved for an array of any length, and that they compute what the   *)
(* operators of SelectionSort, which ChatServer uses, say they compute.    *)
(***************************************************************************)
EXTENDS SelectionSort

CONSTANTS Ports,    \* listening ports of the clients to sort
          MaxLen    \* bound on the length of the array, for model checking

ASSUME SortAssumption == Ports \subseteq Int /\ MaxLen \in Nat

VARIABLES keys,     \* port of each client, by position in the argument
          order,    \* the array: which original position each entry holds
          i, j, minIndex

vars == <<keys, order, i, j, minIndex>>

n == Len(keys)

\* Every caller sorts only lists of two or more (lines 575, 624, 703); a
\* shorter one would make a.size()-1 meaningless for the empty vector.
Init == /\ keys \in UNION {[1 .. k -> Ports] : k \in 2 .. MaxLen}
        /\ order = [k \in 1 .. n |-> k]
        /\ i = 1
        /\ minIndex = 1
        /\ j = 2

\* Bug: the swap comes before the comparison.
InnerTurnSwapFirst == /\ i < n
                      /\ j <= n
                      /\ order' = Swap(order, minIndex, i)
                      /\ minIndex' = Candidate(keys, order', j, minIndex)
                      /\ j' = j + 1
                      /\ UNCHANGED <<keys, i>>

InnerTurn == /\ i < n
             /\ j <= n
             /\ minIndex' = Candidate(keys, order, j, minIndex)
             /\ order' = Swap(order, minIndex', i)
             /\ j' = j + 1
             /\ UNCHANGED <<keys, i>>

\* Bug: the inner loop starts one too early.
OuterTurnEarly == /\ i < n
                  /\ j > n
                  /\ i' = i + 1
                  /\ minIndex' = i + 1
                  /\ j' = i + 1
                  /\ UNCHANGED <<keys, order>>

OuterTurn == /\ i < n
             /\ j > n
             /\ i' = i + 1
             /\ minIndex' = i + 1
             /\ j' = i + 2
             /\ UNCHANGED <<keys, order>>

Next == InnerTurn \/ OuterTurn

Spec == Init /\ [][Next]_vars

Done == i = n

-----------------------------------------------------------------------------
TypeOK == /\ keys \in Seq(Ports)
          /\ n >= 2
          /\ order \in [1 .. n -> 1 .. n]
          /\ i \in 1 .. n
          /\ j \in (i + 1) .. (n + 1)
          /\ minIndex \in i .. n

Ordered(f) == \A k \in 1 .. (n - 1) : keys[f[k]] <= keys[f[k + 1]]

\* No client is lost or listed twice, at any point of the two loops.
Rearranged == order \in Rearrangements(n)

\* The loops compute what SelectionSort's operator says they compute: the
\* server model, which uses the operator, uses the code's algorithm.
LoopMatchesOperator == Done => order = selectionSortArray(keys)

\* Although the swap inside the inner loop spoils the order of the rest, the
\* client with the highest port is always listed last.
LargestLast == Done => \A k \in 1 .. n : keys[order[k]] <= keys[order[n]]

\* A list that is already in order is not touched: a REFRESH that meets a
\* sorted client list leaves every entry of clients_sockets where it is.
SortedStaysPut ==
    Ordered([k \in 1 .. n |-> k]) => order = [k \in 1 .. n |-> k]

\* include/server.h:128 says of getListOfClients "Returns list of clients
\* currently logged in - sorted by port number".
SortedByPort == Done => Ordered(order)
=============================================================================
