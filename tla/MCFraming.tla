----------------------------- MODULE MCFraming -----------------------------
(***************************************************************************)
(* Instances of Framing for TLC.                                           *)
(***************************************************************************)
EXTENDS Framing

\* In a buffer of ten: one of which two fit, and one for three reads, whose end
\* tag does not come whole.
Messages == {<<"x">>, [k \in 1 .. 17 |-> IF k < 9 THEN "x" ELSE "y"]}
Short == {<<"x">>, <<"y", "x", "y">>}
Long == {<<"x", "x", "y", "x">>}

\* Memory in which an end tag stands wherever a read ends.
OldMemory == {[k \in 1 .. bufsize |-> IF k % 2 = 1 THEN "<" ELSE "E"]}
NoMemory == {}

\* The terminator at once, or more.
Neighbours == {<<>>, <<"<", "E">>}
Terminator == {<<>>}
Neighbour == {<<"y">>}
=============================================================================
