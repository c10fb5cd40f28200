------------------------------ MODULE Strings ------------------------------
(***************************************************************************)
(* The operations of std::string that the program takes messages apart     *)
(* with, on sequences of characters.  Positions count from 0 as in C++;    *)
(* npos is the largest unsigned number, and adding to it wraps, as adding  *)
(* to -1 does.                                                             *)
(***************************************************************************)
EXTENDS Integers, Sequences, FiniteSetsExt

NUL == "NUL"
npos == -1

\* s.find(t)
find(s, t) ==
    LET at == {i \in 0 .. Len(s) - Len(t) : SubSeq(s, i + 1, i + Len(t)) = t}
    IN  IF at = {} THEN npos ELSE Min(at)

\* s.substr(pos, n); it throws if pos > Len(s).
substr(s, pos, n) ==
    SubSeq(s, pos + 1, IF n = npos THEN Len(s) ELSE Min({Len(s), pos + n}))

\* string(p): the memory from p up to the first NUL, of the memory that is given.
string(buffer) ==
    substr(buffer, 0, find(buffer, <<NUL>>))
=============================================================================
