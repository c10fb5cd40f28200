---------------------------- MODULE FrameReader ----------------------------
(***************************************************************************)
(* What ChatServer and ChatClient assume of a connection: a read returns   *)
(* the next frame that was sent, and takes it and perhaps some of those    *)
(* behind it, which nobody sees.  Two things end this: a sender that stops *)
(* in the middle of a frame, of which the reader may make anything once    *)
(* all frames are taken; and a read that mixes up frames.                  *)
(***************************************************************************)
EXTENDS Naturals, Sequences

CONSTANT Payloads

VARIABLES frames, taken, handled,
          torn,     \* the sender has stopped in the middle of a frame
          astray    \* a read has mixed up frames

readerVars == <<frames, taken, handled, torn, astray>>

Init == /\ frames = <<>> /\ taken = 0 /\ handled = <<>>
        /\ torn = FALSE /\ astray = FALSE

Send(p) == /\ ~torn
           /\ frames' = Append(frames, p)
           /\ UNCHANGED <<taken, handled, torn, astray>>

Tear == /\ torn' = TRUE
        /\ UNCHANGED <<frames, taken, handled, astray>>

Read == /\ taken < Len(frames)
        /\ taken' \in (taken + 1) .. Len(frames)
        /\ handled' = Append(handled, frames[taken + 1])
        /\ UNCHANGED <<frames, torn, astray>>

\* Something is handled, or not.
Anything == \/ UNCHANGED handled
            \/ /\ Len(handled') = Len(handled) + 1
               /\ SubSeq(handled', 1, Len(handled)) = handled

ReadTorn == /\ torn /\ taken = Len(frames)
            /\ Anything
            /\ UNCHANGED <<frames, taken, torn, astray>>

ReadAstray == /\ astray'
              /\ taken' \in taken .. Len(frames)
              /\ Anything
              /\ UNCHANGED <<frames, torn>>

Next == Read \/ Tear \/ ReadTorn \/ ReadAstray \/ \E p \in Payloads : Send(p)

Spec == Init /\ [][Next]_readerVars
=============================================================================
