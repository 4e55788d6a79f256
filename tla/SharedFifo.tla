------------------------------ MODULE SharedFifo ------------------------------
(***************************************************************************)
(* What ringbuffer.cpp promises two threads without a lock: one queue of   *)
(* bytes, of at most Capacity.  A write that wraps becomes visible in two  *)
(* pieces, so a step here is a piece of a call and not a call: some bytes  *)
(* are appended, or some at the front are handed to the reader.            *)
(***************************************************************************)
EXTENDS Naturals, Sequences

CONSTANT Capacity

VARIABLES contents, \* what the writer has published and the reader not yet taken
          taken     \* all that the reader has taken, in the order it got it

sharedVars == <<contents, taken>>

Init == contents = <<>> /\ taken = <<>>

Put == /\ Len(contents) <= Len(contents') /\ Len(contents') <= Capacity
       /\ SubSeq(contents', 1, Len(contents)) = contents
       /\ UNCHANGED taken

Take == \E n \in 1 .. Len(contents) :
          /\ taken' = taken \o SubSeq(contents, 1, n)
          /\ contents' = SubSeq(contents, n + 1, Len(contents))

Next == Put \/ Take

Spec == Init /\ [][Next]_sharedVars
=============================================================================
