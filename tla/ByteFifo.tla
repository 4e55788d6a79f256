------------------------------- MODULE ByteFifo -------------------------------
(***************************************************************************)
(* What ringbuffer.h promises one caller: a queue of bytes that holds at   *)
(* most Capacity of them.  A write takes as much of its input as fits, a   *)
(* read returns at most what it was asked for, from the front, a peek the  *)
(* same without removing it.                                               *)
(***************************************************************************)
EXTENDS Naturals, Sequences

CONSTANTS Bytes, Capacity, Inputs, Counts

VARIABLES contents, \* what has been written and not yet read
          dest,     \* what the last call copied to its caller
          ret       \* what the last call returned

fifoVars == <<contents, dest, ret>>

AtMost(n, bound) == IF n > bound THEN bound ELSE n

Init == contents = <<>> /\ dest = <<>> /\ ret = 0

Write(s) == LET n == AtMost(Len(s), Capacity - Len(contents)) IN
  /\ contents' = contents \o SubSeq(s, 1, n)
  /\ ret' = n
  /\ UNCHANGED dest

Peek(cnt) == LET n == AtMost(cnt, Len(contents)) IN
  /\ dest' = SubSeq(contents, 1, n)
  /\ ret' = n
  /\ UNCHANGED contents

Read(cnt) == LET n == AtMost(cnt, Len(contents)) IN
  /\ dest' = SubSeq(contents, 1, n)
  /\ ret' = n
  /\ contents' = SubSeq(contents, n + 1, Len(contents))

Reset == contents' = <<>> /\ UNCHANGED <<dest, ret>>

Next == \/ \E s \in Inputs : Write(s)
        \/ \E cnt \in Counts : Peek(cnt) \/ Read(cnt)
        \/ Reset

Spec == Init /\ [][Next]_fifoVars
=============================================================================
