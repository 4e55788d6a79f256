------------------------------ MODULE RingBuffer ------------------------------
(***************************************************************************)
(* ringbuffer_t (src/src/ringbuffer.cpp) called by one thread at a time,   *)
(* as VideoEncoder uses its own: two indices into a block whose size is a  *)
(* power of two, copied in one piece or, across the end, in two.  One slot *)
(* stays empty to tell full from empty.                                    *)
(*                                                                         *)
(* Two threads at once are the subject of RingBufferSPSC.                  *)
(***************************************************************************)
EXTENDS Integers, Sequences

CONSTANTS
  Bytes,      \* what the block holds
  Requested,  \* the sz of ringbuffer_create(sz)
  Inputs,     \* bound: the blocks that are written
  Counts      \* bound: the numbers of bytes that are asked for

\* ringbuffer_create: the first 1 << power_of_two, from 2 up, that is not < sz.
Size == 2 ^ (CHOOSE p \in 1..31 : /\ 2 ^ p >= Requested
                                  /\ \A q \in 1..p - 1 : 2 ^ q < Requested)

ASSUME RingAssumption == /\ Requested \in Nat
                         /\ Size \in Nat /\ Size >= 2
                         /\ Inputs \subseteq Seq(Bytes)
                         /\ Counts \subseteq Nat

VARIABLES buf,        \* [0..Size-1 -> Bytes]
          write_ptr, read_ptr,
          dest,       \* what the last read, peek or read vector delivered
          ret         \* the number of bytes the last call reported

vars == <<buf, write_ptr, read_ptr, dest, ret>>

AtMost(n, bound) == IF n > bound THEN bound ELSE n

Indices == 0..Size - 1

\* x & size_mask: the size is a power of two.
Masked(x) == x % Size

ReadSpace(w, r) == IF w > r THEN w - r ELSE Masked(w - r + Size)

\* Mutant: the slot that keeps full apart from empty is given away.
WriteSpaceWhole(w, r) == IF w > r THEN Masked(r - w + Size)
                         ELSE IF w < r THEN r - w
                         ELSE Size

WriteSpace(w, r) == IF w > r THEN Masked(r - w + Size) - 1
                    ELSE IF w < r THEN (r - w) - 1
                    ELSE Size - 1

\* n bytes from `at': n1 up to the end of the block, n2 from its beginning.
Split(at, n) == IF at + n > Size THEN <<Size - at, Masked(at + n)>> ELSE <<n, 0>>

\* The pointer after n1 and n2 bytes, masked after each piece.
Advanced(at, pieces) == Masked(Masked(at + pieces[1]) + pieces[2])

\* The two copies out of the block and into it.
Fetch(at, pieces) ==
  [i \in 1..pieces[1] + pieces[2] |->
     IF i <= pieces[1] THEN buf[at + i - 1]
     ELSE buf[Masked(at + pieces[1]) + i - pieces[1] - 1]]

Stored(at, pieces, src) ==
  LET start2 == Masked(at + pieces[1]) IN
  [k \in Indices |->
     IF start2 <= k /\ k < start2 + pieces[2] THEN src[pieces[1] + k - start2 + 1]
     ELSE IF at <= k /\ k < at + pieces[1] THEN src[k - at + 1]
     ELSE buf[k]]

-----------------------------------------------------------------------------
\* malloc does not clear the block.
Init == /\ buf \in [Indices -> Bytes]
        /\ write_ptr = 0 /\ read_ptr = 0
        /\ dest = <<>> /\ ret = 0

\* Returns 0 at once when there is no space: the same as writing 0 bytes.
Write(src) ==
  LET n      == AtMost(Len(src), WriteSpace(write_ptr, read_ptr))
      pieces == Split(write_ptr, n)
  IN /\ buf' = Stored(write_ptr, pieces, src)
     /\ write_ptr' = Advanced(write_ptr, pieces)
     /\ ret' = n
     /\ UNCHANGED <<read_ptr, dest>>

Peek(cnt) ==
  LET n == AtMost(cnt, ReadSpace(write_ptr, read_ptr))
  IN /\ dest' = Fetch(read_ptr, Split(read_ptr, n))
     /\ ret' = n
     /\ UNCHANGED <<buf, write_ptr, read_ptr>>

Read(cnt) ==
  LET n      == AtMost(cnt, ReadSpace(write_ptr, read_ptr))
      pieces == Split(read_ptr, n)
  IN /\ dest' = Fetch(read_ptr, pieces)
     /\ read_ptr' = Advanced(read_ptr, pieces)
     /\ ret' = n
     /\ UNCHANGED <<buf, write_ptr>>

\* The non-copying interface, used as ringbuffer.h describes it: get the vector,
\* copy at most what it covers, advance by what was copied.  The advance masks once.
ReadThroughVector(cnt) ==
  LET pieces == Split(read_ptr, ReadSpace(write_ptr, read_ptr))
      n      == AtMost(cnt, pieces[1] + pieces[2])
      n1     == AtMost(n, pieces[1])
  IN /\ dest' = Fetch(read_ptr, <<n1, n - n1>>)
     /\ read_ptr' = Masked(read_ptr + n)
     /\ ret' = n
     /\ UNCHANGED <<buf, write_ptr>>

WriteThroughVector(src) ==
  LET pieces == Split(write_ptr, WriteSpace(write_ptr, read_ptr))
      n      == AtMost(Len(src), pieces[1] + pieces[2])
      n1     == AtMost(n, pieces[1])
  IN /\ buf' = Stored(write_ptr, <<n1, n - n1>>, src)
     /\ write_ptr' = Masked(write_ptr + n)
     /\ ret' = n
     /\ UNCHANGED <<read_ptr, dest>>

Reset == /\ read_ptr' = 0
         /\ write_ptr' = 0
         /\ UNCHANGED <<buf, dest, ret>>

Next == \/ \E src \in Inputs : Write(src) \/ WriteThroughVector(src)
        \/ \E cnt \in Counts : Peek(cnt) \/ Read(cnt) \/ ReadThroughVector(cnt)
        \/ Reset

Spec == Init /\ [][Next]_vars

-----------------------------------------------------------------------------
(* Properties *)

TypeOK == /\ buf \in [Indices -> Bytes]
          /\ write_ptr \in Indices /\ read_ptr \in Indices
          /\ dest \in Seq(Bytes)
          /\ ret \in Nat

\* One slot, and no more than one, is always kept: the two spaces that a reader
\* and a writer compute on their own add up to the capacity
\* (ringbuffer.cpp:97-137).
SpacesAddUp == ReadSpace(write_ptr, read_ptr) + WriteSpace(write_ptr, read_ptr) = Size - 1

\* Whatever the wraps and the partial writes, the block is a queue of bytes of
\* capacity size - 1 (ringbuffer.cpp:97-362).
Contents == [i \in 1..ReadSpace(write_ptr, read_ptr) |-> buf[Masked(read_ptr + i - 1)]]
Fifo == INSTANCE ByteFifo WITH contents <- Contents, Capacity <- Size - 1
ImplementsFifo == Fifo!Spec
=============================================================================
