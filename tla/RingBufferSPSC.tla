---------------------------- MODULE RingBufferSPSC ----------------------------
(***************************************************************************)
(* ringbuffer_write and ringbuffer_read (src/src/ringbuffer.cpp) by two    *)
(* threads and no lock: VideoLayer::feed writes the audio ring that        *)
(* JackClient::Process reads, Process writes the rings that                *)
(* OggTheoraEncoder::Mux reads.  The pointers are volatile: each of `+='   *)
(* and `&=' is a load and a store of its own.                              *)
(*                                                                         *)
(* The bytes are numbered in the order they are written, so what is read   *)
(* tells a byte that is lost, repeated, out of order or never written (0). *)
(***************************************************************************)
EXTENDS Integers, Sequences

CONSTANTS
  Size,           \* of the block: what ringbuffer_create rounds to
  Blocks,         \* bound: the numbers of bytes asked of one call
  MaxBytes,       \* bound: bytes written in all
  WindowObserved  \* FALSE: the other thread never sees the value of a pointer
                  \* between its `+=' and its `&='

ASSUME SPSCAssumption == /\ Size \in Nat /\ Size >= 2
                         /\ Blocks \subseteq Nat \ {0}
                         /\ MaxBytes \in Nat
                         /\ WindowObserved \in BOOLEAN

VARIABLES buf, write_ptr, read_ptr,
          writer, reader,  \* [pc, cnt, n1, n2] of the call in progress
          sent,            \* history: bytes that write() has copied
          received         \* history: what read() has copied, in order

vars == <<buf, write_ptr, read_ptr, writer, reader, sent, received>>

Indices == 0..Size - 1

\* x & size_mask: the size is a power of two.
Masked(x) == x % Size

AtMost(n, bound) == IF n > bound THEN bound ELSE n

\* Mutant: bytes behind the read pointer are not seen.
ReadSpaceAhead(w, r) == IF w > r THEN w - r ELSE 0

ReadSpace(w, r) == IF w > r THEN w - r ELSE Masked(w - r + Size)

\* Mutant: the slot that keeps full apart from empty is given away.
WriteSpaceWhole(w, r) == IF w > r THEN Masked(r - w + Size)
                         ELSE IF w < r THEN r - w
                         ELSE Size

WriteSpace(w, r) == IF w > r THEN Masked(r - w + Size) - 1
                    ELSE IF w < r THEN (r - w) - 1
                    ELSE Size - 1

\* The call as it leaves the computation of n1 and n2.
Pieces(call, at, n) ==
  [call EXCEPT !.pc = "copy1",
               !.n1 = IF at + n > Size THEN Size - at ELSE n,
               !.n2 = IF at + n > Size THEN Masked(at + n) ELSE 0]

Idle == [pc |-> "idle", cnt |-> 0, n1 |-> 0, n2 |-> 0]

Init == /\ buf = [k \in Indices |-> 0]
        /\ write_ptr = 0 /\ read_ptr = 0
        /\ writer = Idle /\ reader = Idle
        /\ sent = 0 /\ received = <<>>

\* After `+=' the pointer is masked by a second store.
StoredBy(add) == IF WindowObserved THEN add ELSE Masked(add)

-----------------------------------------------------------------------------
(* The writing thread *)

\* Whether the caller has asked for write_space first, as Process does and
\* VideoLayer::feed does not, makes no difference to the ring.
WriteCall(cnt) ==
  /\ writer.pc = "idle"
  /\ sent + cnt <= MaxBytes
  /\ writer' = [Idle EXCEPT !.pc = "space", !.cnt = cnt]
  /\ UNCHANGED <<buf, write_ptr, read_ptr, reader, sent, received>>

WriteLoadSpace ==
  LET n == AtMost(writer.cnt, WriteSpace(write_ptr, read_ptr)) IN
  /\ writer.pc = "space"
  /\ writer' = IF n = 0 THEN Idle ELSE Pieces(writer, write_ptr, n)
  /\ UNCHANGED <<buf, write_ptr, read_ptr, reader, sent, received>>

\* jmemcpy of one piece at the pointer.
WriteCopy(here, n, next) ==
  /\ writer.pc = here
  /\ buf' = [k \in Indices |-> IF write_ptr <= k /\ k < write_ptr + n
                               THEN sent + 1 + (k - write_ptr) ELSE buf[k]]
  /\ sent' = sent + n
  /\ writer' = [writer EXCEPT !.pc = next]
  /\ UNCHANGED <<write_ptr, read_ptr, reader, received>>

WriteAdd(here, n, next) ==
  /\ writer.pc = here
  /\ write_ptr' = StoredBy(write_ptr + n)
  /\ writer' = [writer EXCEPT !.pc = next]
  /\ UNCHANGED <<buf, read_ptr, reader, sent, received>>

WriteMask(here, next) ==
  /\ writer.pc = here
  /\ write_ptr' = Masked(write_ptr)
  /\ writer' = IF next = "idle" \/ writer.n2 = 0 THEN Idle
               ELSE [writer EXCEPT !.pc = next]
  /\ UNCHANGED <<buf, read_ptr, reader, sent, received>>

WriterStep == \/ WriteLoadSpace
              \/ WriteCopy("copy1", writer.n1, "add1")
              \/ WriteAdd("add1", writer.n1, "mask1")
              \/ WriteMask("mask1", "copy2")
              \/ WriteCopy("copy2", writer.n2, "add2")
              \/ WriteAdd("add2", writer.n2, "mask2")
              \/ WriteMask("mask2", "idle")

-----------------------------------------------------------------------------
(* The reading thread *)

ReadCall(cnt) ==
  /\ reader.pc = "idle"
  /\ reader' = [Idle EXCEPT !.pc = "space", !.cnt = cnt]
  /\ UNCHANGED <<buf, write_ptr, read_ptr, writer, sent, received>>

ReadLoadSpace ==
  LET n == AtMost(reader.cnt, ReadSpace(write_ptr, read_ptr)) IN
  /\ reader.pc = "space"
  /\ reader' = IF n = 0 THEN Idle ELSE Pieces(reader, read_ptr, n)
  /\ UNCHANGED <<buf, write_ptr, read_ptr, writer, sent, received>>

ReadCopy(here, n, next) ==
  /\ reader.pc = here
  /\ received' = received \o [i \in 1..n |-> buf[read_ptr + i - 1]]
  /\ reader' = [reader EXCEPT !.pc = next]
  /\ UNCHANGED <<buf, write_ptr, read_ptr, writer, sent>>

ReadAdd(here, n, next) ==
  /\ reader.pc = here
  /\ read_ptr' = StoredBy(read_ptr + n)
  /\ reader' = [reader EXCEPT !.pc = next]
  /\ UNCHANGED <<buf, write_ptr, writer, sent, received>>

ReadMask(here, next) ==
  /\ reader.pc = here
  /\ read_ptr' = Masked(read_ptr)
  /\ reader' = IF next = "idle" \/ reader.n2 = 0 THEN Idle
               ELSE [reader EXCEPT !.pc = next]
  /\ UNCHANGED <<buf, write_ptr, writer, sent, received>>

ReaderStep == \/ ReadLoadSpace
              \/ ReadCopy("copy1", reader.n1, "add1")
              \/ ReadAdd("add1", reader.n1, "mask1")
              \/ ReadMask("mask1", "copy2")
              \/ ReadCopy("copy2", reader.n2, "add2")
              \/ ReadAdd("add2", reader.n2, "mask2")
              \/ ReadMask("mask2", "idle")

-----------------------------------------------------------------------------
Next == \/ \E cnt \in Blocks : WriteCall(cnt) \/ ReadCall(cnt)
        \/ WriterStep \/ ReaderStep

Spec == Init /\ [][Next]_vars

\* Both threads finish the calls they begin, and the reader keeps reading.
FairSpec == /\ Spec
            /\ WF_vars(WriterStep) /\ WF_vars(ReaderStep)
            /\ WF_vars(\E cnt \in Blocks : ReadCall(cnt))

-----------------------------------------------------------------------------
(* Properties *)

\* What is read is what was written: every byte once, in order, none invented
\* (ringbuffer.cpp:20, "This is safe for the case of one read thread and one
\* write thread").
InOrder == \A i \in 1..Len(received) : received[i] = i

\* The two threads never copy to and from the same bytes of the block at the
\* same time (ringbuffer.cpp:160, 168, 245, 253).
Copying(call, at) == IF call.pc = "copy1" THEN at..at + call.n1 - 1
                     ELSE IF call.pc = "copy2" THEN at..at + call.n2 - 1
                     ELSE {}
CopiesAreDisjoint == Copying(writer, write_ptr) \intersect Copying(reader, read_ptr) = {}

\* A reader that keeps reading gets everything that was written.
EverythingArrives == \A n \in 1..MaxBytes : sent >= n ~> Len(received) >= n
=============================================================================
