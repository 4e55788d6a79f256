------------------------- MODULE VideoEncoder_proofs -------------------------
(***************************************************************************)
(* Proofs about RingBuffer, for every size: its indices stay inside the    *)
(* block, the spaces that readers and writers compute agree, and it        *)
(* implements the queue of bytes ByteFifo.  Then about VideoEncoder, which *)
(* writes and reads that ring, for every size of the ring, of the headers  *)
(* and of the frames.                                                      *)
(***************************************************************************)
EXTENDS VideoEncoder, SequenceTheorems, TLAPS

-----------------------------------------------------------------------------
(* Masking, and the spaces. *)

\* The mask takes a sum of two indices back into the block.
LEMMA MaskedValue ==
  ASSUME NEW x \in 0..2 * Size - 1
  PROVE  Masked(x) = IF x < Size THEN x ELSE x - Size
<1>1. Size \in Nat /\ Size >= 2
  BY RingAssumption
<1>2. CASE x < Size
  BY <1>1, <1>2, SMT DEF Masked
<1>3. CASE x >= Size
  <2>1. x = 1 * Size + (x - Size) /\ x - Size \in 0..Size - 1
    BY <1>1, <1>3
  <2>2. x % Size = x - Size
    BY <1>1, <2>1, <1>3, SMT
  <2> QED BY <2>2, <1>3, <1>1 DEF Masked
<1> QED BY <1>1, <1>2, <1>3

\* The spaces of a pair of pointers.
LEMMA SpaceValues ==
  ASSUME NEW w \in Indices, NEW r \in Indices
  PROVE  /\ ReadSpace(w, r) = IF w >= r THEN w - r ELSE w - r + Size
         /\ ReadSpace(w, r) \in 0..Size - 1
         /\ WriteSpace(w, r) = Size - 1 - ReadSpace(w, r)
         /\ WriteSpace(w, r) \in 0..Size - 1
<1>1. Size \in Nat /\ Size >= 2
  BY RingAssumption
<1>2. CASE w > r
  <2>1. Masked(r - w + Size) = r - w + Size
    BY <1>1, <1>2, MaskedValue DEF Indices
  <2> QED BY <1>1, <1>2, <2>1 DEF ReadSpace, WriteSpace, Indices
<1>3. CASE w < r
  <2>1. Masked(w - r + Size) = w - r + Size
    BY <1>1, <1>3, MaskedValue DEF Indices
  <2> QED BY <1>1, <1>3, <2>1 DEF ReadSpace, WriteSpace, Indices
<1>4. CASE w = r
  <2>1. Masked(w - r + Size) = 0
    BY <1>1, <1>4, MaskedValue DEF Indices
  <2> QED BY <1>1, <1>4, <2>1 DEF ReadSpace, WriteSpace, Indices
<1> QED BY <1>1, <1>2, <1>3, <1>4 DEF Indices

\* Moving a pointer within the space it has moves both spaces by as much.
LEMMA WriterMoves ==
  ASSUME NEW w \in Indices, NEW r \in Indices, NEW n \in 0..WriteSpace(w, r)
  PROVE  /\ Masked(w + n) \in Indices
         /\ ReadSpace(Masked(w + n), r) = ReadSpace(w, r) + n
<1>1. Size \in Nat /\ Size >= 2
  BY RingAssumption
<1>2. /\ ReadSpace(w, r) = IF w >= r THEN w - r ELSE w - r + Size
      /\ n \in 0..Size - 1 /\ n <= Size - 1 - ReadSpace(w, r)
  BY SpaceValues, <1>1
<1>3. Masked(w + n) = IF w + n < Size THEN w + n ELSE w + n - Size
  BY <1>1, <1>2, MaskedValue DEF Indices
<1>4. Masked(w + n) \in Indices
  BY <1>1, <1>2, <1>3 DEF Indices
<1>5. ReadSpace(Masked(w + n), r) = IF Masked(w + n) >= r THEN Masked(w + n) - r
                                    ELSE Masked(w + n) - r + Size
  BY <1>4, SpaceValues
<1> QED BY <1>1, <1>2, <1>3, <1>4, <1>5 DEF Indices

LEMMA ReaderMoves ==
  ASSUME NEW w \in Indices, NEW r \in Indices, NEW n \in 0..ReadSpace(w, r)
  PROVE  /\ Masked(r + n) \in Indices
         /\ ReadSpace(w, Masked(r + n)) = ReadSpace(w, r) - n
<1>1. Size \in Nat /\ Size >= 2
  BY RingAssumption
<1>2. /\ ReadSpace(w, r) = IF w >= r THEN w - r ELSE w - r + Size
      /\ ReadSpace(w, r) \in 0..Size - 1
      /\ n \in 0..Size - 1 /\ n <= ReadSpace(w, r)
  BY SpaceValues, <1>1
<1>3. Masked(r + n) = IF r + n < Size THEN r + n ELSE r + n - Size
  BY <1>1, <1>2, MaskedValue DEF Indices
<1>4. Masked(r + n) \in Indices
  BY <1>1, <1>2, <1>3 DEF Indices
<1>5. ReadSpace(w, Masked(r + n)) = IF w >= Masked(r + n) THEN w - Masked(r + n)
                                    ELSE w - Masked(r + n) + Size
  BY <1>4, SpaceValues
<1> QED BY <1>1, <1>2, <1>3, <1>4, <1>5 DEF Indices

-----------------------------------------------------------------------------
(* Pieces: a copy of n bytes from `at' is made in two, the second at the    *)
(* beginning of the block.                                                  *)

IsSplit(at, n, p) == /\ p[1] \in Nat /\ p[2] \in Nat
                     /\ p[1] + p[2] = n
                     /\ at + p[1] <= Size
                     /\ p[2] > 0 => at + p[1] = Size

LEMMA SplitIsSplit ==
  ASSUME NEW at \in Indices, NEW n \in 0..Size - 1
  PROVE  IsSplit(at, n, Split(at, n))
<1>1. Size \in Nat /\ Size >= 2
  BY RingAssumption
<1>2. Masked(at + n) = IF at + n < Size THEN at + n ELSE at + n - Size
  BY <1>1, MaskedValue DEF Indices
<1> QED BY <1>1, <1>2 DEF IsSplit, Split, Indices

\* The first n bytes of the m that a vector covers.
LEMMA VectorIsSplit ==
  ASSUME NEW at \in Indices, NEW m \in 0..Size - 1, NEW n \in 0..m
  PROVE  /\ Split(at, m)[1] + Split(at, m)[2] = m
         /\ LET n1 == AtMost(n, Split(at, m)[1])
            IN  IsSplit(at, n, <<n1, n - n1>>)
<1>1. Size \in Nat /\ Size >= 2
  BY RingAssumption
<1>2. IsSplit(at, m, Split(at, m))
  BY SplitIsSplit
<1> DEFINE p1 == Split(at, m)[1]
           p2 == Split(at, m)[2]
<1>3. p1 \in Nat /\ p2 \in Nat /\ p1 + p2 = m /\ at + p1 <= Size /\ (p2 > 0 => at + p1 = Size)
  BY <1>2 DEF IsSplit
<1> HIDE DEF p1, p2
<1>4. LET n1 == AtMost(n, p1) IN IsSplit(at, n, <<n1, n - n1>>)
  BY <1>1, <1>3 DEF IsSplit, AtMost, Indices
<1> QED BY <1>3, <1>4 DEF p1, p2

\* Where the pieces begin, and where the pointer is after them.
LEMMA PieceValues ==
  ASSUME NEW at \in Indices, NEW n \in 0..Size - 1, NEW p, IsSplit(at, n, p)
  PROVE  /\ Masked(at + p[1]) = IF at + p[1] < Size THEN at + p[1] ELSE 0
         /\ p[2] > 0 => Masked(at + p[1]) = 0
         /\ Advanced(at, p) = Masked(at + n)
<1>1. Size \in Nat /\ Size >= 2
  BY RingAssumption
<1> DEFINE p1 == p[1]
           p2 == p[2]
<1>2. p1 \in Nat /\ p2 \in Nat /\ p1 + p2 = n /\ at + p1 <= Size /\ (p2 > 0 => at + p1 = Size)
  BY DEF IsSplit
<1> HIDE DEF p1, p2
<1>3. Masked(at + p1) = IF at + p1 < Size THEN at + p1 ELSE 0
  BY <1>1, <1>2, MaskedValue DEF Indices
<1>4. Masked(at + n) = IF at + n < Size THEN at + n ELSE at + n - Size
  BY <1>1, <1>2, MaskedValue DEF Indices
<1>5. Masked(Masked(at + p1) + p2) = Masked(at + n)
  <2>1. CASE p2 = 0
    <3>1. Masked(at + p1) \in 0..Size - 1
      BY <1>1, <1>2, <1>3 DEF Indices
    <3>2. Masked(Masked(at + p1) + p2) = Masked(at + p1)
      BY <3>1, <2>1, <1>1, MaskedValue
    <3> QED BY <3>2, <2>1, <1>2 DEF Indices
  <2>2. CASE p2 > 0
    <3>1. at + p1 = Size /\ Masked(at + p1) = 0 /\ p2 = at + n - Size /\ p2 < Size
      BY <1>1, <1>2, <1>3, <2>2 DEF Indices
    <3>2. Masked(p2) = p2
      BY <3>1, <2>2, <1>1, <1>2, MaskedValue
    <3> QED BY <3>1, <3>2, <1>1, <1>2, <1>4 DEF Indices
  <2> QED BY <1>2, <2>1, <2>2
<1> QED BY <1>1, <1>2, <1>3, <1>5 DEF p1, p2, Advanced

\* Reading by pieces is reading one byte after the other, round the block.
LEMMA FetchValue ==
  ASSUME NEW at \in Indices, NEW n \in 0..Size - 1, NEW p, IsSplit(at, n, p)
  PROVE  Fetch(at, p) = [i \in 1..n |-> buf[Masked(at + i - 1)]]
<1>1. Size \in Nat /\ Size >= 2
  BY RingAssumption
<1> DEFINE p1 == p[1]
           p2 == p[2]
<1>2. p1 \in Nat /\ p2 \in Nat /\ p1 + p2 = n /\ at + p1 <= Size /\ (p2 > 0 => at + p1 = Size)
  BY DEF IsSplit
<1>3. p2 > 0 => Masked(at + p1) = 0
  BY PieceValues
<1> HIDE DEF p1, p2
<1>4. ASSUME NEW i \in 1..n
      PROVE  Masked(at + i - 1) = IF i <= p1 THEN at + i - 1 ELSE Masked(at + p1) + i - p1 - 1
  <2>1. at + i - 1 \in 0..2 * Size - 1 /\ i \in Int /\ 1 <= i /\ i <= n
    BY <1>1 DEF Indices
  <2>2. Masked(at + i - 1) = IF at + i - 1 < Size THEN at + i - 1 ELSE at + i - 1 - Size
    BY <2>1, <1>1, MaskedValue DEF Indices
  <2> QED BY <2>2, <1>1, <1>2, <1>3 DEF Indices
<1>5. Fetch(at, p) = [i \in 1..n |-> IF i <= p1 THEN buf[at + i - 1]
                                     ELSE buf[Masked(at + p1) + i - p1 - 1]]
  BY <1>2 DEF Fetch, p1, p2
<1> QED BY <1>4, <1>5

\* Writing by pieces is writing one byte after the other, round the block, and
\* nowhere else.
LEMMA StoredValue ==
  ASSUME NEW at \in Indices, NEW n \in 0..Size - 1, NEW p, IsSplit(at, n, p),
         NEW src, NEW j \in 1..Size
  PROVE  Stored(at, p, src)[Masked(at + j - 1)]
           = IF j <= n THEN src[j] ELSE buf[Masked(at + j - 1)]
<1>1. Size \in Nat /\ Size >= 2
  BY RingAssumption
<1> DEFINE p1 == p[1]
           p2 == p[2]
           start2 == Masked(at + p1)
           k == Masked(at + j - 1)
<1>2. p1 \in Nat /\ p2 \in Nat /\ p1 + p2 = n /\ at + p1 <= Size /\ (p2 > 0 => at + p1 = Size)
  BY DEF IsSplit
<1>3. /\ start2 = IF at + p1 < Size THEN at + p1 ELSE 0
      /\ p2 > 0 => start2 = 0
  BY PieceValues
<1>4. k = IF at + j - 1 < Size THEN at + j - 1 ELSE at + j - 1 - Size
  BY <1>1, MaskedValue DEF Indices
<1>5. Stored(at, p, src)[k] = IF start2 <= k /\ k < start2 + p2 THEN src[p1 + k - start2 + 1]
                              ELSE IF at <= k /\ k < at + p1 THEN src[k - at + 1]
                              ELSE buf[k]
  BY <1>1, <1>4 DEF Stored, Indices
<1> HIDE DEF p1, p2, start2, k
<1>6. CASE j <= p1
  <2>1. k = at + j - 1 /\ at <= k /\ k < at + p1 /\ ~(start2 <= k /\ k < start2 + p2)
    BY <1>1, <1>2, <1>3, <1>4, <1>6 DEF Indices
  <2>2. k - at + 1 = j /\ j <= n
    BY <2>1, <1>2, <1>6 DEF Indices
  <2> QED BY <2>1, <2>2, <1>5 DEF k
<1>7. CASE j > p1 /\ j <= n
  <2>1. k = j - p1 - 1 /\ start2 <= k /\ k < start2 + p2 /\ start2 = 0
    BY <1>1, <1>2, <1>3, <1>4, <1>7 DEF Indices
  <2>2. p1 + k - start2 + 1 = j
    BY <2>1, <1>2
  <2> QED BY <2>1, <2>2, <1>5, <1>7 DEF k
<1>8. CASE j > n
  <2>1. ~(start2 <= k /\ k < start2 + p2) /\ ~(at <= k /\ k < at + p1)
    BY <1>1, <1>2, <1>3, <1>4, <1>8 DEF Indices
  <2> QED BY <2>1, <1>5, <1>8, <1>2 DEF k
<1> QED BY <1>2, <1>6, <1>7, <1>8

-----------------------------------------------------------------------------
(* What the block holds, as a function of a block and two pointers.         *)

Content(b, w, r) == [i \in 1..ReadSpace(w, r) |-> b[Masked(r + i - 1)]]

\* One place after another, going round the block.
LEMMA RoundTheBlock ==
  ASSUME NEW at \in Indices, NEW j \in 1..Size
  PROVE  /\ Masked(at + j - 1) = IF at + j - 1 < Size THEN at + j - 1 ELSE at + j - 1 - Size
         /\ Masked(at + j - 1) \in Indices
<1>1. Size \in Nat /\ Size >= 2
  BY RingAssumption
<1>2. Masked(at + j - 1) = IF at + j - 1 < Size THEN at + j - 1 ELSE at + j - 1 - Size
  BY <1>1, MaskedValue DEF Indices
<1> QED BY <1>1, <1>2 DEF Indices

LEMMA RoundSeq ==
  ASSUME NEW b \in [Indices -> Bytes], NEW at \in Indices, NEW n \in 0..Size - 1
  PROVE  /\ [i \in 1..n |-> b[Masked(at + i - 1)]] \in Seq(Bytes)
         /\ Len([i \in 1..n |-> b[Masked(at + i - 1)]]) = n
<1>1. Size \in Nat /\ Size >= 2
  BY RingAssumption
<1>2. \A i \in 1..n : b[Masked(at + i - 1)] \in Bytes
  BY <1>1, RoundTheBlock
<1> DEFINE f == [i \in 1..n |-> b[Masked(at + i - 1)]]
<1>3. f \in [1..n -> Bytes]
  BY <1>2
<1>4. n \in Nat
  BY <1>1
<1> HIDE DEF f
<1>5. f \in Seq(Bytes) /\ Len(f) = n
  BY <1>3, <1>4
<1> QED BY <1>5 DEF f

\* A write appends the bytes it takes.
LEMMA WriteAppends ==
  ASSUME buf \in [Indices -> Bytes],
         NEW w \in Indices, NEW r \in Indices, NEW src \in Seq(Bytes),
         NEW n \in 0..WriteSpace(w, r), n <= Len(src),
         NEW p, IsSplit(w, n, p)
  PROVE  /\ Stored(w, p, src) \in [Indices -> Bytes]
         /\ Content(Stored(w, p, src), Masked(w + n), r)
              = Content(buf, w, r) \o SubSeq(src, 1, n)
<1>1. Size \in Nat /\ Size >= 2
  BY RingAssumption
<1> DEFINE rs == ReadSpace(w, r)
           b  == Stored(w, p, src)
<1>2. /\ rs = IF w >= r THEN w - r ELSE w - r + Size
      /\ rs \in 0..Size - 1
      /\ n \in 0..Size - 1 /\ rs + n <= Size - 1
  BY <1>1, SpaceValues
<1>3. ReadSpace(Masked(w + n), r) = rs + n
  BY WriterMoves
<1>2a. n \in 0..Size - 1
  BY <1>2
<1>2b. \A j \in 1..Size : b[Masked(w + j - 1)] = IF j <= n THEN src[j] ELSE buf[Masked(w + j - 1)]
  <2> TAKE j \in 1..Size
  <2> QED BY ONLY <1>2a, IsSplit(w, n, p), w \in Indices, j \in 1..Size, StoredValue
<1> HIDE DEF rs
<1>4. b \in [Indices -> Bytes]
  <2>1. ASSUME NEW k \in Indices
        PROVE  \E j \in 1..Size : k = Masked(w + j - 1)
    <3>1. CASE k >= w
      <4>1. k - w + 1 \in 1..Size /\ w + (k - w + 1) - 1 = k
        BY <1>1, <3>1 DEF Indices
      <4>2. Masked(w + (k - w + 1) - 1) = k
        BY <4>1, <1>1, RoundTheBlock DEF Indices
      <4> QED BY <4>1, <4>2
    <3>2. CASE k < w
      <4>1. k - w + 1 + Size \in 1..Size /\ w + (k - w + 1 + Size) - 1 = k + Size
        BY <1>1, <3>2 DEF Indices
      <4>2. Masked(w + (k - w + 1 + Size) - 1) = k
        BY <4>1, <1>1, RoundTheBlock DEF Indices
      <4> QED BY <4>1, <4>2
    <3> QED BY <3>1, <3>2, <1>1 DEF Indices
  <2>2. ASSUME NEW j \in 1..Size
        PROVE  b[Masked(w + j - 1)] \in Bytes
    <3>1. b[Masked(w + j - 1)] = IF j <= n THEN src[j] ELSE buf[Masked(w + j - 1)]
      BY <1>2b
    <3>2. j <= n => src[j] \in Bytes
      <4>1. Len(src) \in Nat
        BY LenProperties
      <4>2. j <= n => j \in 1..Len(src)
        BY <1>1, <1>2, <4>1
      <4> QED BY <4>2, ElementOfSeq
    <3>3. buf[Masked(w + j - 1)] \in Bytes
      BY RoundTheBlock
    <3> QED BY <3>1, <3>2, <3>3
  <2>3. b = [k \in Indices |-> b[k]]
    BY DEF Stored
  <2>4. \A k \in Indices : b[k] \in Bytes
    BY <2>1, <2>2
  <2> QED BY <2>3, <2>4
<1> DEFINE c1 == Content(b, Masked(w + n), r)
           c0 == Content(buf, w, r)
           s  == SubSeq(src, 1, n)
<1>5. c1 \in Seq(Bytes) /\ Len(c1) = rs + n
  <2>1. rs + n \in 0..Size - 1
    BY <1>1, <1>2
  <2>2. Masked(w + n) \in Indices
    BY WriterMoves
  <2> QED BY <2>1, <2>2, <1>3, <1>4, RoundSeq DEF Content
<1>6. c0 \in Seq(Bytes) /\ Len(c0) = rs
  BY SMTT(60), <1>2, RoundSeq DEF Content, rs
<1>7. s \in Seq(Bytes) /\ Len(s) = n /\ \A i \in 1..n : s[i] = src[i]
  <2>1. Len(src) \in Nat
    BY LenProperties
  <2>2. \A i \in 1..n : src[i] \in Bytes
    BY <2>1, <1>1, <1>2, ElementOfSeq
  <2>3. n \in Int
    BY <1>1, <1>2
  <2> QED BY <2>2, <2>3, <1>1, <1>2, SubSeqProperties
<1>8. ASSUME NEW i \in 1..rs + n
      PROVE  c1[i] = IF i <= rs THEN c0[i] ELSE s[i - rs]
  <2>1. c1[i] = b[Masked(r + i - 1)]
    BY <1>3 DEF Content
  <2>2. i \in 1..Size
    BY <1>1, <1>2
  <2>3. Masked(r + i - 1) = IF r + i - 1 < Size THEN r + i - 1 ELSE r + i - 1 - Size
    BY <2>2, RoundTheBlock
  <2>4. CASE i <= rs
    <3> DEFINE j == i + Size - rs
    <3>1. j \in 1..Size /\ j > n
      BY SMTT(60), <1>1, <1>2, <2>4
    <3>2. Masked(w + j - 1) = IF w + j - 1 < Size THEN w + j - 1 ELSE w + j - 1 - Size
      BY <3>1, RoundTheBlock
    <3>3. Masked(w + j - 1) = Masked(r + i - 1)
      BY <1>1, <1>2, <2>3, <2>4, <3>1, <3>2 DEF Indices
    <3>4. b[Masked(w + j - 1)] = buf[Masked(w + j - 1)]
      <4> HIDE DEF j
      <4>1. b[Masked(w + j - 1)] = IF j <= n THEN src[j] ELSE buf[Masked(w + j - 1)]
        BY <3>1, <1>2b
      <4>2. ~(j <= n)
        BY <3>1, <1>1, <1>2
      <4> QED BY <4>1, <4>2
    <3>5. c0[i] = buf[Masked(r + i - 1)]
      <4>1. i \in 1..rs
        BY <2>4, <1>2, <1>1
      <4> QED BY <4>1 DEF Content, rs
    <3> QED BY <2>1, <2>4, <3>3, <3>4, <3>5
  <2>5. CASE i > rs
    <3> DEFINE j == i - rs
    <3>1. j \in 1..Size /\ j <= n /\ j \in 1..n
      BY <1>1, <1>2, <2>5
    <3>2. Masked(w + j - 1) = IF w + j - 1 < Size THEN w + j - 1 ELSE w + j - 1 - Size
      BY <3>1, RoundTheBlock
    <3>3. Masked(w + j - 1) = Masked(r + i - 1)
      BY <1>1, <1>2, <2>3, <2>5, <3>1, <3>2 DEF Indices
    <3>4. b[Masked(w + j - 1)] = src[j]
      <4> HIDE DEF j
      <4> QED BY <3>1, <1>2b
    <3> QED BY SMTT(60), <2>1, <2>5, <3>1, <3>3, <3>4, <1>2, <1>7
  <2> QED BY <2>4, <2>5, <1>2
<1>9. c1 = c0 \o s
  <2> HIDE DEF c1, c0, s
  <2>1. /\ c0 \o s \in Seq(Bytes) /\ Len(c0 \o s) = rs + n
        /\ \A i \in 1..rs + n : (c0 \o s)[i] = IF i <= rs THEN c0[i] ELSE s[i - rs]
    BY <1>6, <1>7, ConcatProperties
  <2>2. \A i \in 1..Len(c1) : c1[i] = (c0 \o s)[i]
    BY <2>1, <1>5, <1>8
  <2> QED BY <2>1, <2>2, <1>5, SeqEqual
<1> QED BY <1>4, <1>9

\* A read delivers the front of the contents and takes it away.
LEMMA ReadTakesFront ==
  ASSUME buf \in [Indices -> Bytes],
         NEW w \in Indices, NEW r \in Indices, NEW n \in 0..ReadSpace(w, r),
         NEW p, IsSplit(r, n, p)
  PROVE  /\ Fetch(r, p) = SubSeq(Content(buf, w, r), 1, n)
         /\ Fetch(r, p) \in Seq(Bytes)
         /\ Content(buf, w, Masked(r + n))
              = SubSeq(Content(buf, w, r), n + 1, Len(Content(buf, w, r)))
<1>1. Size \in Nat /\ Size >= 2
  BY RingAssumption
<1> DEFINE rs == ReadSpace(w, r)
           c0 == Content(buf, w, r)
           c1 == Content(buf, w, Masked(r + n))
           f  == [i \in 1..n |-> buf[Masked(r + i - 1)]]
<1>2. rs \in 0..Size - 1 /\ n \in 0..Size - 1 /\ n <= rs
  BY <1>1, SpaceValues
<1>3. ReadSpace(w, Masked(r + n)) = rs - n /\ Masked(r + n) \in Indices
  BY ReaderMoves
<1>4. Fetch(r, p) = f
  BY <1>2, FetchValue
<1>5. f \in Seq(Bytes) /\ Len(f) = n
  BY <1>2, RoundSeq
<1>6. c0 \in Seq(Bytes) /\ Len(c0) = rs /\ \A i \in 1..rs : c0[i] = buf[Masked(r + i - 1)]
  BY <1>2, RoundSeq DEF Content
<1>7. c1 \in Seq(Bytes) /\ Len(c1) = rs - n
      /\ \A i \in 1..rs - n : c1[i] = buf[Masked(Masked(r + n) + i - 1)]
  <2>1. rs - n \in 0..Size - 1
    BY <1>1, <1>2
  <2> QED BY <2>1, <1>3, RoundSeq DEF Content
<1>8. \A i \in 1..rs - n : Masked(Masked(r + n) + i - 1) = Masked(r + (n + i) - 1)
  <2> TAKE i \in 1..rs - n
  <2>1. i \in 1..Size /\ n + i \in 1..Size
    BY <1>1, <1>2
  <2>2. Masked(r + (n + i) - 1) = IF r + (n + i) - 1 < Size THEN r + (n + i) - 1
                                  ELSE r + (n + i) - 1 - Size
    BY <2>1, RoundTheBlock
  <2>3. Masked(Masked(r + n) + i - 1) = IF Masked(r + n) + i - 1 < Size
                                        THEN Masked(r + n) + i - 1
                                        ELSE Masked(r + n) + i - 1 - Size
    BY <2>1, <1>3, RoundTheBlock
  <2>4. Masked(r + n) = IF r + n < Size THEN r + n ELSE r + n - Size
    BY <1>1, <1>2, MaskedValue DEF Indices
  <2> QED BY <2>1, <2>2, <2>3, <2>4, <1>1, <1>2 DEF Indices
<1> HIDE DEF rs, c0, c1, f
<1>9. f = SubSeq(c0, 1, n)
  <2>1. \A i \in 1..n : c0[i] \in Bytes
    BY <1>1, <1>2, <1>6, ElementOfSeq
  <2>2. /\ SubSeq(c0, 1, n) \in Seq(Bytes) /\ Len(SubSeq(c0, 1, n)) = n
        /\ \A i \in 1..n : SubSeq(c0, 1, n)[i] = c0[i]
    BY <1>1, <1>2, <2>1, SubSeqProperties
  <2>3. \A i \in 1..n : f[i] = SubSeq(c0, 1, n)[i]
    BY <1>1, <1>2, <1>6, <2>2 DEF f
  <2> QED BY <1>5, <2>2, <2>3, SeqEqual
<1>10. c1 = SubSeq(c0, n + 1, Len(c0))
  <2>1. \A i \in n + 1..rs : c0[i] \in Bytes
    BY <1>1, <1>2, <1>6, ElementOfSeq
  <2>2. /\ SubSeq(c0, n + 1, rs) \in Seq(Bytes) /\ Len(SubSeq(c0, n + 1, rs)) = rs - n
        /\ \A i \in 1..rs - n : SubSeq(c0, n + 1, rs)[i] = c0[n + i]
    BY <1>1, <1>2, <2>1, SubSeqProperties
  <2>3. ASSUME NEW i \in 1..rs - n
        PROVE  c1[i] = SubSeq(c0, n + 1, rs)[i]
    <3>1. n + i \in 1..rs
      BY <1>1, <1>2
    <3>2. c0[n + i] = buf[Masked(r + (n + i) - 1)]
      BY <3>1, <1>6
    <3> QED BY <3>2, <1>7, <1>8, <2>2
  <2> QED BY <1>6, <1>7, <2>2, <2>3, SeqEqual
<1> QED BY <1>4, <1>5, <1>9, <1>10 DEF c0, c1

-----------------------------------------------------------------------------
(* Each call keeps the types and is the call of the same name of ByteFifo.  *)

LEMMA ContentsValue ==
  ASSUME TypeOK
  PROVE  /\ Contents = Content(buf, write_ptr, read_ptr)
         /\ Len(Contents) = ReadSpace(write_ptr, read_ptr)
         /\ WriteSpace(write_ptr, read_ptr) = Size - 1 - Len(Contents)
         /\ ReadSpace(write_ptr, read_ptr) \in 0..Size - 1
         /\ WriteSpace(write_ptr, read_ptr) \in 0..Size - 1
         /\ Size \in Nat
<1>1. /\ ReadSpace(write_ptr, read_ptr) \in 0..Size - 1
      /\ WriteSpace(write_ptr, read_ptr) \in 0..Size - 1
      /\ WriteSpace(write_ptr, read_ptr) = Size - 1 - ReadSpace(write_ptr, read_ptr)
  BY SpaceValues DEF TypeOK
<1>2. Contents = Content(buf, write_ptr, read_ptr)
  BY DEF Contents, Content
<1>3. Len(Contents) = ReadSpace(write_ptr, read_ptr)
  BY <1>1, RoundSeq DEF TypeOK, Contents
<1> QED BY <1>1, <1>2, <1>3, RingAssumption

\* What the two ways of writing have in common.
LEMMA WriteStep ==
  ASSUME TypeOK, NEW src \in Seq(Bytes), NEW p,
         NEW n, n = AtMost(Len(src), WriteSpace(write_ptr, read_ptr)),
         IsSplit(write_ptr, n, p),
         buf' = Stored(write_ptr, p, src),
         write_ptr' = Masked(write_ptr + n),
         ret' = n, UNCHANGED <<read_ptr, dest>>
  PROVE  TypeOK' /\ Fifo!Write(src)
<1>1. /\ Contents = Content(buf, write_ptr, read_ptr)
      /\ WriteSpace(write_ptr, read_ptr) = Size - 1 - Len(Contents)
      /\ WriteSpace(write_ptr, read_ptr) \in 0..Size - 1
      /\ Size \in Nat
  BY ContentsValue
<1>2. n \in 0..WriteSpace(write_ptr, read_ptr) /\ n <= Len(src) /\ n \in Nat
  BY <1>1, LenProperties DEF AtMost
<1>3. /\ buf' \in [Indices -> Bytes]
      /\ Content(buf', Masked(write_ptr + n), read_ptr) = Contents \o SubSeq(src, 1, n)
  <2>1. buf \in [Indices -> Bytes] /\ write_ptr \in Indices /\ read_ptr \in Indices
    BY DEF TypeOK
  <2>2. /\ Stored(write_ptr, p, src) \in [Indices -> Bytes]
        /\ Content(Stored(write_ptr, p, src), Masked(write_ptr + n), read_ptr)
             = Content(buf, write_ptr, read_ptr) \o SubSeq(src, 1, n)
    BY <1>2, <2>1, WriteAppends
  <2> QED BY <1>1, <2>2
<1>4. Masked(write_ptr + n) \in Indices
  BY <1>2, WriterMoves DEF TypeOK
<1>5. TypeOK'
  BY <1>2, <1>3, <1>4 DEF TypeOK
<1>6. Contents' = Contents \o SubSeq(src, 1, n)
  BY <1>3 DEF Contents, Content
<1>7. n = Fifo!AtMost(Len(src), Size - 1 - Len(Contents))
  BY <1>1 DEF AtMost, Fifo!AtMost
<1> QED BY <1>5, <1>6, <1>7 DEF Fifo!Write

LEMMA WriteCorrect ==
  ASSUME TypeOK, NEW src \in Inputs, Write(src)
  PROVE  TypeOK' /\ Fifo!Write(src)
<1> DEFINE n == AtMost(Len(src), WriteSpace(write_ptr, read_ptr))
           p == Split(write_ptr, n)
<1>1. src \in Seq(Bytes)
  BY RingAssumption
<1>2. n \in 0..Size - 1
  BY <1>1, ContentsValue, LenProperties DEF AtMost
<1>3. buf' = Stored(write_ptr, p, src) /\ write_ptr' = Advanced(write_ptr, p)
      /\ ret' = n /\ UNCHANGED <<read_ptr, dest>>
  BY DEF Write
<1>3a. n = AtMost(Len(src), WriteSpace(write_ptr, read_ptr)) /\ p = Split(write_ptr, n)
  OBVIOUS
<1> HIDE DEF n, p
<1>4. IsSplit(write_ptr, n, p)
  BY <1>2, <1>3a, SplitIsSplit DEF TypeOK
<1>5. Advanced(write_ptr, p) = Masked(write_ptr + n)
  BY <1>2, <1>4, PieceValues DEF TypeOK
<1> QED BY <1>1, <1>3a, <1>3, <1>4, <1>5, WriteStep

LEMMA WriteThroughVectorCorrect ==
  ASSUME TypeOK, NEW src \in Inputs, WriteThroughVector(src)
  PROVE  TypeOK' /\ Fifo!Write(src)
<1> DEFINE m  == WriteSpace(write_ptr, read_ptr)
           v  == Split(write_ptr, m)
           n  == AtMost(Len(src), v[1] + v[2])
           n1 == AtMost(n, v[1])
           p  == <<n1, n - n1>>
<1>1. src \in Seq(Bytes)
  BY RingAssumption
<1>2. m \in 0..Size - 1
  BY ContentsValue
<1>3. v[1] + v[2] = m
  <2>1. 0 \in 0..m
    BY <1>2, ContentsValue
  <2> QED BY <1>2, <2>1, VectorIsSplit DEF TypeOK
<1>4. n = AtMost(Len(src), m) /\ n \in 0..m
  BY <1>1, <1>2, <1>3, LenProperties, ContentsValue DEF AtMost
<1>5. IsSplit(write_ptr, n, p)
  <2> HIDE DEF n, m
  <2> QED BY <1>2, <1>4, VectorIsSplit DEF TypeOK
<1>6. buf' = Stored(write_ptr, p, src) /\ write_ptr' = Masked(write_ptr + n)
      /\ ret' = n /\ UNCHANGED <<read_ptr, dest>>
  BY DEF WriteThroughVector
<1> HIDE DEF n, p
<1> QED BY <1>1, <1>4, <1>5, <1>6, WriteStep

\* What the three ways of reading have in common: at most n bytes of cnt are
\* delivered, and advanced of them are taken away.
LEMMA FetchStep ==
  ASSUME TypeOK, NEW cnt \in Nat, NEW p,
         NEW n, n = AtMost(cnt, ReadSpace(write_ptr, read_ptr)),
         IsSplit(read_ptr, n, p),
         dest' = Fetch(read_ptr, p), ret' = n, UNCHANGED <<buf, write_ptr>>
  PROVE  /\ UNCHANGED read_ptr => TypeOK' /\ Fifo!Peek(cnt)
         /\ read_ptr' = Masked(read_ptr + n) => TypeOK' /\ Fifo!Read(cnt)
<1>1. /\ Contents = Content(buf, write_ptr, read_ptr)
      /\ Len(Contents) = ReadSpace(write_ptr, read_ptr)
      /\ ReadSpace(write_ptr, read_ptr) \in 0..Size - 1
      /\ Size \in Nat
  BY ContentsValue
<1>2. n \in 0..ReadSpace(write_ptr, read_ptr) /\ n \in Nat
  BY <1>1 DEF AtMost
<1>3. /\ Fetch(read_ptr, p) = SubSeq(Contents, 1, n)
      /\ Fetch(read_ptr, p) \in Seq(Bytes)
      /\ Content(buf, write_ptr, Masked(read_ptr + n))
           = SubSeq(Contents, n + 1, Len(Contents))
  BY <1>1, <1>2, ReadTakesFront DEF TypeOK
<1>4. Masked(read_ptr + n) \in Indices
  BY <1>2, ReaderMoves DEF TypeOK
<1>5. n = Fifo!AtMost(cnt, Len(Contents))
  BY <1>1 DEF AtMost, Fifo!AtMost
<1>6. ASSUME UNCHANGED read_ptr PROVE TypeOK' /\ Fifo!Peek(cnt)
  <2>1. TypeOK'
    BY <1>2, <1>3, <1>6 DEF TypeOK
  <2>2. Contents' = Contents
    BY <1>6 DEF Contents
  <2> QED BY <1>3, <1>5, <2>1, <2>2 DEF Fifo!Peek
<1>7. ASSUME read_ptr' = Masked(read_ptr + n) PROVE TypeOK' /\ Fifo!Read(cnt)
  <2>1. TypeOK'
    BY <1>2, <1>3, <1>4, <1>7 DEF TypeOK
  <2>2. Contents' = SubSeq(Contents, n + 1, Len(Contents))
    BY <1>3, <1>7 DEF Contents, Content
  <2> QED BY <1>3, <1>5, <2>1, <2>2 DEF Fifo!Read
<1> QED BY <1>6, <1>7

LEMMA PeekAndReadCorrect ==
  ASSUME TypeOK, NEW cnt \in Counts
  PROVE  /\ Peek(cnt) => TypeOK' /\ Fifo!Peek(cnt)
         /\ Read(cnt) => TypeOK' /\ Fifo!Read(cnt)
<1> DEFINE n == AtMost(cnt, ReadSpace(write_ptr, read_ptr))
           p == Split(read_ptr, n)
<1>1. cnt \in Nat
  BY RingAssumption
<1>2. n \in 0..Size - 1
  BY <1>1, ContentsValue DEF AtMost
<1>3. /\ Peek(cnt) => dest' = Fetch(read_ptr, p) /\ ret' = n
                       /\ UNCHANGED <<buf, write_ptr, read_ptr>>
      /\ Read(cnt) => dest' = Fetch(read_ptr, p) /\ ret' = n
                       /\ UNCHANGED <<buf, write_ptr>>
                       /\ read_ptr' = Advanced(read_ptr, p)
  BY DEF Peek, Read
<1>4. n = AtMost(cnt, ReadSpace(write_ptr, read_ptr)) /\ p = Split(read_ptr, n)
  OBVIOUS
<1> HIDE DEF n, p
<1>5. IsSplit(read_ptr, n, p)
  BY <1>2, <1>4, SplitIsSplit DEF TypeOK
<1>6. Advanced(read_ptr, p) = Masked(read_ptr + n)
  BY <1>2, <1>5, PieceValues DEF TypeOK
<1>7. ASSUME Peek(cnt) PROVE TypeOK' /\ Fifo!Peek(cnt)
  BY <1>1, <1>3, <1>4, <1>5, <1>7, FetchStep
<1>8. ASSUME Read(cnt) PROVE TypeOK' /\ Fifo!Read(cnt)
  BY <1>1, <1>3, <1>4, <1>5, <1>6, <1>8, FetchStep
<1> QED BY <1>7, <1>8

LEMMA ReadThroughVectorCorrect ==
  ASSUME TypeOK, NEW cnt \in Counts, ReadThroughVector(cnt)
  PROVE  TypeOK' /\ Fifo!Read(cnt)
<1> DEFINE m  == ReadSpace(write_ptr, read_ptr)
           v  == Split(read_ptr, m)
           n  == AtMost(cnt, v[1] + v[2])
           n1 == AtMost(n, v[1])
           p  == <<n1, n - n1>>
<1>1. cnt \in Nat
  BY RingAssumption
<1>2. m \in 0..Size - 1
  BY ContentsValue
<1>3. v[1] + v[2] = m
  <2>1. 0 \in 0..m
    BY <1>2, ContentsValue
  <2> QED BY <1>2, <2>1, VectorIsSplit DEF TypeOK
<1>4. n = AtMost(cnt, m) /\ n \in 0..m
  BY <1>1, <1>2, <1>3, ContentsValue DEF AtMost
<1>5. IsSplit(read_ptr, n, p)
  <2> HIDE DEF n, m
  <2> QED BY <1>2, <1>4, VectorIsSplit DEF TypeOK
<1>6. dest' = Fetch(read_ptr, p) /\ read_ptr' = Masked(read_ptr + n)
      /\ ret' = n /\ UNCHANGED <<buf, write_ptr>>
  BY DEF ReadThroughVector
<1> HIDE DEF n, p
<1> QED BY <1>1, <1>4, <1>5, <1>6, FetchStep

LEMMA ResetCorrect ==
  ASSUME TypeOK, Reset
  PROVE  TypeOK' /\ Fifo!Reset
<1>1. 0 \in Indices
  BY RingAssumption DEF Indices
<1>2. TypeOK'
  BY <1>1 DEF Reset, TypeOK
<1>3. ReadSpace(0, 0) = 0
  BY <1>1, SpaceValues, RingAssumption
<1>4. Contents' = <<>>
  BY <1>3 DEF Reset, Contents
<1> QED BY <1>2, <1>4 DEF Fifo!Reset, Reset

LEMMA InitCorrect == Init => TypeOK /\ Fifo!Init
<1> SUFFICES ASSUME Init PROVE TypeOK /\ Fifo!Init
  OBVIOUS
<1>1. 0 \in Indices
  BY RingAssumption DEF Indices
<1>2. TypeOK
  BY <1>1 DEF Init, TypeOK
<1>3. ReadSpace(0, 0) = 0
  BY <1>1, SpaceValues, RingAssumption
<1>4. Contents = <<>>
  BY <1>3 DEF Init, Contents
<1> QED BY <1>2, <1>4 DEF Init, Fifo!Init

LEMMA StepCorrect == TypeOK /\ [Next]_vars => TypeOK' /\ [Fifo!Next]_(Fifo!fifoVars)
<1> SUFFICES ASSUME TypeOK, [Next]_vars
             PROVE  TypeOK' /\ [Fifo!Next]_(Fifo!fifoVars)
  OBVIOUS
<1>1. CASE \E src \in Inputs : Write(src) \/ WriteThroughVector(src)
  BY <1>1, WriteCorrect, WriteThroughVectorCorrect DEF Fifo!Next
<1>2. CASE \E cnt \in Counts : Peek(cnt) \/ Read(cnt) \/ ReadThroughVector(cnt)
  BY <1>2, PeekAndReadCorrect, ReadThroughVectorCorrect DEF Fifo!Next
<1>3. CASE Reset
  BY <1>3, ResetCorrect DEF Fifo!Next
<1>4. CASE UNCHANGED vars
  BY <1>4 DEF vars, TypeOK, Contents, Fifo!fifoVars
<1> QED BY <1>1, <1>2, <1>3, <1>4 DEF Next

-----------------------------------------------------------------------------
\* Both pointers stay inside the block whatever is written and read, and what
\* a call delivers consists of bytes.
THEOREM TypeCorrect == Spec => []TypeOK
<1>1. Init => TypeOK
  BY InitCorrect
<1>2. TypeOK /\ [Next]_vars => TypeOK'
  BY StepCorrect
<1> QED BY <1>1, <1>2, PTL DEF Spec

\* The space a reader computes and the space a writer computes always add up
\* to the capacity: exactly one slot is kept.
THEOREM SpacesAlwaysAddUp == Spec => []SpacesAddUp
<1>1. TypeOK => SpacesAddUp
  <2> SUFFICES ASSUME TypeOK PROVE SpacesAddUp
    OBVIOUS
  <2>1. /\ ReadSpace(write_ptr, read_ptr) \in 0..Size - 1
        /\ WriteSpace(write_ptr, read_ptr) = Size - 1 - ReadSpace(write_ptr, read_ptr)
    BY SpaceValues DEF TypeOK
  <2> QED BY <2>1, RingAssumption DEF SpacesAddUp
<1> QED BY <1>1, TypeCorrect, PTL

\* A ring buffer that one thread at a time calls is a queue of bytes of
\* capacity Size - 1: wraps, partial writes, peeks and the vectors lose,
\* repeat and reorder nothing.
THEOREM RingIsFifo == Spec => ImplementsFifo
<1>1. Init => Fifo!Init
  BY InitCorrect
<1>2. TypeOK /\ [Next]_vars => [Fifo!Next]_(Fifo!fifoVars)
  BY StepCorrect
<1> QED BY <1>1, <1>2, TypeCorrect, PTL DEF Spec, ImplementsFifo, Fifo!Spec

-----------------------------------------------------------------------------
(* The inductive invariant of the encoder *)

\* s is a run of the bytes, up to the one with the number end.
RunTo(s, end) == \A k \in 1..Len(s) : s[k] = end - Len(s) + k

\* The ring holds the last bytes encoded, from the beginning of a page.
RingInv ==
  /\ made \in 0..MaxBytes /\ Held <= made
  /\ RunTo(Contents, made)
  /\ {made, made - Held} \subseteq pageEnds
  /\ encbuf \in Nat

\* Pages that wait are to come after the bytes encoded, and fit, unless the last
\* frame was left in the ring.
PagesInv ==
  /\ loop \in {"init", "top", "flush", "disk", "fwrite", "ended"}
  /\ loop = "init" => made = 0 /\ Held = 0 /\ file = <<>> /\ encbuf = 0 /\ ~running
                      /\ filedump_fd = "none" /\ script = "idle" /\ ~undrained
  /\ loop = "flush" =>
       /\ pages \in Seq(1..MaxBytes)
       /\ \A k \in 1..Len(pages) :
            /\ pages[k] > made
            /\ ~undrained => Held + pages[k] - made <= Size - 1
       /\ \A i, k \in 1..Len(pages) : i < k => pages[i] < pages[k]
  /\ loop \in {"top", "ended"} /\ ~undrained =>
       Held = 0 \/ (encbuf = 0 /\ Held = HeaderBytes)
  /\ loop \in {"disk", "fwrite"} /\ ~undrained => Held = 0
  /\ overrun => undrained /\ script = "deleted"

\* What the thread has in hand are the last bytes encoded, whole pages.
InHand == IF loop \in {"disk", "fwrite"} THEN Len(dest) ELSE 0
HandInv ==
  loop \in {"disk", "fwrite"} =>
    Held = 0 /\ dest # <<>> /\ RunTo(dest, made) /\ made - Len(dest) \in pageEnds

\* Between the calls of the script, who records has a file; only a file that was
\* just opened may be there before.
FlagsInv ==
  /\ script \in {"idle", "clear", "clear, then open", "open", "set", "join", "deleted"}
  /\ script \in {"clear", "clear, then open"} => write_to_disk /\ filedump_fd \in {"none", "closed"}
  /\ filedump_fd \in {"none", "open"} \/ script \in {"clear", "clear, then open"}
  /\ script \in {"open", "set"} => ~write_to_disk
  /\ filedump_fd = "open" => write_to_disk \/ script = "set"
  /\ script = "set" => filedump_fd = "open" /\ (file = <<>> \/ closedUnderWrite)
  /\ write_to_disk => filedump_fd = "open" \/ script \in {"clear", "clear, then open", "deleted"}
  /\ loop = "fwrite" => closedUnderWrite \/ (filedump_fd = "open" /\ write_to_disk)
  /\ script = "deleted" => filedump_fd = "none" /\ loop = "ended"

\* The file is a run of whole pages, and, while it is open, what is in hand and in
\* the ring comes next.
FileInv ==
  /\ file \in Seq(Bytes)
  /\ ~closedUnderWrite /\ file # <<>> =>
       /\ file[Len(file)] \in Nat /\ RunTo(file, file[Len(file)])
       /\ {file[Len(file)], file[1] - 1} \subseteq pageEnds
       /\ filedump_fd = "open" => file[Len(file)] = made - Held - InHand

EncInv == TypeOK /\ RingInv /\ PagesInv /\ HandInv /\ FlagsInv /\ FileInv

-----------------------------------------------------------------------------
(* Runs of bytes *)

LEMMA RunsJoin ==
  ASSUME NEW s \in Seq(Bytes), NEW t \in Seq(Bytes), NEW end \in Nat,
         RunTo(s, end - Len(t)), RunTo(t, end)
  PROVE  RunTo(s \o t, end)
<1> DEFINE st == s \o t
           m == Len(s)
           n == Len(t)
<1>1. /\ m \in Nat /\ n \in Nat /\ Len(st) = m + n
      /\ \A k \in 1..m + n : st[k] = IF k <= m THEN s[k] ELSE t[k - m]
  BY ConcatProperties, LenProperties
<1> HIDE DEF st
<1>2. ASSUME NEW k \in 1..m + n PROVE st[k] = end - (m + n) + k
  <2>1. CASE k <= m
    <3>1. k \in 1..m
      BY <1>1, <2>1
    <3>2. s[k] = (end - n) - m + k
      BY <3>1 DEF RunTo
    <3> HIDE DEF m, n
    <3>3. QED
      BY <1>1, <2>1, <3>1, <3>2
  <2>2. CASE ~(k <= m)
    <3>1. k - m \in 1..n
      BY <1>1, <2>2
    <3>2. t[k - m] = end - n + (k - m)
      BY <3>1 DEF RunTo
    <3> HIDE DEF m, n
    <3>3. QED
      BY <1>1, <2>2, <3>1, <3>2
  <2>3. QED
    BY <2>1, <2>2
<1>3. QED
  BY <1>1, <1>2 DEF RunTo, st

LEMMA FreshIsRun ==
  ASSUME made \in Nat, NEW n \in Nat, made + n <= MaxBytes
  PROVE  /\ Fresh(n) \in Seq(Bytes) /\ Len(Fresh(n)) = n
         /\ RunTo(Fresh(n), made + n)
<1>1. \A k \in 1..n : made + k \in 0..MaxBytes
  BY EncoderAssumption
<1>2. \A k \in 1..n : made + k \in Bytes
  BY <1>1, EncoderAssumption
<1>3. Fresh(n) \in Seq(Bytes) /\ Len(Fresh(n)) = n
  <2>1. Fresh(n) \in [1..n -> Bytes]
    BY <1>2 DEF Fresh
  <2>2. QED
    BY <2>1, LenProperties
<1>4. \A k \in 1..n : Fresh(n)[k] = made + k
  BY DEF Fresh
<1>5. \A k \in 1..n : Fresh(n)[k] = (made + n) - n + k
  BY <1>4
<1>6. QED
  BY <1>3, <1>5 DEF RunTo

-----------------------------------------------------------------------------
(* The calls on the ring *)

LEMMA RingTypes ==
  ASSUME TypeOK
  PROVE  /\ Contents \in Seq(Bytes) /\ Len(Contents) = Held /\ Room = Size - 1 - Held
         /\ Held \in 0..Size - 1 /\ Room \in 0..Size - 1 /\ Size \in Nat
<1>1. /\ Contents = Content(buf, write_ptr, read_ptr)
      /\ Len(Contents) = Held /\ Room = Size - 1 - Held
      /\ Held \in 0..Size - 1 /\ Room \in 0..Size - 1 /\ Size \in Nat
  BY ContentsValue DEF Held, Room
<1>2. Contents \in Seq(Bytes)
  BY <1>1, RoundSeq DEF Contents, TypeOK, Held
<1>3. QED
  BY <1>1, <1>2

LEMMA PutAppends ==
  ASSUME TypeOK, made \in Nat, RunTo(Contents, made),
         NEW n \in 0..Room, made + n <= MaxBytes, Put(n)
  PROVE  /\ TypeOK' /\ RunTo(Contents', made + n) /\ Held' = Held + n
         /\ made' = made + n /\ pageEnds' = pageEnds \cup {made + n} /\ dest' = dest
<1> DEFINE src == Fresh(n)
           p   == Split(write_ptr, n)
<1>1. /\ Contents \in Seq(Bytes) /\ Len(Contents) = Held /\ Room = Size - 1 - Held
      /\ Held \in 0..Size - 1 /\ Room \in 0..Size - 1 /\ Size \in Nat
  BY RingTypes
<1>2. src \in Seq(Bytes) /\ Len(src) = n /\ RunTo(src, made + n) /\ n \in Nat
  BY <1>1, FreshIsRun
<1> HIDE DEF src
<1>3. n = AtMost(Len(src), WriteSpace(write_ptr, read_ptr))
  BY <1>1, <1>2 DEF AtMost, Room
<1>4. Write(src) /\ made' = made + n /\ pageEnds' = pageEnds \cup {made + n}
  BY DEF Put, src
<1>5. IsSplit(write_ptr, n, p) /\ Advanced(write_ptr, p) = Masked(write_ptr + n)
  <2>1. write_ptr \in Indices /\ n \in 0..Size - 1
    BY <1>1 DEF TypeOK
  <2>2. QED
    BY <2>1, SplitIsSplit, PieceValues
<1>6. TypeOK' /\ Fifo!Write(src) /\ dest' = dest
  BY <1>2, <1>3, <1>4, <1>5, WriteStep DEF Write
<1>7. Contents' = Contents \o src
  <2>1. Contents' = Contents \o SubSeq(src, 1, AtMost(Len(src), Size - 1 - Len(Contents)))
    BY <1>6 DEF Fifo!Write, Fifo!AtMost, AtMost
  <2>2. AtMost(Len(src), Size - 1 - Len(Contents)) = Len(src)
    BY <1>1, <1>2 DEF AtMost
  <2>3. SubSeq(src, 1, Len(src)) = src
    BY <1>2, SubSeqFull
  <2>4. QED
    BY <2>1, <2>2, <2>3
<1>8. RunTo(Contents', made + n)
  <2>1. (made + n) - Len(src) = made /\ made + n \in Nat
    BY <1>2
  <2>2. RunTo(Contents, (made + n) - Len(src))
    BY <2>1
  <2>3. RunTo(Contents \o src, made + n)
    BY <1>1, <1>2, <2>1, <2>2, RunsJoin
  <2>4. QED
    BY <1>7, <2>3
<1>9. Held' = Held + n
  <2>1. write_ptr' = Masked(write_ptr + n) /\ read_ptr' = read_ptr
    BY <1>3, <1>4, <1>5 DEF Write
  <2>2. n \in 0..WriteSpace(write_ptr, read_ptr)
    BY DEF Room
  <2>3. QED
    BY <2>1, <2>2, WriterMoves DEF Held, TypeOK
<1>10. QED
  BY <1>4, <1>6, <1>8, <1>9

LEMMA ReadTakesAll ==
  ASSUME TypeOK, Read(Held)
  PROVE  /\ TypeOK' /\ dest' = Contents /\ Held' = 0 /\ Contents' = <<>>
<1> DEFINE p == Split(read_ptr, Held)
<1>1. /\ Contents \in Seq(Bytes) /\ Len(Contents) = Held
      /\ Held \in 0..Size - 1 /\ Size \in Nat /\ read_ptr \in Indices
  BY RingTypes DEF TypeOK
<1>2. Held = AtMost(Held, ReadSpace(write_ptr, read_ptr))
  BY <1>1 DEF AtMost, Held
<1>3. IsSplit(read_ptr, Held, p) /\ Advanced(read_ptr, p) = Masked(read_ptr + Held)
  BY <1>1, SplitIsSplit, PieceValues
<1>4. /\ dest' = Fetch(read_ptr, p) /\ read_ptr' = Masked(read_ptr + Held)
      /\ ret' = Held /\ UNCHANGED <<buf, write_ptr>>
  BY <1>2, <1>3 DEF Read
<1>5. TypeOK' /\ Fifo!Read(Held)
  <2>1. Held \in Nat
    BY <1>1
  <2>2. QED
    BY <1>2, <1>3, <1>4, <2>1, FetchStep
<1>6. /\ dest' = SubSeq(Contents, 1, Len(Contents))
      /\ Contents' = SubSeq(Contents, Len(Contents) + 1, Len(Contents))
  <2>1. Fifo!AtMost(Held, Len(Contents)) = Len(Contents)
    BY <1>1 DEF Fifo!AtMost
  <2>2. QED
    BY <1>5, <2>1 DEF Fifo!Read
<1>7. dest' = Contents /\ Contents' = <<>>
  BY <1>1, <1>6, SubSeqFull, SubSeqEmpty
<1>8. Held' = 0
  <2>1. Held \in 0..ReadSpace(write_ptr, read_ptr) /\ write_ptr \in Indices
    BY <1>1 DEF Held, TypeOK
  <2>2. ReadSpace(write_ptr, Masked(read_ptr + Held)) = ReadSpace(write_ptr, read_ptr) - Held
    BY <1>1, <2>1, ReaderMoves
  <2>3. QED
    BY <1>1, <1>4, <2>2 DEF Held
<1>9. QED
  BY <1>5, <1>7, <1>8

LEMMA RingStays ==
  ASSUME TypeOK, UNCHANGED ring
  PROVE  TypeOK' /\ Contents' = Contents /\ Held' = Held /\ dest' = dest
  BY DEF TypeOK, ring, Contents, Held, Indices

-----------------------------------------------------------------------------
(* Each step keeps the invariant *)

\* Where nothing of the ring, of the pages or of the thread's buffers changes.
LEMMA CalmRing ==
  ASSUME TypeOK, RingInv, UNCHANGED <<ring, made, encbuf, pageEnds>>
  PROVE  TypeOK' /\ RingInv'
<1>1. TypeOK' /\ Contents' = Contents /\ Held' = Held
  BY RingStays
<1>2. QED
  BY <1>1 DEF RingInv

LEMMA InitKeeps ==
  ASSUME EncoderInit PROVE EncInv
<1>1. 0 \in Indices /\ Size \in Nat /\ Size >= 2
  BY RingAssumption DEF Indices
<1>2. 0 \in Bytes /\ MaxBytes \in Nat
  BY EncoderAssumption
<1>3. TypeOK
  <2>1. buf \in [Indices -> Bytes]
    BY <1>2 DEF EncoderInit
  <2>2. QED
    BY <1>1, <2>1, EmptySeq DEF EncoderInit, TypeOK
<1>4. Held = 0
  BY <1>1, SpaceValues DEF EncoderInit, Held
<1>5. Len(Contents) = 0
  BY <1>3, <1>4, RingTypes
<1>6. RingInv
  BY <1>2, <1>4, <1>5 DEF RingInv, RunTo, EncoderInit
<1>7. PagesInv /\ HandInv /\ FlagsInv /\ FileInv
  BY <1>4, EmptySeq DEF EncoderInit, PagesInv, HandInv, FlagsInv, FileInv
<1>8. QED
  BY <1>3, <1>6, <1>7 DEF EncInv

LEMMA AddEncoderKeeps ==
  ASSUME EncInv, AddEncoder PROVE EncInv'
<1> USE DEF EncInv
<1>1. /\ loop = "init" /\ loop' = "top" /\ Put(HeaderBytes)
      /\ UNCHANGED <<encbuf, write_to_disk, filedump_fd, script, file, undrained,
                     closedUnderWrite, overrun>>
  BY DEF AddEncoder, flags
<1>2. /\ made = 0 /\ Held = 0 /\ file = <<>> /\ encbuf = 0 /\ ~undrained /\ script = "idle"
      /\ filedump_fd = "none" /\ ~overrun
  BY <1>1 DEF PagesInv
<1>3. HeaderBytes \in 0..Room /\ HeaderBytes \in Nat /\ 0 + HeaderBytes <= MaxBytes
      /\ MaxBytes \in Nat
  BY <1>2, RingTypes, EncoderAssumption
<1>4. /\ TypeOK' /\ RunTo(Contents', 0 + HeaderBytes) /\ Held' = HeaderBytes
      /\ made' = HeaderBytes /\ pageEnds' = pageEnds \cup {HeaderBytes}
  BY <1>1, <1>2, <1>3, PutAppends DEF RingInv
<1>5. RingInv'
  <2>1. HeaderBytes \in 0..MaxBytes /\ HeaderBytes - HeaderBytes = 0 /\ 0 + HeaderBytes = HeaderBytes
    BY <1>3
  <2>2. 0 \in pageEnds
    BY <1>2 DEF RingInv
  <2>3. encbuf' \in Nat
    BY <1>1, <1>2
  <2>4. QED
    BY <1>4, <2>1, <2>2, <2>3 DEF RingInv
<1>6. PagesInv' /\ HandInv' /\ FlagsInv' /\ FileInv'
  BY <1>1, <1>2, <1>4 DEF PagesInv, HandInv, FlagsInv, FileInv
<1>7. QED
  BY <1>4, <1>5, <1>6

LEMMA EncodeFrameKeeps ==
  ASSUME EncInv, EncodeFrame PROVE EncInv'
<1> USE DEF EncInv
<1>1. /\ loop = "top" /\ loop' = "flush"
      /\ UNCHANGED <<ring, encbuf, write_to_disk, filedump_fd, script, file, made, pageEnds,
                     undrained, closedUnderWrite, overrun>>
  BY DEF EncodeFrame, flags, ghosts
<1>2. PICK ends \in Frames :
        /\ \A k \in 1..Len(ends) : made + ends[k] <= MaxBytes
        /\ pages' = [k \in 1..Len(ends) |-> made + ends[k]]
  BY DEF EncodeFrame
<1>3. /\ TypeOK' /\ RingInv' /\ Held' = Held
  BY <1>1, CalmRing, RingStays
<1>4. /\ Len(ends) \in Nat /\ made \in Nat /\ MaxBytes \in Nat /\ Size \in Nat
      /\ HeaderBytes \in 1..Size - 1 /\ Held \in 0..Size - 1
      /\ \A k \in 1..Len(ends) : ends[k] \in 1..Size - 1 - HeaderBytes
      /\ \A i, k \in 1..Len(ends) : i < k => ends[i] < ends[k]
  BY SMTT(60), <1>2, RingTypes, EncoderAssumption, ElementOfSeq, LenProperties DEF RingInv
<1>5. \A k \in 1..Len(ends) : /\ made + ends[k] \in 1..MaxBytes
                              /\ made + ends[k] > made
  BY <1>2, <1>4
<1>6. pages' \in Seq(1..MaxBytes) /\ Len(pages') = Len(ends)
  <2>1. pages' \in [1..Len(ends) -> 1..MaxBytes]
    BY <1>2, <1>5
  <2>2. QED
    BY <1>4, <2>1, LenProperties
<1>7. \A k \in 1..Len(ends) : pages'[k] = made + ends[k]
  BY <1>2
<1>8. ~undrained => Held <= HeaderBytes
  BY <1>1, <1>4 DEF PagesInv
<1>9. \A k \in 1..Len(ends) :
        /\ pages'[k] > made
        /\ ~undrained => Held + pages'[k] - made <= Size - 1
  BY <1>4, <1>5, <1>7, <1>8
<1>10. \A i, k \in 1..Len(ends) : i < k => pages'[i] < pages'[k]
  BY <1>4, <1>7
<1>11. PagesInv'
  BY <1>1, <1>3, <1>6, <1>9, <1>10 DEF PagesInv
<1>12. HandInv' /\ FlagsInv' /\ FileInv'
  BY <1>1, <1>3 DEF HandInv, FlagsInv, FileInv, InHand
<1>13. QED
  BY <1>3, <1>11, <1>12

LEMMA WritePageKeeps ==
  ASSUME EncInv, WritePage PROVE EncInv'
<1> USE DEF EncInv
<1> DEFINE n == PageBytes
<1>1. /\ loop = "flush" /\ loop' = "flush" /\ pages # <<>> /\ Room >= n /\ Put(n)
      /\ pages' = Tail(pages)
      /\ UNCHANGED <<encbuf, write_to_disk, filedump_fd, script, file, undrained,
                     closedUnderWrite, overrun>>
  BY DEF WritePage, flags
<1>2. /\ pages \in Seq(1..MaxBytes) /\ Head(pages) = pages[1] /\ 1 \in 1..Len(pages)
      /\ pages[1] \in 1..MaxBytes /\ Len(pages) \in Nat
      /\ pages' \in Seq(1..MaxBytes) /\ Len(pages') = Len(pages) - 1
      /\ \A i \in 1..Len(pages') : pages'[i] = pages[i + 1] /\ i + 1 \in 1..Len(pages)
  <2>1. pages \in Seq(1..MaxBytes)
    BY <1>1 DEF PagesInv
  <2>2. Len(pages) \in Nat /\ Len(pages) # 0
    BY <1>1, <2>1, EmptySeq, LenProperties
  <2>3. 1 \in 1..Len(pages)
    BY <2>2
  <2>4. pages[1] \in 1..MaxBytes
    BY <2>1, <2>3, ElementOfSeq
  <2>5. /\ Head(pages) = pages[1] /\ Tail(pages) \in Seq(1..MaxBytes)
        /\ Len(Tail(pages)) = Len(pages) - 1
        /\ \A i \in 1..Len(Tail(pages)) : Tail(pages)[i] = pages[i + 1]
    BY <1>1, <2>1, HeadTailProperties
  <2>6. \A i \in 1..(Len(pages) - 1) : i + 1 \in 1..Len(pages)
    BY <2>2
  <2>7. QED
    BY <1>1, <2>1, <2>2, <2>3, <2>4, <2>5, <2>6
<1>3. /\ made \in Nat /\ n = pages[1] - made /\ pages[1] > made /\ MaxBytes \in Nat
  BY <1>1, <1>2, EncoderAssumption DEF PageBytes, PagesInv, RingInv
<1>4. /\ Room \in 0..Size - 1 /\ Held \in 0..Size - 1 /\ Size \in Nat
  BY RingTypes
<1> HIDE DEF n
<1>5. n \in 0..Room /\ n \in Nat /\ made + n = pages[1] /\ made + n <= MaxBytes
  BY <1>1, <1>2, <1>3, <1>4
<1>6. /\ TypeOK' /\ RunTo(Contents', pages[1]) /\ Held' = Held + n
      /\ made' = pages[1] /\ pageEnds' = pageEnds \cup {pages[1]}
  BY <1>1, <1>3, <1>5, PutAppends DEF RingInv
<1>7. made' - Held' = made - Held /\ Held' <= made'
  BY <1>3, <1>4, <1>5, <1>6 DEF RingInv
<1>8. RingInv'
  <2>1. made' \in 0..MaxBytes
    BY <1>2, <1>3, <1>6
  <2>2. QED
    BY <1>1, <1>6, <1>7, <2>1 DEF RingInv
<1>9. PagesInv'
  <2>1. \A i, k \in 1..Len(pages) : i < k => pages[i] < pages[k]
    BY <1>1 DEF PagesInv
  <2>2. \A i \in 1..Len(pages') : pages'[i] > made'
    <3>1. \A i \in 1..Len(pages') : 1 < i + 1
      OBVIOUS
    <3>2. \A i \in 1..Len(pages') : pages[1] < pages[i + 1]
      BY <1>2, <2>1, <3>1
    <3>3. \A i \in 1..Len(pages') : pages[i + 1] \in 1..MaxBytes
      BY <1>2, ElementOfSeq
    <3>4. QED
      BY <1>2, <1>3, <1>6, <3>2, <3>3
  <2>3. ~undrained => \A k \in 1..Len(pages') : Held' + pages'[k] - made' <= Size - 1
    <3>1. ~undrained => \A k \in 1..Len(pages) : Held + pages[k] - made <= Size - 1
      BY <1>1 DEF PagesInv
    <3>2. \A k \in 1..Len(pages) : pages[k] \in Nat
      <4>1. \A k \in 1..Len(pages) : pages[k] \in 1..MaxBytes
        BY <1>2, ElementOfSeq
      <4>2. QED
        BY <4>1
    <3>3. ASSUME ~undrained, NEW k \in 1..Len(pages') PROVE Held' + pages'[k] - made' <= Size - 1
      <4>1. Held + pages[k + 1] - made <= Size - 1 /\ pages[k + 1] \in Nat
        BY <1>2, <3>1, <3>2, <3>3
      <4>2. pages'[k] = pages[k + 1]
        BY <1>2, <3>3
      <4>3. Held' = Held + n /\ made' = made + n
        BY <1>5, <1>6
      <4>4. \A q \in Nat : Held + n + q - (made + n) = Held + q - made
        BY <1>3, <1>4, <1>5
      <4>5. QED
        BY <4>1, <4>2, <4>3, <4>4
    <3>4. QED
      BY <3>3
  <2>4. \A i, k \in 1..Len(pages') : i < k => pages'[i] < pages'[k]
    <3>1. \A i, k \in 1..Len(pages') : i < k => i + 1 < k + 1
      BY <1>2
    <3>2. QED
      BY <1>2, <2>1, <3>1
  <2>5. pages' \in Seq(1..MaxBytes) /\ overrun' = overrun /\ undrained' = undrained
        /\ script' = script /\ loop' = "flush"
    BY <1>1, <1>2
  <2>6. overrun => undrained /\ script = "deleted"
    BY DEF PagesInv
  <2>7. QED
    BY <2>2, <2>3, <2>4, <2>5, <2>6 DEF PagesInv
<1>10. HandInv' /\ FlagsInv'
  BY <1>1 DEF HandInv, FlagsInv
<1>11. FileInv'
  <2>1. InHand' = InHand /\ InHand = 0
    BY <1>1 DEF InHand
  <2>2. ASSUME ~closedUnderWrite, file # <<>>
        PROVE  filedump_fd = "open" => file[Len(file)] = made' - Held' - 0
    <3>1. filedump_fd = "open" => file[Len(file)] = made - Held - 0
      BY <2>1, <2>2 DEF FileInv
    <3>2. made - Held - 0 = made - Held /\ made' - Held' - 0 = made' - Held'
      BY <1>3, <1>4, <1>5, <1>6
    <3>3. QED
      BY <1>7, <3>1, <3>2
  <2>3. QED
    BY <1>1, <1>6, <2>1, <2>2 DEF FileInv
<1>12. QED
  BY <1>6, <1>8, <1>9, <1>10, <1>11

LEMMA DrainKeeps ==
  ASSUME EncInv, Drain PROVE EncInv'
<1> USE DEF EncInv
<1>1. /\ loop = "flush" /\ pages = <<>>
      /\ UNCHANGED <<write_to_disk, write_to_stream, filedump_fd, script, file, made, pageEnds,
                     closedUnderWrite, overrun>>
      /\ undrained' = (Held > 0 /\ ~write_to_disk /\ ~write_to_stream)
  BY DEF Drain, flags
<1>2. /\ Contents \in Seq(Bytes) /\ Len(Contents) = Held /\ Held \in 0..Size - 1
      /\ Size \in Nat /\ made \in 0..MaxBytes /\ MaxBytes \in Nat /\ ~overrun
  BY <1>1, RingTypes, EncoderAssumption DEF RingInv, PagesInv, FlagsInv
<1>3. CASE (write_to_disk \/ write_to_stream) /\ Held > 0
  <2>1. Read(Held) /\ encbuf' = Held /\ loop' = "disk"
    BY <1>3 DEF Drain
  <2>2. TypeOK' /\ dest' = Contents /\ Held' = 0 /\ Contents' = <<>>
    BY <2>1, ReadTakesAll
  <2>3. made - 0 = made /\ 0 <= made /\ Held \in Nat
    BY <1>2
  <2>4. RingInv'
    <3>1. RunTo(<<>>, made)
      BY EmptySeq DEF RunTo
    <3>2. QED
      BY <1>1, <2>1, <2>2, <2>3, <3>1 DEF RingInv
  <2>5. Len(dest') = Held /\ dest' # <<>> /\ RunTo(dest', made) /\ made - Len(dest') \in pageEnds
    BY <1>2, <1>3, <2>2, EmptySeq DEF RingInv
  <2>6. PagesInv' /\ HandInv' /\ FlagsInv'
    BY <1>1, <1>2, <2>1, <2>2, <2>5 DEF PagesInv, HandInv, FlagsInv
  <2>7. FileInv'
    <3>1. InHand = 0 /\ InHand' = Held
      BY <1>1, <2>1, <2>5 DEF InHand
    <3>2. made - Held - 0 = made - 0 - Held
      BY <1>2
    <3>3. QED
      BY <1>1, <2>2, <3>1, <3>2 DEF FileInv
  <2>8. QED
    BY <2>2, <2>4, <2>6, <2>7
<1>4. CASE ~((write_to_disk \/ write_to_stream) /\ Held > 0)
  <2>1. loop' = "top" /\ UNCHANGED <<ring, encbuf>>
    BY <1>4 DEF Drain
  <2>2. TypeOK' /\ RingInv' /\ Held' = Held
    BY <1>1, <2>1, CalmRing, RingStays
  <2>3. ~undrained' => Held = 0
    <3> DEFINE some == Held > 0
    <3>1. ~some => Held = 0
      BY <1>2
    <3> HIDE DEF some
    <3>2. undrained' = (some /\ ~write_to_disk /\ ~write_to_stream)
      BY <1>1 DEF some
    <3>3. ~((write_to_disk \/ write_to_stream) /\ some)
      BY <1>4 DEF some
    <3>4. QED
      BY <3>1, <3>2, <3>3, Zenon
  <2>4. PagesInv' /\ HandInv' /\ FlagsInv' /\ FileInv'
    BY <1>1, <1>2, <2>1, <2>2, <2>3 DEF PagesInv, HandInv, FlagsInv, FileInv, InHand
  <2>5. QED
    BY <2>2, <2>4
<1>5. QED
  BY <1>3, <1>4

LEMMA TestDiskKeeps ==
  ASSUME EncInv, TestDisk PROVE EncInv'
<1> USE DEF EncInv
<1>1. /\ loop = "disk"
      /\ loop' = IF write_to_disk /\ filedump_fd # "none" THEN "fwrite" ELSE "top"
      /\ UNCHANGED <<ring, encbuf, write_to_disk, filedump_fd, script, file, made, pageEnds,
                     undrained, overrun>>
  BY DEF TestDisk, flags, ghosts
<1>2. /\ closedUnderWrite => closedUnderWrite'
      /\ write_to_disk /\ filedump_fd = "closed" => closedUnderWrite'
  BY Zenon DEF TestDisk
<1>3. TypeOK' /\ RingInv' /\ Held' = Held /\ dest' = dest
  BY <1>1, CalmRing, RingStays
<1>4. PagesInv' /\ HandInv' /\ FlagsInv'
  <2>1. PagesInv' /\ HandInv'
    BY <1>1, <1>3 DEF PagesInv, HandInv
  <2>2. FlagsInv'
    BY <1>1, <1>2 DEF FlagsInv
  <2>3. QED
    BY <2>1, <2>2
<1>5. FileInv'
  <2>1. (~closedUnderWrite /\ file # <<>> /\ filedump_fd = "open") => write_to_disk
    BY DEF FlagsInv
  <2>2. (~closedUnderWrite /\ file # <<>> /\ filedump_fd = "open") => InHand' = InHand
    BY <1>1, <1>3, <2>1 DEF InHand
  <2>3. QED
    BY <1>1, <1>2, <1>3, <2>2 DEF FileInv
<1>6. QED
  BY <1>3, <1>4, <1>5

\* The next run is appended.
LEMMA FileGrows ==
  ASSUME NEW old \in Seq(Bytes), NEW more \in Seq(Bytes), more # <<>>,
         NEW end \in Nat, RunTo(more, end), {end, end - Len(more)} \subseteq pageEnds,
         old # <<>> => /\ RunTo(old, end - Len(more)) /\ old[Len(old)] = end - Len(more)
                       /\ old[1] - 1 \in pageEnds
  PROVE  LET new == old \o more IN
         /\ new \in Seq(Bytes) /\ RunTo(new, end) /\ new[Len(new)] = end
         /\ {new[Len(new)], new[1] - 1} \subseteq pageEnds
<1> DEFINE new == old \o more
           m   == Len(old)
           n   == Len(more)
<1>1. /\ m \in Nat /\ n \in Nat /\ n # 0 /\ new \in Seq(Bytes) /\ Len(new) = m + n
      /\ \A k \in 1..m + n : new[k] = IF k <= m THEN old[k] ELSE more[k - m]
  <2>1. m \in Nat /\ n \in Nat /\ n # 0
    BY EmptySeq, LenProperties
  <2>2. QED
    BY <2>1, ConcatProperties
<1>2. RunTo(old, end - Len(more))
  <2>1. CASE old = <<>>
    BY <2>1, EmptySeq DEF RunTo
  <2>2. QED
    BY <2>1
<1>3. RunTo(new, end)
  BY <1>2, RunsJoin
<1>4. more[1] = end - n + 1 /\ more[n] = end - n + n
  <2>1. 1 \in 1..n /\ n \in 1..n
    BY <1>1
  <2>2. QED
    BY <2>1 DEF RunTo
<1>5. m # 0 <=> old # <<>>
  BY EmptySeq
<1> HIDE DEF new
<1>6. new[m + n] = end
  <2>1. m + n \in 1..m + n /\ ~(m + n <= m) /\ (m + n) - m = n
    BY <1>1
  <2>2. end - n + n = end
    BY <1>1
  <2>3. QED
    BY <1>1, <1>4, <2>1, <2>2
<1>7. new[1] - 1 \in pageEnds
  <2>1. 1 \in 1..m + n
    BY <1>1
  <2>2. CASE m = 0
    <3>1. new[1] = more[1]
      BY <1>1, <2>1, <2>2
    <3>2. (end - n + 1) - 1 = end - n
      BY <1>1
    <3>3. QED
      BY <1>4, <3>1, <3>2
  <2>3. CASE m # 0
    <3>1. new[1] = old[1]
      BY <1>1, <2>1, <2>3
    <3>2. QED
      BY <1>5, <2>3, <3>1
  <2>4. QED
    BY <2>2, <2>3
<1>8. QED
  BY <1>1, <1>3, <1>6, <1>7 DEF new

LEMMA WriteFileKeeps ==
  ASSUME EncInv, WriteFile PROVE EncInv'
<1> USE DEF EncInv
<1>1. /\ loop = "fwrite" /\ loop' = "top"
      /\ file' = IF filedump_fd = "open" THEN file \o dest ELSE file
      /\ UNCHANGED <<ring, encbuf, write_to_disk, filedump_fd, script, made, pageEnds,
                     undrained, closedUnderWrite, overrun>>
  BY DEF WriteFile, flags, ghosts
<1>2. TypeOK' /\ RingInv' /\ Held' = Held /\ dest' = dest
  BY <1>1, CalmRing, RingStays
<1>3. /\ Held = 0 /\ dest # <<>> /\ RunTo(dest, made) /\ made - Len(dest) \in pageEnds
      /\ dest \in Seq(Bytes) /\ made \in Nat /\ made \in pageEnds /\ file \in Seq(Bytes)
      /\ Len(dest) \in Nat
  BY <1>1, EncoderAssumption, LenProperties DEF HandInv, TypeOK, RingInv, FileInv
<1>4. PagesInv' /\ HandInv'
  BY <1>1, <1>2, <1>3 DEF PagesInv, HandInv
<1>5. file' \in Seq(Bytes)
  BY <1>1, <1>3, ConcatProperties
<1>6. FlagsInv'
  BY <1>1 DEF FlagsInv
<1>7. ASSUME ~closedUnderWrite PROVE FileInv'
  <2>1. filedump_fd = "open"
    BY <1>1, <1>7 DEF FlagsInv
  <2>2. file # <<>> => /\ RunTo(file, made - Len(dest)) /\ file[Len(file)] = made - Len(dest)
                       /\ file[1] - 1 \in pageEnds
    <3>1. InHand = Len(dest) /\ made - 0 - Len(dest) = made - Len(dest)
      BY <1>1, <1>3 DEF InHand
    <3>2. QED
      BY <1>3, <1>7, <2>1, <3>1 DEF FileInv
  <2>3. /\ RunTo(file', made) /\ file'[Len(file')] = made
        /\ {file'[Len(file')], file'[1] - 1} \subseteq pageEnds
    <3>1. file' = file \o dest
      BY <1>1, <2>1
    <3>2. /\ RunTo(file \o dest, made) /\ (file \o dest)[Len(file \o dest)] = made
          /\ {(file \o dest)[Len(file \o dest)], (file \o dest)[1] - 1} \subseteq pageEnds
      BY <1>3, <2>2, FileGrows
    <3>3. QED
      BY <3>1, <3>2
  <2>4. InHand' = 0 /\ made - 0 - 0 = made
    BY <1>1, <1>3 DEF InHand
  <2>5. QED
    BY <1>1, <1>2, <1>3, <1>5, <2>3, <2>4 DEF FileInv
<1>8. FileInv'
  BY <1>1, <1>5, <1>7 DEF FileInv
<1>9. QED
  BY <1>2, <1>4, <1>6, <1>8

LEMMA EndThreadKeeps ==
  ASSUME EncInv, EndThread PROVE EncInv'
<1> USE DEF EncInv
<1>1. /\ loop = "top" /\ loop' = "ended"
      /\ UNCHANGED <<ring, encbuf, write_to_disk, filedump_fd, script, file, made, pageEnds,
                     undrained, closedUnderWrite, overrun>>
  BY DEF EndThread, flags, ghosts
<1>2. TypeOK' /\ RingInv' /\ Held' = Held /\ dest' = dest
  BY <1>1, CalmRing, RingStays
<1>3. PagesInv' /\ HandInv' /\ FlagsInv' /\ FileInv'
  BY <1>1, <1>2 DEF PagesInv, HandInv, FlagsInv, FileInv, InHand
<1>4. QED
  BY <1>2, <1>3

\* The calls of the script but the last.
LEMMA ScriptCallsKeep ==
  ASSUME EncInv,
         \/ \E record \in BOOLEAN : SetFiledump(record)
         \/ ForgetFile \/ ClearDisk \/ SetDisk \/ Stop
         \/ \E opened \in BOOLEAN : OpenFile(opened)
         \/ \E on \in BOOLEAN : SetStream(on)
  PROVE  EncInv'
<1> USE DEF EncInv
<1>1. /\ loop = "init" => script = "idle" /\ ~running
      /\ overrun => script = "deleted"
  BY DEF PagesInv
<1>2. UNCHANGED <<ring, loop, pages, encbuf, made, pageEnds, undrained, overrun>>
  BY DEF SetFiledump, ForgetFile, ClearDisk, SetDisk, Stop, OpenFile, SetStream, thread, ghosts, flags
<1>3. loop # "init" /\ script # "deleted"
  <2>1. ASSUME NEW record \in BOOLEAN, SetFiledump(record) PROVE loop # "init" /\ script = "idle"
    BY <2>1 DEF SetFiledump
  <2>2. CASE ForgetFile \/ ClearDisk \/ SetDisk \/ Stop
    BY <1>1, <2>2 DEF ForgetFile, ClearDisk, SetDisk, Stop
  <2>3. ASSUME NEW opened \in BOOLEAN, OpenFile(opened) PROVE script = "open"
    BY <2>3 DEF OpenFile
  <2>4. ASSUME NEW on \in BOOLEAN, SetStream(on) PROVE loop # "init" /\ script = "idle"
    BY <2>4 DEF SetStream
  <2>5. QED
    BY <1>1, <2>1, <2>2, <2>3, <2>4
<1>4. TypeOK' /\ RingInv' /\ Held' = Held /\ dest' = dest
  BY <1>2, CalmRing, RingStays
<1>5. PagesInv' /\ HandInv' /\ InHand' = InHand
  BY <1>1, <1>2, <1>3, <1>4 DEF PagesInv, HandInv, InHand
<1>6. ASSUME UNCHANGED file, filedump_fd' = "open" => filedump_fd = "open",
             closedUnderWrite => closedUnderWrite'
      PROVE  FileInv'
  BY <1>2, <1>4, <1>5, <1>6 DEF FileInv
<1>7. ASSUME NEW record \in BOOLEAN, SetFiledump(record) PROVE FlagsInv' /\ FileInv'
  <2>1. /\ script = "idle" /\ UNCHANGED <<loop, file>>
        /\ script' \in {"idle", "clear", "clear, then open", "open"}
        /\ write_to_disk => /\ filedump_fd' = "closed" /\ script' \in {"clear", "clear, then open"}
                            /\ closedUnderWrite \/ loop = "fwrite" => closedUnderWrite'
        /\ ~write_to_disk => /\ script' \in {"idle", "open"}
                             /\ UNCHANGED filedump_fd
    BY <1>2, <1>7 DEF SetFiledump
  <2>2. (write_to_disk' <=> write_to_disk) /\ (closedUnderWrite => closedUnderWrite')
    <3>1. UNCHANGED write_to_disk /\ (write_to_disk \/ UNCHANGED closedUnderWrite)
      BY <1>7 DEF SetFiledump
    <3>2. write_to_disk /\ closedUnderWrite => closedUnderWrite'
      BY <2>1
    <3>3. write_to_disk' <=> write_to_disk
      BY <3>1, Zenon
    <3>4. closedUnderWrite => closedUnderWrite'
      BY <3>1, <3>2, Zenon
    <3>5. QED
      BY <3>3, <3>4
  <2>3. FlagsInv'
    <3>1. CASE write_to_disk
      BY <2>1, <2>2, <3>1 DEF FlagsInv
    <3>2. CASE ~write_to_disk
      BY <2>1, <2>2, <3>2 DEF FlagsInv
    <3>3. QED
      BY <3>1, <3>2
  <2>4. QED
    BY <1>4, <1>5, <1>6, <2>1, <2>2, <2>3
<1>8. CASE ClearDisk
  <2>1. /\ script \in {"clear", "clear, then open"} /\ script' \in {"idle", "open"}
        /\ filedump_fd = "none"
        /\ ~write_to_disk' /\ UNCHANGED <<loop, filedump_fd, file>>
    BY <1>2, <1>8 DEF ClearDisk, ghosts
  <2>2. closedUnderWrite' <=> closedUnderWrite
    <3>1. UNCHANGED closedUnderWrite
      BY <1>8 DEF ClearDisk, ghosts
    <3>2. QED
      BY <3>1, Zenon
  <2>3. FlagsInv'
    BY <2>1, <2>2 DEF FlagsInv
  <2>4. QED
    BY <1>4, <1>5, <1>6, <2>1, <2>2, <2>3
<1>9. CASE ForgetFile
  <2>1. /\ script \in {"clear", "clear, then open"} /\ filedump_fd = "closed"
        /\ filedump_fd' = "none" /\ UNCHANGED <<loop, script, file>>
    BY <1>2, <1>9 DEF ForgetFile, ghosts
  <2>2. (write_to_disk' <=> write_to_disk) /\ (closedUnderWrite' <=> closedUnderWrite)
    <3>1. UNCHANGED <<write_to_disk, closedUnderWrite>>
      BY <1>9 DEF ForgetFile, ghosts
    <3>2. QED
      BY <3>1, Zenon
  <2>3. FlagsInv'
    BY <2>1, <2>2 DEF FlagsInv
  <2>4. QED
    BY <1>4, <1>5, <1>6, <2>1, <2>2, <2>3
<1>10. CASE SetDisk
  <2>1. /\ script = "set" /\ script' = "idle" /\ write_to_disk'
        /\ UNCHANGED <<loop, filedump_fd, file>>
    BY <1>2, <1>10 DEF SetDisk, ghosts
  <2>2. closedUnderWrite' <=> closedUnderWrite
    <3>1. UNCHANGED closedUnderWrite
      BY <1>10 DEF SetDisk, ghosts
    <3>2. QED
      BY <3>1, Zenon
  <2>3. FlagsInv'
    BY <2>1, <2>2 DEF FlagsInv
  <2>4. QED
    BY <1>4, <1>5, <1>6, <2>1, <2>2, <2>3
<1>11. CASE Stop
  <2>1. /\ script = "idle" /\ script' = "join"
        /\ UNCHANGED <<loop, filedump_fd, file>>
    BY <1>2, <1>11 DEF Stop, ghosts, flags
  <2>2. (write_to_disk' <=> write_to_disk) /\ (closedUnderWrite' <=> closedUnderWrite)
    <3>1. UNCHANGED <<write_to_disk, closedUnderWrite>>
      BY <1>11 DEF Stop, ghosts, flags
    <3>2. QED
      BY <3>1, Zenon
  <2>3. FlagsInv'
    BY <2>1, <2>2 DEF FlagsInv
  <2>4. QED
    BY <1>4, <1>5, <1>6, <2>1, <2>2, <2>3
<1>12. ASSUME NEW opened \in BOOLEAN, OpenFile(opened) PROVE FlagsInv' /\ FileInv'
  <2>1. script = "open" /\ UNCHANGED <<loop, write_to_disk, closedUnderWrite>>
    BY <1>2, <1>12 DEF OpenFile, ghosts
  <2>2. CASE opened
    <3>1. filedump_fd' = "open" /\ file' = <<>> /\ script' = "set"
      BY <1>12, <2>2 DEF OpenFile
    <3>2. FlagsInv'
      BY <2>1, <3>1 DEF FlagsInv
    <3>3. QED
      BY <3>1, <3>2, EmptySeq DEF FileInv
  <2>3. CASE ~opened
    <3>1. filedump_fd' = "none" /\ script' = "idle" /\ UNCHANGED file
      BY <1>12, <2>3 DEF OpenFile
    <3>2. FlagsInv'
      BY <2>1, <3>1 DEF FlagsInv
    <3>3. QED
      BY <1>6, <2>1, <3>1, <3>2
  <2>4. QED
    BY <2>2, <2>3
<1>13. ASSUME NEW on \in BOOLEAN, SetStream(on) PROVE FlagsInv' /\ FileInv'
  <2>1. UNCHANGED <<loop, script, filedump_fd, file>>
    BY <1>2, <1>13 DEF SetStream, ghosts
  <2>2. (write_to_disk' <=> write_to_disk) /\ (closedUnderWrite' <=> closedUnderWrite)
    <3>1. UNCHANGED <<write_to_disk, closedUnderWrite>>
      BY <1>13 DEF SetStream, ghosts
    <3>2. QED
      BY <3>1, Zenon
  <2>3. FlagsInv'
    BY <2>1, <2>2 DEF FlagsInv
  <2>4. QED
    BY <1>6, <2>1, <2>2, <2>3
<1>14. QED
  BY <1>4, <1>5, <1>7, <1>8, <1>10, <1>11, <1>12, <1>13, <1>9

LEMMA DestructorKeeps ==
  ASSUME EncInv, Destructor PROVE EncInv'
<1> USE DEF EncInv
<1>1. /\ script = "join" /\ loop = "ended" /\ script' = "deleted" /\ filedump_fd' = "none"
      /\ UNCHANGED <<loop, encbuf, write_to_disk, made, pageEnds, undrained, closedUnderWrite>>
  BY DEF Destructor, thread
<1>2. /\ Contents \in Seq(Bytes) /\ Len(Contents) = Held /\ Held \in 0..Size - 1
      /\ Size \in Nat /\ made \in Nat /\ ~overrun /\ encbuf \in Nat /\ file \in Seq(Bytes)
      /\ ~undrained => Held = 0 \/ encbuf = 0
  BY <1>1, RingTypes, EncoderAssumption DEF RingInv, PagesInv, FileInv
<1>3. CASE encbuf > 0 /\ Held > 0
  <2>1. /\ Read(Held) /\ overrun' = (Held > encbuf)
        /\ file' = IF write_to_disk /\ filedump_fd = "open" THEN file \o dest' ELSE file
    BY <1>3 DEF Destructor
  <2>2. TypeOK' /\ dest' = Contents /\ Held' = 0 /\ Contents' = <<>>
    BY <2>1, ReadTakesAll
  <2>3. undrained
    BY <1>2, <1>3
  <2>4. RingInv'
    <3>1. RunTo(<<>>, made)
      BY EmptySeq DEF RunTo
    <3>2. made - 0 = made /\ 0 <= made
      BY <1>2
    <3>3. QED
      BY <1>1, <2>2, <3>1, <3>2 DEF RingInv
  <2>5. PagesInv' /\ HandInv' /\ FlagsInv'
    BY <1>1, <2>3 DEF PagesInv, HandInv, FlagsInv
  <2>6. FileInv'
    <3>1. CASE write_to_disk /\ filedump_fd = "open"
      <4>1. file' = file \o Contents /\ Contents # <<>>
        BY <1>2, <1>3, <2>1, <2>2, <3>1, EmptySeq
      <4>2. RunTo(Contents, made) /\ {made, made - Len(Contents)} \subseteq pageEnds
        BY <1>2 DEF RingInv
      <4>3. ASSUME ~closedUnderWrite, file # <<>>
            PROVE  /\ RunTo(file, made - Len(Contents)) /\ file[Len(file)] = made - Len(Contents)
                   /\ file[1] - 1 \in pageEnds
        <5>1. InHand = 0 /\ made - Held - 0 = made - Held
          BY <1>1, <1>2 DEF InHand
        <5>2. QED
          BY <1>2, <3>1, <4>3, <5>1 DEF FileInv
      <4>4. file' \in Seq(Bytes)
        BY <1>2, <4>1, ConcatProperties
      <4>5. ASSUME ~closedUnderWrite
            PROVE  /\ RunTo(file', made) /\ file'[Len(file')] = made
                   /\ {file'[Len(file')], file'[1] - 1} \subseteq pageEnds
        BY <1>2, <4>1, <4>2, <4>3, <4>5, FileGrows
      <4>6. closedUnderWrite' <=> closedUnderWrite
        BY <1>1, Zenon
      <4>7. made \in Nat /\ filedump_fd' # "open" /\ pageEnds' = pageEnds
        BY <1>1, <1>2
      <4>8. QED
        BY <4>4, <4>5, <4>6, <4>7 DEF FileInv
    <3>2. CASE ~(write_to_disk /\ filedump_fd = "open")
      BY <1>1, <2>1, <3>2 DEF FileInv
    <3>3. QED
      BY <3>1, <3>2
  <2>7. QED
    BY <2>2, <2>4, <2>5, <2>6
<1>4. CASE ~(encbuf > 0 /\ Held > 0)
  <2>1. UNCHANGED <<ring, overrun, file>>
    BY <1>4 DEF Destructor
  <2>2. TypeOK' /\ RingInv' /\ Held' = Held /\ dest' = dest
    BY <1>1, <2>1, CalmRing, RingStays
  <2>3. PagesInv' /\ HandInv' /\ FlagsInv' /\ FileInv'
    BY <1>1, <1>2, <2>1, <2>2 DEF PagesInv, HandInv, FlagsInv, FileInv
  <2>4. QED
    BY <2>2, <2>3
<1>5. QED
  BY <1>3, <1>4

LEMMA EncStep ==
  ASSUME EncInv, [EncoderNext]_encoderVars PROVE EncInv'
<1>1. CASE UNCHANGED encoderVars
  <2>1. UNCHANGED <<ring, made, encbuf, pageEnds, loop, pages, file, running, filedump_fd, script,
                    undrained, overrun, write_to_disk, closedUnderWrite>>
    BY <1>1 DEF encoderVars, thread, flags, ghosts
  <2>2. TypeOK' /\ RingInv' /\ Held' = Held /\ dest' = dest
    BY <2>1, CalmRing, RingStays DEF EncInv
  <2>3. PagesInv' /\ HandInv' /\ InHand' = InHand
    BY <2>1, <2>2 DEF EncInv, PagesInv, HandInv, InHand
  <2>4. FlagsInv'
    BY <2>1 DEF EncInv, FlagsInv
  <2>5. FileInv'
    BY <2>1, <2>2, <2>3 DEF EncInv, FileInv
  <2>6. QED
    BY <2>2, <2>3, <2>4, <2>5 DEF EncInv
<1>2. CASE Thread
  BY <1>2, AddEncoderKeeps, EncodeFrameKeeps, WritePageKeeps, DrainKeeps, TestDiskKeeps,
     WriteFileKeeps, EndThreadKeeps DEF Thread
<1>3. CASE Script
  BY <1>3, ScriptCallsKeep, DestructorKeeps DEF Script
<1>4. QED
  BY <1>1, <1>2, <1>3 DEF EncoderNext, WaitForRoom, Done

THEOREM EncoderInvariant == EncoderSpec => []EncInv
  BY InitKeeps, EncStep, PTL DEF EncoderSpec

\* Only a frame that nobody wanted makes the thread wait for ever for room, or
\* the destructor read past encbuf.
THEOREM OnlyUnwantedFramesHurt == EncoderSpec => []OnlyTheUnwantedGoesWrong
<1>1. EncInv => OnlyTheUnwantedGoesWrong
  <2> SUFFICES ASSUME EncInv, Stuck, ~undrained PROVE FALSE
    BY DEF OnlyTheUnwantedGoesWrong, EncInv, PagesInv
  <2>1. /\ loop = "flush" /\ pages # <<>> /\ Room < Head(pages) - made
        /\ pages \in Seq(1..MaxBytes)
        /\ \A k \in 1..Len(pages) : Held + pages[k] - made <= Size - 1
    BY DEF Stuck, PageBytes, EncInv, PagesInv
  <2>2. /\ Room = Size - 1 - Held /\ Held \in 0..Size - 1 /\ Size \in Nat /\ made \in Nat
    BY RingTypes, EncoderAssumption DEF EncInv, RingInv
  <2>3. 1 \in 1..Len(pages) /\ Head(pages) = pages[1]
    BY <2>1, EmptySeq, LenProperties, HeadTailProperties
  <2>4. pages[1] \in Nat
    <3>1. pages[1] \in 1..MaxBytes
      BY <2>1, <2>3, ElementOfSeq
    <3>2. QED
      BY <3>1
  <2>5. QED
    BY <2>1, <2>2, <2>3, <2>4
<1>2. QED
  BY <1>1, EncoderInvariant, PTL

\* What is recorded into a file is one run of the encoded bytes, of whole pages.
THEOREM FilesAreRuns == EncoderSpec => []FileIsOneRun
<1>1. EncInv => FileIsOneRun
  <2> SUFFICES ASSUME EncInv, ~closedUnderWrite, file # <<>>
               PROVE  /\ \A k \in DOMAIN file : file[k] = file[1] + k - 1
                      /\ file[1] - 1 \in pageEnds
                      /\ file[Len(file)] \in pageEnds
    BY DEF FileIsOneRun
  <2> DEFINE n   == Len(file)
             end == file[Len(file)]
  <2>1. /\ file \in Seq(Bytes) /\ RunTo(file, end) /\ {end, file[1] - 1} \subseteq pageEnds
    BY DEF EncInv, FileInv
  <2>2. n \in Nat /\ n # 0 /\ DOMAIN file = 1..n
    BY <2>1, EmptySeq, LenProperties
  <2>3. \A k \in 1..n : file[k] = end - n + k
    BY <2>1 DEF RunTo
  <2>4. file[1] = end - n + 1
    BY <2>2, <2>3
  <2>5. end \in Nat
    BY <2>1 DEF EncInv, FileInv
  <2> HIDE DEF n, end
  <2>6. \A k \in 1..n : end - n + k = (end - n + 1) + k - 1
    BY <2>2, <2>5
  <2>7. \A k \in DOMAIN file : file[k] = file[1] + k - 1
    BY <2>2, <2>3, <2>4, <2>6
  <2>8. QED
    BY <2>1, <2>7 DEF end
<1>2. QED
  BY <1>1, EncoderInvariant, PTL
=============================================================================
