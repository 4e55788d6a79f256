--------------------------- MODULE SoundRings_proofs ---------------------------
(***************************************************************************)
(* Proofs about the rings of the sound.  First about AudioMux, for rings   *)
(* of any size, any number of channels, any period and any packets: what   *)
(* Jack's thread uses is there, no sound of the movie is repeated,         *)
(* reordered or lost unseen, and no sample is torn.  Then about            *)
(* RingBufferSPSC, the inside of one such ring, for blocks of any size and *)
(* any numbers of bytes: as long as the other thread never sees a pointer  *)
(* between its `+=' and its `&=', two threads need no lock: they share one *)
(* queue, SharedFifo.  (That it may see it, and what follows, is a run     *)
(* that finds InOrder violated.)                                           *)
(***************************************************************************)
EXTENDS AudioMux, RingBufferSPSC, SequenceTheorems, TLAPS

-----------------------------------------------------------------------------
(* Numbers and bytes *)

\* The constants, one by one.
LEMMA ConstantsAreNumbers ==
  /\ Channels \in Nat \ {0} /\ SampleBytes \in Nat \ {0} /\ Period \in Nat \ {0}
  /\ EncodeFrames \in Nat \ {0}
  /\ ScreenBytes \in Nat \ {0} /\ FirstBytes \in Nat \ {0}
  /\ MixBytes \in Nat \ {0} /\ MixedBytes \in Nat \ {0}
  /\ Packets \subseteq Nat \ {0}
BY AudioAssumption

\* Division by a number that is not fixed: quotient and remainder, and how a
\* multiple of the divisor passes through both.
LEMMA Euclid ==
  ASSUME NEW d \in Nat \ {0}, NEW q \in Int, NEW x \in Int
  PROVE  /\ x % d \in 0 .. d - 1 /\ x \div d \in Int
         /\ x = (x \div d) * d + (x % d)
         /\ (q * d + x) % d = x % d /\ (q * d + x) \div d = q + x \div d
         /\ x >= 0 => x \div d >= 0
         /\ x \in 0 .. d - 1 => x % d = x /\ x \div d = 0
OBVIOUS

\* A later number has a later quotient, or the same and a later remainder.
LEMMA DivisionIsMonotone ==
  ASSUME NEW d \in Nat \ {0}, NEW x \in Int, NEW y \in Int, x <= y
  PROVE  /\ x \div d <= y \div d
         /\ x \div d = y \div d => x % d <= y % d
         /\ x < y /\ x \div d = y \div d => x % d < y % d
BY Euclid

\* A byte below n samples belongs to one of the first n.
LEMMA Below ==
  ASSUME NEW d \in Nat \ {0}, NEW n \in Int, NEW x \in Int, x < d * n
  PROVE  x \div d < n
<1>1. x \div d \in Int /\ x = (x \div d) * d + (x % d) /\ x % d >= 0
  BY Euclid
<1>2. SUFFICES ASSUME x \div d >= n PROVE FALSE
  BY <1>1
<1>3. (x \div d) * d >= n * d
  BY <1>1, <1>2
<1> QED BY <1>1, <1>3

\* Behind whole pieces of d, positions begin anew.
LEMMA Shifted ==
  ASSUME NEW d \in Nat \ {0}, NEW a \in Int, NEW x \in Int, a % d = 0
  PROVE  (a + x) % d = x % d /\ (a + x) \div d = a \div d + x \div d
<1>1. a = (a \div d) * d + (a % d) /\ a \div d \in Int
  BY Euclid
<1> DEFINE q == a \div d
<1>2. q \in Int /\ a + x = q * d + x
  BY <1>1
<1> HIDE DEF q
<1>3. (q * d + x) % d = x % d /\ (q * d + x) \div d = q + x \div d
  BY <1>2, Euclid
<1> QED BY <1>2, <1>3 DEF q

\* Behind whole frames, samples and channels begin anew.
LEMMA FrameShifted ==
  ASSUME NEW a \in Int, NEW x \in Int, a % Frame = 0
  PROVE  /\ a % SampleBytes = 0
         /\ ((a + x) \div SampleBytes) % Channels = (x \div SampleBytes) % Channels
<1>0. SampleBytes \in Nat \ {0} /\ Channels \in Nat \ {0} /\ Frame \in Nat \ {0}
  BY ConstantsAreNumbers DEF Frame
<1> DEFINE q == a \div Frame
           p == q * Channels
           y == x \div SampleBytes
<1>1. q \in Int /\ a = q * Frame + 0
  BY <1>0, Euclid
<1> HIDE DEF q
<1>2. p \in Int /\ a = p * SampleBytes + 0 /\ p % Channels = 0
  <2>1. p \in Int /\ a = p * SampleBytes
    BY <1>0, <1>1 DEF Frame
  <2>2. 0 \in 0 .. Channels - 1 /\ p = q * Channels + 0
    BY <1>0, <1>1
  <2> QED BY <2>1, <2>2, <1>0, <1>1, Euclid
<1> HIDE DEF p
<1>3. (p * SampleBytes + x) \div SampleBytes = p + y /\ y \in Int
  BY <1>0, <1>2, Euclid
<1>4. a % SampleBytes = 0
  <2>1. 0 \in 0 .. SampleBytes - 1
    BY <1>0
  <2> QED BY <2>1, <1>0, <1>2, Euclid
<1> HIDE DEF y
<1>5. (a + x) \div SampleBytes = p + y
  <2>1. a + x = p * SampleBytes + x
    BY <1>0, <1>2
  <2> QED BY <2>1, <1>3
<1>6. (p + y) % Channels = y % Channels
  BY <1>0, <1>2, <1>3, Shifted
<1> QED BY <1>4, <1>5, <1>6 DEF y

\* A byte: its sample of the movie, its sample of the input, its place in a sample.
Byte == [m : Nat, f : Nat, b : Nat]

\* The first n bytes of a ring, and the rest.
LEMMA Split ==
  ASSUME NEW s \in Seq(Byte), NEW n \in 0 .. Len(s)
  PROVE  /\ SubSeq(s, 1, n) \in Seq(Byte) /\ Len(SubSeq(s, 1, n)) = n
         /\ \A k \in 1 .. n : SubSeq(s, 1, n)[k] = s[k]
         /\ Tail_(s, n) \in Seq(Byte) /\ Len(Tail_(s, n)) = Len(s) - n
         /\ \A k \in 1 .. Len(s) - n : Tail_(s, n)[k] = s[n + k]
<1>1. \A i \in 1 .. n : s[i] \in Byte
  BY ElementOfSeq
<1>2. \A i \in n + 1 .. Len(s) : s[i] \in Byte
  BY ElementOfSeq
<1>3. /\ SubSeq(s, 1, n) \in Seq(Byte) /\ Len(SubSeq(s, 1, n)) = n
      /\ \A k \in 1 .. n : SubSeq(s, 1, n)[k] = s[k]
  BY <1>1, SubSeqProperties
<1>4. /\ Tail_(s, n) \in Seq(Byte) /\ Len(Tail_(s, n)) = Len(s) - n
      /\ \A k \in 1 .. Len(s) - n : Tail_(s, n)[k] = s[n + k]
  BY <1>2, SubSeqProperties DEF Tail_
<1> QED BY <1>3, <1>4

\* What stands where when a ring is appended to.
LEMMA Joined ==
  ASSUME NEW s \in Seq(Byte), NEW t \in Seq(Byte)
  PROVE  /\ s \o t \in Seq(Byte) /\ Len(s \o t) = Len(s) + Len(t)
         /\ \A k \in 1 .. Len(s) : (s \o t)[k] = s[k]
         /\ \A k \in 1 .. Len(t) : (s \o t)[Len(s) + k] = t[k]
BY ConcatProperties

\* The two parts are the whole.
LEMMA SplitJoins ==
  ASSUME NEW s \in Seq(Byte), NEW n \in 0 .. Len(s)
  PROVE  s = SubSeq(s, 1, n) \o Tail_(s, n)
<1> DEFINE h == SubSeq(s, 1, n)
           t == Tail_(s, n)
<1>0. Len(s) \in Nat
  BY LenProperties
<1>1. /\ h \in Seq(Byte) /\ Len(h) = n /\ \A k \in 1 .. n : h[k] = s[k]
      /\ t \in Seq(Byte) /\ Len(t) = Len(s) - n /\ \A k \in 1 .. Len(s) - n : t[k] = s[n + k]
  BY Split
<1> HIDE DEF h, t
<1>2. h \o t \in Seq(Byte) /\ Len(h \o t) = Len(s)
  <2>1. h \o t \in Seq(Byte) /\ Len(h \o t) = Len(h) + Len(t)
    BY <1>1, Joined
  <2> QED BY <2>1, <1>0, <1>1
<1>3. ASSUME NEW i \in 1 .. Len(s) PROVE s[i] = (h \o t)[i]
  <2>1. CASE i <= n
    BY <2>1, <1>1, Joined
  <2>2. CASE i > n
    <3>1. i - n \in 1 .. Len(t) /\ i = Len(h) + (i - n)
      BY <2>2, <1>0, <1>1
    <3>2. (h \o t)[Len(h) + (i - n)] = t[i - n]
      BY <3>1, <1>1, Joined
    <3> QED BY <3>1, <3>2, <1>1
  <2>3. i <= n \/ i > n
    <3>1. i \in Int /\ n \in Int
      BY <1>0
    <3> QED BY <3>1
  <2> QED BY <2>1, <2>2, <2>3, Zenon
<1>4. s = h \o t
  BY <1>2, <1>3, SeqEqual
<1> QED BY <1>4 DEF h, t

-----------------------------------------------------------------------------
(* The movie's order *)

\* The bytes of the movie that a ring holds, by their places in it.
LEMMA OfMembers ==
  ASSUME NEW s \in Seq(Byte), NEW p
  PROVE  p \in Of(s) <=> \E k \in 1 .. Len(s) : s[k].m > 0 /\ p = <<s[k].m, s[k].b>>
<1>1. DOMAIN s = 1 .. Len(s)
  OBVIOUS
<1>2. ToSet(s) = {s[k] : k \in 1 .. Len(s)}
  BY <1>1, Zenon DEF ToSet
<1> QED BY <1>2, Zenon DEF Of

\* Two rings hold what their concatenation holds.
LEMMA OfJoined ==
  ASSUME NEW s \in Seq(Byte), NEW t \in Seq(Byte)
  PROVE  Of(s \o t) = Of(s) \cup Of(t)
<1>0. Len(s) \in Nat /\ Len(t) \in Nat
  BY LenProperties
<1>1. ASSUME NEW p \in Of(s) PROVE p \in Of(s \o t)
  <2>1. PICK k \in 1 .. Len(s) : s[k].m > 0 /\ p = <<s[k].m, s[k].b>>
    BY <1>1, OfMembers, Zenon
  <2>2. k \in 1 .. Len(s \o t) /\ (s \o t)[k] = s[k]
    BY <1>0, Joined
  <2> QED BY <2>1, <2>2, Joined, OfMembers, Zenon
<1>2. ASSUME NEW p \in Of(t) PROVE p \in Of(s \o t)
  <2>1. PICK k \in 1 .. Len(t) : t[k].m > 0 /\ p = <<t[k].m, t[k].b>>
    BY <1>2, OfMembers, Zenon
  <2>2. Len(s) + k \in 1 .. Len(s \o t) /\ (s \o t)[Len(s) + k] = t[k]
    BY <1>0, Joined
  <2> QED BY <2>1, <2>2, Joined, OfMembers, Zenon
<1>3. ASSUME NEW p \in Of(s \o t) PROVE p \in Of(s) \cup Of(t)
  <2>1. PICK k \in 1 .. Len(s \o t) : (s \o t)[k].m > 0 /\ p = <<(s \o t)[k].m, (s \o t)[k].b>>
    <3> s \o t \in Seq(Byte)
      BY Joined
    <3> QED BY <1>3, OfMembers, Zenon
  <2>2. CASE k <= Len(s)
    <3>1. k \in 1 .. Len(s) /\ (s \o t)[k] = s[k]
      BY <2>2, <1>0, Joined
    <3> QED BY <2>1, <3>1, OfMembers, Zenon
  <2>3. CASE k > Len(s)
    <3>1. k - Len(s) \in 1 .. Len(t) /\ (s \o t)[k] = t[k - Len(s)]
      BY <2>3, <1>0, Joined
    <3> QED BY <2>1, <3>1, OfMembers, Zenon
  <2> QED BY <2>2, <2>3, <1>0, Joined
<1> QED BY <1>1, <1>2, <1>3

\* Each of X comes before each of Y in the movie.
AllEarlier(X, Y) ==
  \A x \in X, y \in Y : x[1] < y[1] \/ (x[1] = y[1] /\ x[2] < y[2])

\* Fewer bytes are no less in order,
LEMMA EarlierShrinks ==
  ASSUME NEW X, NEW Y, NEW X2 \in SUBSET X, NEW Y2 \in SUBSET Y, AllEarlier(X, Y)
  PROVE  AllEarlier(X2, Y2)
BY DEF AllEarlier

\* unions are in order part by part,
LEMMA EarlierUnions ==
  ASSUME NEW X, NEW Y, NEW Z
  PROVE  /\ AllEarlier(X, Y \cup Z) <=> AllEarlier(X, Y) /\ AllEarlier(X, Z)
         /\ AllEarlier(X \cup Y, Z) <=> AllEarlier(X, Z) /\ AllEarlier(Y, Z)
         /\ AllEarlier(X, {}) /\ AllEarlier({}, X)
BY Zenon DEF AllEarlier

\* and what is earlier is something else: nothing is in two rings.
LEMMA EarlierIsApart ==
  ASSUME NEW X \in SUBSET (Nat \X Nat), NEW Y, AllEarlier(X, Y)
  PROVE  X \cap Y = {}
BY DEF AllEarlier

\* Two rings are in the order of the movie together when each is, and all of the
\* one is earlier than all of the other.
LEMMA OrderJoined ==
  ASSUME NEW s \in Seq(Byte), NEW t \in Seq(Byte)
  PROVE  InMoviesOrder(s \o t)
           <=> InMoviesOrder(s) /\ InMoviesOrder(t) /\ AllEarlier(Of(s), Of(t))
<1> DEFINE Before(x, y) == x.m < y.m \/ (x.m = y.m /\ x.b < y.b)
<1>0. /\ DOMAIN s = 1 .. Len(s) /\ DOMAIN t = 1 .. Len(t)
      /\ DOMAIN (s \o t) = 1 .. Len(s) + Len(t) /\ Len(s) \in Nat /\ Len(t) \in Nat
  BY Joined, LenProperties
<1>1. ASSUME InMoviesOrder(s \o t)
      PROVE  InMoviesOrder(s) /\ InMoviesOrder(t) /\ AllEarlier(Of(s), Of(t))
  <2>1. InMoviesOrder(s)
    <3> SUFFICES ASSUME NEW i \in 1 .. Len(s), NEW j \in 1 .. Len(s), i < j, s[i].m > 0, s[j].m > 0
                 PROVE  Before(s[i], s[j])
      BY <1>0 DEF InMoviesOrder
    <3>1. /\ i \in 1 .. Len(s) + Len(t) /\ j \in 1 .. Len(s) + Len(t)
          /\ (s \o t)[i] = s[i] /\ (s \o t)[j] = s[j]
      BY <1>0, Joined
    <3> QED BY <3>1, <1>1, <1>0 DEF InMoviesOrder
  <2>2. InMoviesOrder(t)
    <3> SUFFICES ASSUME NEW i \in 1 .. Len(t), NEW j \in 1 .. Len(t), i < j, t[i].m > 0, t[j].m > 0
                 PROVE  Before(t[i], t[j])
      BY <1>0 DEF InMoviesOrder
    <3>1. /\ Len(s) + i \in 1 .. Len(s) + Len(t) /\ Len(s) + j \in 1 .. Len(s) + Len(t)
          /\ (s \o t)[Len(s) + i] = t[i] /\ (s \o t)[Len(s) + j] = t[j] /\ Len(s) + i < Len(s) + j
      BY <1>0, Joined
    <3> QED BY <3>1, <1>1, <1>0 DEF InMoviesOrder
  <2>3. ASSUME NEW i \in 1 .. Len(s), NEW j \in 1 .. Len(t), s[i].m > 0, t[j].m > 0
        PROVE  Before(s[i], t[j])
    <3>1. /\ i \in 1 .. Len(s) + Len(t) /\ Len(s) + j \in 1 .. Len(s) + Len(t)
          /\ (s \o t)[i] = s[i] /\ (s \o t)[Len(s) + j] = t[j] /\ i < Len(s) + j
      BY <1>0, Joined
    <3>2. (s \o t)[i].m > 0 /\ (s \o t)[Len(s) + j].m > 0
      BY <2>3, <3>1
    <3>3. Before((s \o t)[i], (s \o t)[Len(s) + j])
      BY <3>1, <3>2, <1>1, <1>0, Zenon DEF InMoviesOrder
    <3> QED BY <3>1, <3>3
  <2>4. AllEarlier(Of(s), Of(t))
    BY <2>3, OfMembers DEF AllEarlier
  <2> QED BY <2>1, <2>2, <2>4
<1>2. ASSUME InMoviesOrder(s), InMoviesOrder(t), AllEarlier(Of(s), Of(t))
      PROVE  InMoviesOrder(s \o t)
  <2> SUFFICES ASSUME NEW i \in 1 .. Len(s) + Len(t), NEW j \in 1 .. Len(s) + Len(t), i < j,
                      (s \o t)[i].m > 0, (s \o t)[j].m > 0
               PROVE  Before((s \o t)[i], (s \o t)[j])
    BY <1>0 DEF InMoviesOrder
  <2>1. CASE j <= Len(s)
    <3>1. /\ i \in 1 .. Len(s) /\ j \in 1 .. Len(s)
          /\ (s \o t)[i] = s[i] /\ (s \o t)[j] = s[j]
      BY <2>1, <1>0, Joined
    <3> QED BY <3>1, <1>0, <1>2 DEF InMoviesOrder
  <2>2. CASE i > Len(s)
    <3>1. /\ i - Len(s) \in 1 .. Len(t) /\ j - Len(s) \in 1 .. Len(t) /\ i - Len(s) < j - Len(s)
          /\ (s \o t)[i] = t[i - Len(s)] /\ (s \o t)[j] = t[j - Len(s)]
      BY <2>2, <1>0, Joined
    <3> QED BY <3>1, <1>0, <1>2 DEF InMoviesOrder
  <2>3. CASE i <= Len(s) /\ j > Len(s)
    <3>1. /\ i \in 1 .. Len(s) /\ j - Len(s) \in 1 .. Len(t)
          /\ (s \o t)[i] = s[i] /\ (s \o t)[j] = t[j - Len(s)]
      BY <2>3, <1>0, Joined
    <3>2. <<s[i].m, s[i].b>> \in Of(s) /\ <<t[j - Len(s)].m, t[j - Len(s)].b>> \in Of(t)
      BY <3>1, OfMembers
    <3> QED BY <3>1, <3>2, <1>2 DEF AllEarlier
  <2> QED BY <2>1, <2>2, <2>3, <1>0
<1> QED BY <1>1, <1>2

-----------------------------------------------------------------------------
(* The inputs' order *)

\* The samples of the input that bytes were mixed with.
Inputs(s) == {s[k].f : k \in 1 .. Len(s)} \ {0}

\* None of X is later than any of Y (a sample of the input may be in several bytes).
NoneLater(X, Y) == \A x \in X, y \in Y : x <= y

\* Part by part, for unions,
LEMMA NoneLaterUnions ==
  ASSUME NEW X, NEW Y, NEW Z
  PROVE  /\ NoneLater(X, Y \cup Z) <=> NoneLater(X, Y) /\ NoneLater(X, Z)
         /\ NoneLater(X \cup Y, Z) <=> NoneLater(X, Z) /\ NoneLater(Y, Z)
         /\ NoneLater(X, {}) /\ NoneLater({}, X)
BY Zenon DEF NoneLater

\* and for parts of both.
LEMMA NoneLaterShrinks ==
  ASSUME NEW X, NEW Y, NEW X2 \in SUBSET X, NEW Y2 \in SUBSET Y, NoneLater(X, Y)
  PROVE  NoneLater(X2, Y2)
BY DEF NoneLater

\* The inputs of bytes are numbers,
LEMMA InputsAreNumbers ==
  ASSUME NEW s \in Seq(Byte)
  PROVE  Inputs(s) \subseteq Nat
<1>1. ASSUME NEW k \in 1 .. Len(s) PROVE s[k].f \in Nat
  <2>1. s[k] \in Byte
    BY ElementOfSeq
  <2> QED BY <2>1 DEF Byte
<1> QED BY <1>1, Zenon DEF Inputs

\* so that what comes after a bound comes after all that it bounds.
LEMMA LaterStill ==
  ASSUME NEW X \in SUBSET Nat, NEW a \in Nat, NoneLater(X, {a}),
         NEW Y, \A y \in Y : y \in Nat /\ a <= y
  PROVE  NoneLater(X, Y)
<1> SUFFICES ASSUME NEW x \in X, NEW y \in Y PROVE x <= y
  BY DEF NoneLater
<1>1. x \in Nat /\ x <= a /\ y \in Nat /\ a <= y
  BY DEF NoneLater
<1> QED BY <1>1

\* As OrderJoined, for the input.
LEMMA InputsJoined ==
  ASSUME NEW s \in Seq(Byte), NEW t \in Seq(Byte)
  PROVE  /\ Inputs(s \o t) = Inputs(s) \cup Inputs(t)
         /\ InInputsOrder(s \o t)
              <=> InInputsOrder(s) /\ InInputsOrder(t) /\ NoneLater(Inputs(s), Inputs(t))
<1>0. /\ DOMAIN s = 1 .. Len(s) /\ DOMAIN t = 1 .. Len(t)
      /\ DOMAIN (s \o t) = 1 .. Len(s) + Len(t) /\ Len(s) \in Nat /\ Len(t) \in Nat
      /\ Len(s \o t) = Len(s) + Len(t)
      /\ \A k \in 1 .. Len(s) : s[k].f \in Nat
      /\ \A k \in 1 .. Len(t) : t[k].f \in Nat
  <2>1. /\ \A k \in 1 .. Len(s) : s[k] \in Byte
        /\ \A k \in 1 .. Len(t) : t[k] \in Byte
    BY ElementOfSeq
  <2> QED BY <2>1, Joined, LenProperties DEF Byte
<1>1. \A k \in 1 .. Len(s) : k \in 1 .. Len(s) + Len(t) /\ (s \o t)[k] = s[k]
  BY <1>0, Joined
<1>2. \A k \in 1 .. Len(t) : Len(s) + k \in 1 .. Len(s) + Len(t) /\ (s \o t)[Len(s) + k] = t[k]
  BY <1>0, Joined
<1>3. ASSUME NEW k \in 1 .. Len(s) + Len(t)
      PROVE  \/ k \in 1 .. Len(s) /\ (s \o t)[k] = s[k]
             \/ k > Len(s) /\ k - Len(s) \in 1 .. Len(t) /\ (s \o t)[k] = t[k - Len(s)]
  <2>1. \/ k \in 1 .. Len(s)
        \/ k > Len(s) /\ k - Len(s) \in 1 .. Len(t) /\ k = Len(s) + (k - Len(s))
    BY <1>0
  <2> QED BY <2>1, <1>1, <1>2
<1> DEFINE j == s \o t
<1>4. /\ \A k \in 1 .. Len(s) : k \in 1 .. Len(s) + Len(t) /\ j[k] = s[k]
      /\ \A k \in 1 .. Len(t) : Len(s) + k \in 1 .. Len(s) + Len(t) /\ j[Len(s) + k] = t[k]
      /\ \A k \in 1 .. Len(s) + Len(t) :
           \/ k \in 1 .. Len(s) /\ j[k] = s[k]
           \/ k > Len(s) /\ k - Len(s) \in 1 .. Len(t) /\ j[k] = t[k - Len(s)]
      /\ Len(j) = Len(s) + Len(t) /\ DOMAIN j = 1 .. Len(s) + Len(t)
  BY <1>0, <1>1, <1>2, <1>3
<1> HIDE DEF j
<1>5. Inputs(j) = Inputs(s) \cup Inputs(t)
  <2>1. ASSUME NEW k \in 1 .. Len(s), s[k].f # 0 PROVE s[k].f \in Inputs(j)
    BY <2>1, <1>4, Zenon DEF Inputs
  <2>2. ASSUME NEW k \in 1 .. Len(t), t[k].f # 0 PROVE t[k].f \in Inputs(j)
    BY <2>2, <1>4, Zenon DEF Inputs
  <2>3. ASSUME NEW k \in 1 .. Len(j), j[k].f # 0 PROVE j[k].f \in Inputs(s) \cup Inputs(t)
    <3>1. \/ k \in 1 .. Len(s) /\ j[k] = s[k]
          \/ k - Len(s) \in 1 .. Len(t) /\ j[k] = t[k - Len(s)]
      BY <1>4
    <3> QED BY <2>3, <3>1, Zenon DEF Inputs
  <2>4. Inputs(s) \subseteq Inputs(j) /\ Inputs(t) \subseteq Inputs(j)
    BY <2>1, <2>2, Zenon DEF Inputs
  <2>5. Inputs(j) \subseteq Inputs(s) \cup Inputs(t)
    BY <2>3, Zenon DEF Inputs
  <2> QED BY <2>4, <2>5
<1>6. ASSUME InInputsOrder(j)
      PROVE  InInputsOrder(s) /\ InInputsOrder(t) /\ NoneLater(Inputs(s), Inputs(t))
  <2>1. InInputsOrder(s)
    BY <1>0, <1>4, <1>6 DEF InInputsOrder
  <2>2. InInputsOrder(t)
    <3> SUFFICES ASSUME NEW a \in 1 .. Len(t), NEW b \in 1 .. Len(t), a < b, t[a].f > 0, t[b].f > 0
                 PROVE  t[a].f <= t[b].f
      BY <1>0 DEF InInputsOrder
    <3>1. /\ Len(s) + a \in 1 .. Len(s) + Len(t) /\ Len(s) + b \in 1 .. Len(s) + Len(t)
          /\ j[Len(s) + a] = t[a] /\ j[Len(s) + b] = t[b] /\ Len(s) + a < Len(s) + b
      BY <1>0, <1>4
    <3>2. j[Len(s) + a].f > 0 /\ j[Len(s) + b].f > 0
      BY <3>1
    <3>3. j[Len(s) + a].f <= j[Len(s) + b].f
      BY <3>1, <3>2, <1>6, <1>4, Zenon DEF InInputsOrder
    <3> QED BY <3>1, <3>3
  <2>3. ASSUME NEW a \in 1 .. Len(s), NEW b \in 1 .. Len(t), s[a].f # 0, t[b].f # 0
        PROVE  s[a].f <= t[b].f
    <3>1. /\ a \in 1 .. Len(s) + Len(t) /\ Len(s) + b \in 1 .. Len(s) + Len(t)
          /\ j[a] = s[a] /\ j[Len(s) + b] = t[b] /\ a < Len(s) + b
      BY <1>0, <1>4
    <3>2. j[a].f > 0 /\ j[Len(s) + b].f > 0
      BY <1>0, <2>3, <3>1
    <3>3. j[a].f <= j[Len(s) + b].f
      BY <3>1, <3>2, <1>6, <1>4, Zenon DEF InInputsOrder
    <3> QED BY <3>1, <3>3
  <2>4. NoneLater(Inputs(s), Inputs(t))
    BY <2>3 DEF NoneLater, Inputs
  <2> QED BY <2>1, <2>2, <2>4
<1>7. ASSUME InInputsOrder(s), InInputsOrder(t), NoneLater(Inputs(s), Inputs(t))
      PROVE  InInputsOrder(j)
  <2> SUFFICES ASSUME NEW a \in 1 .. Len(s) + Len(t), NEW b \in 1 .. Len(s) + Len(t), a < b,
                      j[a].f > 0, j[b].f > 0
               PROVE  j[a].f <= j[b].f
    BY <1>4 DEF InInputsOrder
  <2>1. CASE a \in 1 .. Len(s) /\ j[a] = s[a] /\ b \in 1 .. Len(s) /\ j[b] = s[b]
    BY <2>1, <1>0, <1>7 DEF InInputsOrder
  <2>2. CASE /\ a > Len(s) /\ a - Len(s) \in 1 .. Len(t) /\ j[a] = t[a - Len(s)]
             /\ b > Len(s) /\ b - Len(s) \in 1 .. Len(t) /\ j[b] = t[b - Len(s)]
    <3>1. a - Len(s) < b - Len(s)
      BY <1>0
    <3> QED BY <2>2, <3>1, <1>0, <1>7 DEF InInputsOrder
  <2>3. CASE /\ a \in 1 .. Len(s) /\ j[a] = s[a]
             /\ b > Len(s) /\ b - Len(s) \in 1 .. Len(t) /\ j[b] = t[b - Len(s)]
    <3>1. s[a].f \in Inputs(s) /\ t[b - Len(s)].f \in Inputs(t)
      <4>1. s[a].f # 0 /\ t[b - Len(s)].f # 0 /\ b - Len(s) \in 1 .. Len(t)
        BY <2>3, <1>0
      <4> QED BY <2>3, <4>1, <1>0, Zenon DEF Inputs
    <3> QED BY <2>3, <3>1, <1>7 DEF NoneLater
  <2> QED BY <2>1, <2>2, <2>3, <1>4, <1>0
<1> QED BY <1>5, <1>6, <1>7 DEF j

\* A ring that is empty.
LEMMA EmptyBytes ==
  /\ <<>> \in Seq(Byte) /\ Len(<<>>) = 0 /\ Of(<<>>) = {} /\ Inputs(<<>>) = {}
  /\ InMoviesOrder(<<>>) /\ InInputsOrder(<<>>)
<1>1. <<>> \in Seq(Byte) /\ Len(<<>>) = 0
  BY EmptySeq
<1>2. ASSUME NEW p \in Of(<<>>) PROVE FALSE
  <2>1. PICK k \in 1 .. Len(<<>>) : <<>>[k].m > 0
    BY <1>1, <1>2, OfMembers, Zenon
  <2> QED BY <2>1, <1>1
<1> QED BY <1>1, <1>2 DEF Inputs, InMoviesOrder, InInputsOrder

-----------------------------------------------------------------------------
(* What the operators of the model return *)

\* The bytes of n samples of the movie,
LEMMA MovieValues ==
  ASSUME NEW from \in Nat \ {0}, NEW n \in Nat
  PROVE  /\ Movie(from, from + n - 1) \in Seq(Byte)
         /\ Len(Movie(from, from + n - 1)) = SampleBytes * n
         /\ \A k \in 1 .. SampleBytes * n :
              /\ Movie(from, from + n - 1)[k].m = from + (k - 1) \div SampleBytes
              /\ Movie(from, from + n - 1)[k].b = (k - 1) % SampleBytes
              /\ (k - 1) \div SampleBytes \in 0 .. n - 1
              /\ (k - 1) % SampleBytes \in 0 .. SampleBytes - 1
<1> DEFINE data == Movie(from, from + n - 1)
<1>0. SampleBytes \in Nat \ {0} /\ SampleBytes * n \in Nat /\ from + n - 1 - from + 1 = n
  BY ConstantsAreNumbers
<1>1. data = [k \in 1 .. SampleBytes * n |->
               [m |-> from + (k - 1) \div SampleBytes, f |-> 0, b |-> (k - 1) % SampleBytes]]
  BY <1>0 DEF Movie
<1>2. ASSUME NEW k \in 1 .. SampleBytes * n
      PROVE  /\ (k - 1) \div SampleBytes \in 0 .. n - 1
             /\ (k - 1) % SampleBytes \in 0 .. SampleBytes - 1
  <2>1. k - 1 \in Int /\ k - 1 >= 0 /\ k - 1 < SampleBytes * n
    BY <1>0
  <2> QED BY <2>1, <1>0, Euclid, Below
<1>3. ASSUME NEW k \in 1 .. SampleBytes * n
      PROVE  [m |-> from + (k - 1) \div SampleBytes, f |-> 0, b |-> (k - 1) % SampleBytes] \in Byte
  BY <1>2, <1>0 DEF Byte
<1>4. data \in Seq(Byte) /\ Len(data) = SampleBytes * n
  <2>1. data \in [1 .. SampleBytes * n -> Byte]
    BY <1>1, <1>3, Zenon
  <2> HIDE DEF data
  <2> QED BY <2>1, <1>0
<1> QED BY <1>1, <1>2, <1>4

\* which are in order, and are all of these samples.
LEMMA MovieInOrder ==
  ASSUME NEW from \in Nat \ {0}, NEW n \in Nat
  PROVE  /\ InMoviesOrder(Movie(from, from + n - 1))
         /\ Of(Movie(from, from + n - 1)) = (from .. from + n - 1) \X (0 .. SampleBytes - 1)
<1> DEFINE data == Movie(from, from + n - 1)
<1>0. SampleBytes \in Nat \ {0} /\ SampleBytes * n \in Nat
  BY ConstantsAreNumbers
<1>1. /\ data \in Seq(Byte) /\ Len(data) = SampleBytes * n /\ DOMAIN data = 1 .. SampleBytes * n
      /\ \A k \in 1 .. SampleBytes * n :
           /\ data[k].m = from + (k - 1) \div SampleBytes
           /\ data[k].b = (k - 1) % SampleBytes
           /\ (k - 1) \div SampleBytes \in 0 .. n - 1
           /\ (k - 1) % SampleBytes \in 0 .. SampleBytes - 1
  BY MovieValues, LenProperties
<1> HIDE DEF data
<1>2. InMoviesOrder(data)
  <2> SUFFICES ASSUME NEW i \in 1 .. SampleBytes * n, NEW j \in 1 .. SampleBytes * n, i < j
               PROVE  \/ data[i].m < data[j].m
                      \/ data[i].m = data[j].m /\ data[i].b < data[j].b
    BY <1>1 DEF InMoviesOrder
  <2>1. i - 1 \in Int /\ j - 1 \in Int /\ i - 1 < j - 1
    OBVIOUS
  <2>2. /\ (i - 1) \div SampleBytes <= (j - 1) \div SampleBytes
        /\ (i - 1) \div SampleBytes = (j - 1) \div SampleBytes
             => (i - 1) % SampleBytes < (j - 1) % SampleBytes
    BY <2>1, <1>0, DivisionIsMonotone
  <2>3. /\ data[i].m = from + (i - 1) \div SampleBytes /\ data[i].b = (i - 1) % SampleBytes
        /\ data[j].m = from + (j - 1) \div SampleBytes /\ data[j].b = (j - 1) % SampleBytes
        /\ (i - 1) \div SampleBytes \in Int /\ (j - 1) \div SampleBytes \in Int
    BY <1>1
  <2> DEFINE qi == (i - 1) \div SampleBytes
             qj == (j - 1) \div SampleBytes
             ri == (i - 1) % SampleBytes
             rj == (j - 1) % SampleBytes
  <2>4. /\ qi <= qj /\ (qi = qj => ri < rj) /\ qi \in Int /\ qj \in Int
        /\ data[i].m = from + qi /\ data[i].b = ri /\ data[j].m = from + qj /\ data[j].b = rj
    BY <2>2, <2>3, Zenon
  <2> HIDE DEF qi, qj, ri, rj
  <2> QED BY <2>4
<1>3. ASSUME NEW p \in Of(data) PROVE p \in (from .. from + n - 1) \X (0 .. SampleBytes - 1)
  <2>1. PICK k \in 1 .. SampleBytes * n : p = <<data[k].m, data[k].b>>
    <3>1. data \in Seq(Byte) /\ Len(data) = SampleBytes * n
      BY <1>1
    <3>2. \E k \in 1 .. Len(data) : data[k].m > 0 /\ p = <<data[k].m, data[k].b>>
      BY <1>3, <3>1, OfMembers, Zenon
    <3> QED BY <3>1, <3>2, Zenon
  <2>2. data[k].m \in from .. from + n - 1 /\ data[k].b \in 0 .. SampleBytes - 1
    BY <1>1
  <2> QED BY <2>1, <2>2
<1>4. ASSUME NEW x \in from .. from + n - 1, NEW y \in 0 .. SampleBytes - 1
      PROVE  <<x, y>> \in Of(data)
  <2> DEFINE q == x - from
             k == q * SampleBytes + y + 1
  <2>1. q \in 0 .. n - 1 /\ q * SampleBytes \in Nat
    BY <1>0
  <2>2. q * SampleBytes + SampleBytes <= SampleBytes * n
    <3>1. n - 1 - q \in Nat /\ (n - 1 - q) * SampleBytes \in Nat
      BY <2>1, <1>0
    <3>2. (n - 1 - q) * SampleBytes = SampleBytes * n - SampleBytes - q * SampleBytes
      BY <2>1, <1>0
    <3> QED BY <3>1, <3>2, <2>1, <1>0
  <2>3. k \in 1 .. SampleBytes * n /\ k - 1 = q * SampleBytes + y
    BY <2>1, <2>2, <1>0
  <2>4. (k - 1) % SampleBytes = y /\ (k - 1) \div SampleBytes = q
    BY <2>1, <2>3, <1>0, Euclid
  <2>5. data[k].m = x /\ data[k].b = y /\ x > 0
    BY <2>3, <2>4, <1>1
  <2> HIDE DEF k, q
  <2> QED BY <2>3, <2>5, <1>1, OfMembers, Zenon
<1>5. Of(data) = (from .. from + n - 1) \X (0 .. SampleBytes - 1)
  BY <1>3, <1>4
<1> QED BY <1>2, <1>5 DEF data

\* One period of the input: later than all periods before it.
LEMMA InputValues ==
  ASSUME NEW n \in Nat \ {0}
  PROVE  /\ Input(n) \in Seq(Byte) /\ Len(Input(n)) = SampleBytes * Period
         /\ InInputsOrder(Input(n))
         /\ \A x \in Inputs(Input(n)) : x \in Nat /\ (n - 1) * Period < x /\ x <= n * Period
<1> DEFINE data == Input(n)
           base == (n - 1) * Period
<1>0. /\ SampleBytes \in Nat \ {0} /\ SampleBytes * Period \in Nat /\ Period \in Nat \ {0}
      /\ base \in Nat /\ n * Period = base + Period
  BY ConstantsAreNumbers
<1>1. data = [k \in 1 .. SampleBytes * Period |->
               [m |-> 0, f |-> base + 1 + (k - 1) \div SampleBytes, b |-> (k - 1) % SampleBytes]]
  BY DEF Input
<1> HIDE DEF base
<1>2. ASSUME NEW k \in 1 .. SampleBytes * Period
      PROVE  /\ (k - 1) \div SampleBytes \in 0 .. Period - 1
             /\ (k - 1) % SampleBytes \in 0 .. SampleBytes - 1
  <2>1. k - 1 \in Int /\ k - 1 >= 0 /\ k - 1 < SampleBytes * Period
    BY <1>0
  <2> QED BY <2>1, <1>0, Euclid, Below
<1>3. ASSUME NEW k \in 1 .. SampleBytes * Period
      PROVE  [m |-> 0, f |-> base + 1 + (k - 1) \div SampleBytes, b |-> (k - 1) % SampleBytes] \in Byte
  BY <1>2, <1>0 DEF Byte
<1>4. /\ data \in Seq(Byte) /\ Len(data) = SampleBytes * Period
      /\ DOMAIN data = 1 .. SampleBytes * Period
  <2>1. data \in [1 .. SampleBytes * Period -> Byte]
    BY <1>1, <1>3, Zenon
  <2> HIDE DEF data
  <2> QED BY <2>1, <1>0
<1>5. \A k \in 1 .. SampleBytes * Period : data[k].f = base + 1 + (k - 1) \div SampleBytes
  BY <1>1
<1> HIDE DEF data
<1>6. InInputsOrder(data)
  <2> SUFFICES ASSUME NEW i \in 1 .. SampleBytes * Period,
                      NEW j \in 1 .. SampleBytes * Period, i < j
               PROVE  data[i].f <= data[j].f
    BY <1>4 DEF InInputsOrder
  <2>1. i - 1 \in Int /\ j - 1 \in Int /\ i - 1 <= j - 1
    OBVIOUS
  <2>2. (i - 1) \div SampleBytes <= (j - 1) \div SampleBytes
    BY <2>1, <1>0, DivisionIsMonotone
  <2>3. (i - 1) \div SampleBytes \in Int /\ (j - 1) \div SampleBytes \in Int
    BY <1>2
  <2> QED BY <2>2, <2>3, <1>5, <1>0
<1>7. ASSUME NEW x \in Inputs(data)
      PROVE  x \in Nat /\ base < x /\ x <= n * Period
  <2>1. PICK k \in 1 .. SampleBytes * Period : x = data[k].f
    BY <1>4 DEF Inputs
  <2> QED BY <2>1, <1>2, <1>5, <1>0
<1> QED BY <1>4, <1>6, <1>7 DEF data, base

\* What Mux mixes in is an input that it has read, or nothing,
LEMMA InputAtValues ==
  ASSUME encoder.input \in Seq(Byte), NEW i \in Nat
  PROVE  /\ InputAt(i) \in Nat
         /\ InputAt(i) # 0 => InputAt(i) \in Inputs(encoder.input)
<1> DEFINE k == IF encoder.channels > 1 THEN i \div 2 ELSE i
<1>1. k \in Nat
  OBVIOUS
<1> HIDE DEF k
<1>2. SampleBytes \in Nat \ {0} /\ k * SampleBytes \in Nat /\ Len(encoder.input) \in Nat
  BY <1>1, ConstantsAreNumbers, LenProperties
<1>3. InputAt(i) = IF k * SampleBytes < Len(encoder.input)
                   THEN encoder.input[k * SampleBytes + 1].f ELSE 0
  BY Zenon DEF InputAt, k
<1>4. CASE k * SampleBytes < Len(encoder.input)
  <2>1. k * SampleBytes + 1 \in 1 .. Len(encoder.input)
    BY <1>4, <1>2
  <2>2. encoder.input[k * SampleBytes + 1] \in Byte
    BY <2>1, ElementOfSeq
  <2>3. encoder.input[k * SampleBytes + 1].f \in Nat
    BY <2>2 DEF Byte
  <2> QED BY <2>1, <2>3, <1>3, <1>4, Zenon DEF Inputs
<1> QED BY <1>3, <1>4

\* later ones with later samples.
LEMMA InputAtIsMonotone ==
  ASSUME encoder.input \in Seq(Byte), InInputsOrder(encoder.input),
         NEW i \in Nat, NEW j \in Nat, i <= j, InputAt(i) # 0, InputAt(j) # 0
  PROVE  InputAt(i) <= InputAt(j)
<1> DEFINE k(x) == IF encoder.channels > 1 THEN x \div 2 ELSE x
<1>1. k(i) \in Nat /\ k(j) \in Nat /\ k(i) <= k(j)
  BY DivisionIsMonotone
<1>3. \A x \in {i, j} :
         InputAt(x) = IF k(x) * SampleBytes < Len(encoder.input)
                      THEN encoder.input[k(x) * SampleBytes + 1].f ELSE 0
  BY Zenon DEF InputAt
<1> HIDE DEF k
<1>2. /\ SampleBytes \in Nat \ {0} /\ Len(encoder.input) \in Nat
      /\ DOMAIN encoder.input = 1 .. Len(encoder.input)
  BY ConstantsAreNumbers, LenProperties
<1>4. /\ k(i) * SampleBytes \in Nat /\ k(j) * SampleBytes \in Nat
      /\ k(i) * SampleBytes <= k(j) * SampleBytes
  <2>1. k(j) - k(i) \in Nat
    BY <1>1
  <2>2. (k(j) - k(i)) * SampleBytes \in Nat
    BY <2>1, <1>2
  <2> QED BY <2>2, <1>1, <1>2
<1> DEFINE a == k(i) * SampleBytes + 1
           b == k(j) * SampleBytes + 1
<1>5. /\ a \in 1 .. Len(encoder.input) /\ b \in 1 .. Len(encoder.input) /\ a <= b
      /\ InputAt(i) = encoder.input[a].f /\ InputAt(j) = encoder.input[b].f
  BY <1>2, <1>3, <1>4
<1> HIDE DEF a, b
<1>6. encoder.input[a].f \in Nat /\ encoder.input[b].f \in Nat
  BY <1>5, InputAtValues
<1>7. CASE a = b
  BY <1>7, <1>5, <1>6
<1>8. CASE a < b
  <2>1. encoder.input[a].f > 0 /\ encoder.input[b].f > 0
    BY <1>5, <1>6
  <2>2. encoder.input[a].f <= encoder.input[b].f
    BY <1>8, <1>2, <1>5, <2>1, Zenon DEF InInputsOrder
  <2> QED BY <1>5, <2>2
<1> QED BY <1>5, <1>7, <1>8

\* Mux changes nothing of a byte but its input,
LEMMA BlendValues ==
  ASSUME encoder.input \in Seq(Byte), NEW data \in Seq(Byte)
  PROVE  /\ Blend(data) \in Seq(Byte) /\ Len(Blend(data)) = Len(data)
         /\ \A k \in 1 .. Len(data) :
              /\ Blend(data)[k].m = data[k].m /\ Blend(data)[k].b = data[k].b
              /\ Blend(data)[k].f = InputAt((k - 1) \div SampleBytes)
              /\ (k - 1) \div SampleBytes \in Nat
<1> DEFINE new(k) == [data[k] EXCEPT !.f = InputAt((k - 1) \div SampleBytes)]
<1>0. Len(data) \in Nat /\ SampleBytes \in Nat \ {0}
  BY LenProperties, ConstantsAreNumbers
<1>1. ASSUME NEW k \in 1 .. Len(data)
      PROVE  /\ new(k) \in Byte
             /\ new(k).m = data[k].m /\ new(k).b = data[k].b
             /\ new(k).f = InputAt((k - 1) \div SampleBytes)
             /\ (k - 1) \div SampleBytes \in Nat
  <2>1. data[k] \in Byte /\ k - 1 \in Nat
    BY ElementOfSeq
  <2>2. (k - 1) \div SampleBytes \in Nat
    BY <2>1, <1>0, Euclid
  <2>3. InputAt((k - 1) \div SampleBytes) \in Nat
    BY <2>2, InputAtValues
  <2> QED BY <2>1, <2>2, <2>3 DEF Byte
<1>2. Blend(data) = [k \in 1 .. Len(data) |-> new(k)]
  BY DEF Blend
<1> HIDE DEF new
<1>3. Blend(data) \in Seq(Byte) /\ Len(Blend(data)) = Len(data)
  <2>1. Blend(data) \in [1 .. Len(data) -> Byte]
    BY <1>1, <1>2, Zenon
  <2> QED BY <2>1, <1>0
<1>4. \A k \in 1 .. Len(data) : Blend(data)[k] = new(k)
  BY <1>2
<1> QED BY <1>1, <1>3, <1>4, Zenon

\* so that the movie's order stays, and the order of the inputs is the input's.
LEMMA BlendKeepsOrder ==
  ASSUME encoder.input \in Seq(Byte), NEW data \in Seq(Byte)
  PROVE  /\ Of(Blend(data)) = Of(data)
         /\ InMoviesOrder(data) => InMoviesOrder(Blend(data))
         /\ Whole(data) => Whole(Blend(data))
         /\ Inputs(Blend(data)) \subseteq Inputs(encoder.input)
         /\ InInputsOrder(encoder.input) => InInputsOrder(Blend(data))
<1> DEFINE blend == Blend(data)
<1>1. /\ blend \in Seq(Byte) /\ Len(blend) = Len(data) /\ Len(data) \in Nat
      /\ DOMAIN data = 1 .. Len(data) /\ DOMAIN blend = 1 .. Len(data)
      /\ \A k \in 1 .. Len(data) :
           /\ blend[k].m = data[k].m /\ blend[k].b = data[k].b
           /\ blend[k].f = InputAt((k - 1) \div SampleBytes)
           /\ (k - 1) \div SampleBytes \in Nat
  BY BlendValues, LenProperties
<1> HIDE DEF blend
<1>2. Of(blend) = Of(data)
  <2>1. ASSUME NEW p \in Of(data) PROVE p \in Of(blend)
    <3>1. PICK k \in 1 .. Len(data) : data[k].m > 0 /\ p = <<data[k].m, data[k].b>>
      BY <2>1, OfMembers, Zenon
    <3>2. k \in 1 .. Len(blend) /\ blend[k].m > 0 /\ p = <<blend[k].m, blend[k].b>>
      BY <3>1, <1>1, Zenon
    <3> QED BY <3>2, <1>1, OfMembers, Zenon
  <2>2. ASSUME NEW p \in Of(blend) PROVE p \in Of(data)
    <3>1. \E k \in 1 .. Len(blend) : blend[k].m > 0 /\ p = <<blend[k].m, blend[k].b>>
      <4>1. blend \in Seq(Byte)
        BY <1>1
      <4> QED BY <2>2, <4>1, OfMembers, Zenon
    <3> PICK k \in 1 .. Len(blend) : blend[k].m > 0 /\ p = <<blend[k].m, blend[k].b>>
      BY <3>1, Zenon
    <3>2. k \in 1 .. Len(data) /\ data[k].m > 0 /\ p = <<data[k].m, data[k].b>>
      BY <1>1, Zenon
    <3> QED BY <3>2, OfMembers, Zenon
  <2> QED BY <2>1, <2>2
<1>3. ASSUME InMoviesOrder(data) PROVE InMoviesOrder(blend)
  <2> SUFFICES ASSUME NEW i \in 1 .. Len(data), NEW j \in 1 .. Len(data), i < j,
                      blend[i].m > 0, blend[j].m > 0
               PROVE  \/ blend[i].m < blend[j].m
                      \/ blend[i].m = blend[j].m /\ blend[i].b < blend[j].b
    BY <1>1, Zenon DEF InMoviesOrder
  <2>1. /\ blend[i].m = data[i].m /\ blend[j].m = data[j].m
        /\ blend[i].b = data[i].b /\ blend[j].b = data[j].b
    BY <1>1
  <2> QED BY <2>1, <1>1, <1>3, Zenon DEF InMoviesOrder
<1>4. Whole(data) => Whole(blend)
  BY <1>1 DEF Whole
<1>5. Inputs(blend) \subseteq Inputs(encoder.input)
  <2> SUFFICES ASSUME NEW k \in 1 .. Len(data), blend[k].f # 0
               PROVE  blend[k].f \in Inputs(encoder.input)
    BY <1>1, Zenon DEF Inputs
  <2> QED BY <1>1, InputAtValues
<1>6. ASSUME InInputsOrder(encoder.input) PROVE InInputsOrder(blend)
  <2> SUFFICES ASSUME NEW i \in 1 .. Len(data), NEW j \in 1 .. Len(data), i < j,
                      blend[i].f > 0, blend[j].f > 0
               PROVE  blend[i].f <= blend[j].f
    BY <1>1 DEF InInputsOrder
  <2>1. SampleBytes \in Nat \ {0} /\ i - 1 \in Int /\ j - 1 \in Int /\ i - 1 <= j - 1
    BY ConstantsAreNumbers
  <2>2. (i - 1) \div SampleBytes <= (j - 1) \div SampleBytes
    BY <2>1, DivisionIsMonotone
  <2>3. InputAt((i - 1) \div SampleBytes) # 0 /\ InputAt((j - 1) \div SampleBytes) # 0
    BY <1>1
  <2> QED BY <2>2, <2>3, <1>1, <1>6, InputAtIsMonotone
<1> QED BY <1>2, <1>3, <1>4, <1>5, <1>6 DEF blend

\* Silence is no part of the movie, and whole samples.
LEMMA SilenceValues ==
  ASSUME NEW n \in Nat
  PROVE  /\ Silence(n) \in Seq(Byte) /\ Len(Silence(n)) = n
         /\ Of(Silence(n)) = {} /\ InMoviesOrder(Silence(n)) /\ Whole(Silence(n))
<1> DEFINE data == Silence(n)
<1>0. SampleBytes \in Nat \ {0}
  BY ConstantsAreNumbers
<1>1. data = [k \in 1 .. n |-> [m |-> 0, f |-> 0, b |-> (k - 1) % SampleBytes]]
  BY DEF Silence
<1>2. ASSUME NEW k \in 1 .. n PROVE [m |-> 0, f |-> 0, b |-> (k - 1) % SampleBytes] \in Byte
  BY <1>0, Euclid DEF Byte
<1>3. data \in Seq(Byte) /\ Len(data) = n /\ DOMAIN data = 1 .. n
  <2>1. data \in [1 .. n -> Byte]
    BY <1>1, <1>2, Zenon
  <2> HIDE DEF data
  <2> QED BY <2>1
<1>4. \A k \in 1 .. n : data[k].m = 0 /\ data[k].b = (k - 1) % SampleBytes
  BY <1>1
<1> HIDE DEF data
<1>5. Of(data) = {}
  <2>1. \A p : p \notin Of(data)
    BY <1>3, <1>4, OfMembers
  <2> QED BY <2>1
<1>6. InMoviesOrder(data) /\ Whole(data)
  BY <1>3, <1>4 DEF InMoviesOrder, Whole
<1> QED BY <1>3, <1>5, <1>6 DEF data

\* What Mux offers to m_MixedRing: the movie's bytes it has read, in their order,
\* with inputs it has read, in theirs.
LEMMA MixtureValues ==
  ASSUME encoder.input \in Seq(Byte), encoder.channels \in Nat, audio_mix_ring \in Seq(Byte)
  PROVE  /\ Mixture \in Seq(Byte)
         /\ Of(Mixture) = Of(audio_mix_ring)
         /\ InMoviesOrder(audio_mix_ring) => InMoviesOrder(Mixture)
         /\ Whole(audio_mix_ring) => Whole(Mixture)
         /\ Inputs(Mixture) \subseteq Inputs(encoder.input)
         /\ InInputsOrder(encoder.input) => InInputsOrder(Mixture)
<1>1. CASE audio_mix_ring = <<>>
  <2> DEFINE zeros == Silence(Len(encoder.input) * encoder.channels)
  <2>1. Len(encoder.input) * encoder.channels \in Nat
    BY LenProperties
  <2>2. zeros \in Seq(Byte) /\ Of(zeros) = {} /\ InMoviesOrder(zeros) /\ Whole(zeros)
    BY <2>1, SilenceValues
  <2>3. Mixture = Blend(zeros)
    BY <1>1 DEF Mixture
  <2> HIDE DEF zeros
  <2>4. Of(audio_mix_ring) = {}
    BY <1>1, EmptyBytes
  <2> QED BY <2>2, <2>3, <2>4, BlendValues, BlendKeepsOrder
<1>2. CASE audio_mix_ring # <<>>
  <2>1. Mixture = Blend(audio_mix_ring)
    BY <1>2 DEF Mixture
  <2> QED BY <2>1, BlendValues, BlendKeepsOrder
<1> QED BY <1>1, <1>2

-----------------------------------------------------------------------------
(* Types, and what the long steps do *)

\* The types of the variables; a ring never holds as much as its size.
AudioTypeOK ==
  /\ screenRing \in Seq(Byte) /\ Len(screenRing) < ScreenBytes
  /\ first \in Seq(Byte) /\ Len(first) < FirstBytes
  /\ audio_mix_ring \in Seq(Byte) /\ Len(audio_mix_ring) < MixBytes
  /\ m_MixedRing \in Seq(Byte) /\ Len(m_MixedRing) < MixedBytes
  /\ m_ringbuffer \in BOOLEAN /\ m_ringbufferchannels \in Nat
  /\ m_inbuf \in {"none", "freed", "new", "filled"}
  /\ m_Encoded \in BOOLEAN
  /\ wiring \in {"idle", "free", "malloc", "publish"}
  /\ process \in [at : {"idle", "test", "read", "output", "broken"}, enc : BOOLEAN,
                  channels : Nat, data : Seq(Byte)]
  /\ encoder \in [at : {"off", "idle", "mux"}, channels : Nat \ {0}, input : Seq(Byte)]
  /\ decoded \in Nat /\ heard \in Nat /\ wirings \in Nat /\ streams \in Nat
  /\ encoded \in Seq(Byte)
  /\ played \in [data : Seq(Byte), channels : Nat]
  /\ cut \in BOOLEAN /\ stale \in BOOLEAN /\ rewired \in BOOLEAN

\* ringbuffer_write stays in the room there is.
LEMMA CopiedFits ==
  ASSUME NEW size \in Nat \ {0}, NEW ring \in Seq(Byte), Len(ring) < size, NEW n \in Nat
  PROVE  Copied(n, size, ring) \in 0 .. n /\ Copied(n, size, ring) <= Space(size, ring)
BY LenProperties DEF Copied, Space

\* A packet is cut in two: what the ring takes, and what is lost.
LEMMA FeedSteps ==
  ASSUME AudioTypeOK, NEW frames \in Packets, Feed(frames)
  PROVE  \E h \in Seq(Byte), x \in Seq(Byte) :
           /\ Movie(decoded + 1, decoded + frames * Channels) = h \o x
           /\ screenRing' = screenRing \o h /\ Len(screenRing \o h) < ScreenBytes
           /\ lost' = lost \cup Of(x)
           /\ cut' = (cut \/ Len(h) % Frame # 0)
           /\ decoded' = decoded + frames * Channels /\ frames * Channels \in Nat
<1> DEFINE data == Movie(decoded + 1, decoded + frames * Channels)
           n == Copied(Len(data), ScreenBytes, screenRing)
<1>1. decoded + 1 \in Nat \ {0} /\ frames * Channels \in Nat /\ decoded \in Nat
  BY ConstantsAreNumbers DEF AudioTypeOK
<1>2. decoded + frames * Channels = decoded + 1 + frames * Channels - 1
  BY <1>1
<1>3. data \in Seq(Byte)
  BY <1>1, <1>2, MovieValues
<1>4. /\ screenRing' = screenRing \o SubSeq(data, 1, n)
      /\ lost' = lost \cup Of(Tail_(data, n))
      /\ cut' = (cut \/ n % Frame # 0)
      /\ decoded' = decoded + frames * Channels
  BY DEF Feed
<1> HIDE DEF data
<1>5. /\ n \in 0 .. Len(data) /\ n <= Space(ScreenBytes, screenRing) /\ screenRing \in Seq(Byte)
      /\ Len(screenRing) \in Nat
  BY <1>3, CopiedFits, ConstantsAreNumbers, LenProperties DEF AudioTypeOK
<1> HIDE DEF n
<1>6. /\ SubSeq(data, 1, n) \in Seq(Byte) /\ Len(SubSeq(data, 1, n)) = n
      /\ Tail_(data, n) \in Seq(Byte) /\ data = SubSeq(data, 1, n) \o Tail_(data, n)
  BY <1>3, <1>5, Split, SplitJoins
<1>7. Len(screenRing \o SubSeq(data, 1, n)) = Len(screenRing) + n
  BY <1>5, <1>6, Joined
<1>8. Len(screenRing) + n < ScreenBytes
  BY <1>5, ConstantsAreNumbers DEF Space
<1> QED BY <1>1, <1>4, <1>6, <1>7, <1>8, Zenon DEF data

\* A period is cut from the ring's beginning.
LEMMA ReadSteps ==
  ASSUME AudioTypeOK, ProcessRead, m_ringbuffer, m_inbuf \in {"new", "filled"},
         ~(Len(screenRing) < PeriodBytes)
  PROVE  \E d \in Seq(Byte), r \in Seq(Byte) :
           /\ screenRing = d \o r /\ Len(d) = process.channels * Period * SampleBytes
           /\ Len(r) <= Len(screenRing)
           /\ screenRing' = r /\ process' = [process EXCEPT !.at = "output", !.data = d]
           /\ m_inbuf' = "filled" /\ played' = played
           /\ stale' = (stale \/ process.channels # m_ringbufferchannels)
<1>1. /\ process' = [process EXCEPT !.at = "output", !.data = SubSeq(screenRing, 1, PeriodBytes)]
      /\ screenRing' = Tail_(screenRing, PeriodBytes)
      /\ m_inbuf' = "filled" /\ played' = played
      /\ stale' = (stale \/ process.channels # m_ringbufferchannels)
  BY Zenon DEF ProcessRead
<1>2. process.channels \in Nat /\ screenRing \in Seq(Byte) /\ Len(screenRing) \in Nat
  BY LenProperties, ConstantsAreNumbers DEF AudioTypeOK
<1>3. PeriodBytes \in Nat
  BY <1>2, ConstantsAreNumbers DEF PeriodBytes
<1>4. PeriodBytes \in 0 .. Len(screenRing)
  BY <1>2, <1>3
<1>5. /\ SubSeq(screenRing, 1, PeriodBytes) \in Seq(Byte)
      /\ Len(SubSeq(screenRing, 1, PeriodBytes)) = PeriodBytes
      /\ Tail_(screenRing, PeriodBytes) \in Seq(Byte)
      /\ Len(Tail_(screenRing, PeriodBytes)) = Len(screenRing) - PeriodBytes
      /\ screenRing = SubSeq(screenRing, 1, PeriodBytes) \o Tail_(screenRing, PeriodBytes)
  BY <1>2, <1>4, Split, SplitJoins
<1>6. Len(screenRing) - PeriodBytes <= Len(screenRing)
  BY <1>2, <1>3
<1> QED BY <1>1, <1>5, <1>6, Zenon DEF PeriodBytes

\* encode_frame takes whole samples, and Vorbis is given whole frames of them.
LEMMA TakenIsWhole ==
  ASSUME encoder.channels \in Nat \ {0}, NEW ring \in Seq(Byte)
  PROVE  /\ Taken(ring) \in 0 .. Len(ring) /\ Taken(ring) % SampleBytes = 0
         /\ WholeFrames(Taken(ring)) \in 0 .. Taken(ring)
         /\ WholeFrames(Taken(ring)) % SampleBytes = 0
<1> DEFINE L == Len(ring)
           q == L \div SampleBytes
           rff == q * SampleBytes - SampleBytes
           rv == Taken(ring)
<1>1. /\ L \in Nat /\ SampleBytes \in Nat \ {0} /\ EncodeFrames \in Nat \ {0}
      /\ q \in Nat /\ q * SampleBytes \in Nat /\ q * SampleBytes <= L
  <2>1. L \in Nat /\ SampleBytes \in Nat \ {0} /\ EncodeFrames \in Nat \ {0}
    BY LenProperties, ConstantsAreNumbers
  <2> HIDE DEF L
  <2>2. q \in Int /\ q >= 0 /\ L = q * SampleBytes + (L % SampleBytes) /\ L % SampleBytes >= 0
    BY <2>1, Euclid
  <2> QED BY <2>1, <2>2
<1>2. EncodeFrames * SampleBytes * encoder.channels - 1 \in Nat
  BY <1>1
<1>3. \/ rv = rff /\ rff >= 0
      \/ rv = 0
  <2>1. rff \in Int
    BY <1>1
  <2>2. \/ rv = rff /\ rff >= EncodeFrames * SampleBytes * encoder.channels - 1
        \/ rv = 0
    BY Zenon DEF Taken
  <2> HIDE DEF rff, rv
  <2> QED BY <1>2, <2>1, <2>2
<1> HIDE DEF L, q, rv
<1>4. rff % SampleBytes = 0 /\ 0 % SampleBytes = 0
  <2>1. rff = (q - 1) * SampleBytes + 0 /\ q - 1 \in Int
    BY <1>1
  <2>2. 0 \in 0 .. SampleBytes - 1
    BY <1>1
  <2> QED BY <2>1, <2>2, <1>1, Euclid
<1>5. rv \in 0 .. L /\ rv % SampleBytes = 0
  BY <1>1, <1>3, <1>4
<1> DEFINE w == SampleBytes * encoder.channels
           p == rv \div w
<1>6. w \in Nat \ {0}
  BY <1>1
<1>7. p \in Nat /\ rv = p * w + (rv % w) /\ rv % w >= 0
  <2> HIDE DEF w
  <2>1. p \in Int /\ rv = p * w + (rv % w) /\ rv % w >= 0 /\ p >= 0
    BY <1>5, <1>6, Euclid
  <2> QED BY <2>1
<1>8. WholeFrames(rv) = p * SampleBytes * encoder.channels
  BY DEF WholeFrames
<1> HIDE DEF p
<1>9. p * SampleBytes * encoder.channels = p * w
      /\ p * SampleBytes * encoder.channels = (p * encoder.channels) * SampleBytes + 0
      /\ p * encoder.channels \in Int /\ p * w \in Nat
  BY <1>1, <1>7
<1>10. WholeFrames(rv) % SampleBytes = 0
  <2> DEFINE z == p * encoder.channels
  <2>1. z \in Int /\ WholeFrames(rv) = z * SampleBytes + 0
    BY <1>8, <1>9
  <2> HIDE DEF z
  <2>2. (z * SampleBytes + 0) % SampleBytes = 0 % SampleBytes
    BY <1>1, <2>1, Euclid
  <2> QED BY <2>1, <2>2, <1>4
<1>11. WholeFrames(rv) \in 0 .. rv
  <2> HIDE DEF w
  <2>1. p * w <= rv
    BY <1>5, <1>6, <1>7, <1>9
  <2> QED BY <2>1, <1>5, <1>8, <1>9
<1> QED BY <1>5, <1>10, <1>11 DEF rv, L

\* One encode_frame: the mixture is cut in what the ring takes (h) and what is lost
\* (x), the ring then in what Vorbis is given (r1), what is taken and not given (r2)
\* and what stays (r3).
LEMMA EncodeSteps ==
  ASSUME AudioTypeOK, EncodeFrame
  PROVE  \E h \in Seq(Byte), x \in Seq(Byte), r1 \in Seq(Byte), r2 \in Seq(Byte), r3 \in Seq(Byte) :
           /\ Mixture = h \o x /\ m_MixedRing \o h = (r1 \o r2) \o r3
           /\ encoded' = encoded \o r1 /\ m_MixedRing' = r3 /\ audio_mix_ring' = <<>>
           /\ lost' = lost \cup Of(x) \cup Of(r2)
           /\ cut' = (cut \/ Len(h) % (SampleBytes * encoder.channels) # 0)
           /\ Len(r1) % SampleBytes = 0 /\ Len(r1 \o r2) % SampleBytes = 0
           /\ Len(r3) < MixedBytes
<1> DEFINE n == IF Space(MixedBytes, m_MixedRing) >= Asked
                THEN Copied(Len(Mixture), MixedBytes, m_MixedRing) ELSE 0
           h == SubSeq(Mixture, 1, n)
           ring == m_MixedRing \o h
           rv == Taken(ring)
           out == WholeFrames(rv)
           taken == SubSeq(ring, 1, rv)
<1>1. /\ audio_mix_ring' = <<>>
      /\ m_MixedRing' = Tail_(ring, rv)
      /\ encoded' = encoded \o SubSeq(ring, 1, out)
      /\ lost' = lost \cup Of(Tail_(Mixture, n)) \cup Of(SubSeq(ring, out + 1, rv))
      /\ cut' = (cut \/ n % (SampleBytes * encoder.channels) # 0)
  BY DEF EncodeFrame
<1>2. /\ encoder.channels \in Nat \ {0} /\ encoder.input \in Seq(Byte)
      /\ m_MixedRing \in Seq(Byte) /\ Len(m_MixedRing) \in Nat /\ Len(m_MixedRing) < MixedBytes
      /\ MixedBytes \in Nat \ {0}
  BY LenProperties, ConstantsAreNumbers DEF AudioTypeOK
<1>3. Mixture \in Seq(Byte) /\ Len(Mixture) \in Nat
  BY <1>2, MixtureValues, LenProperties DEF AudioTypeOK
<1>4. n \in 0 .. Len(Mixture) /\ n <= Space(MixedBytes, m_MixedRing)
  <2>1. Space(MixedBytes, m_MixedRing) \in Nat
    BY <1>2 DEF Space
  <2> QED BY <2>1, <1>2, <1>3, CopiedFits
<1> HIDE DEF n
<1>5. /\ h \in Seq(Byte) /\ Len(h) = n
      /\ Tail_(Mixture, n) \in Seq(Byte) /\ Mixture = h \o Tail_(Mixture, n)
  BY <1>3, <1>4, Split, SplitJoins
<1> HIDE DEF h
<1>6. ring \in Seq(Byte) /\ Len(ring) = Len(m_MixedRing) + n
  BY <1>2, <1>5, Joined
<1>7. Len(ring) < MixedBytes /\ Len(ring) \in Nat
  BY <1>2, <1>4, <1>6 DEF Space
<1>8. rv \in 0 .. Len(ring) /\ rv % SampleBytes = 0 /\ out \in 0 .. rv /\ out % SampleBytes = 0
  BY <1>2, <1>6, TakenIsWhole
<1> HIDE DEF ring, rv, out
<1>9. /\ taken \in Seq(Byte) /\ Len(taken) = rv
      /\ \A k \in 1 .. rv : taken[k] = ring[k]
      /\ Tail_(ring, rv) \in Seq(Byte) /\ Len(Tail_(ring, rv)) = Len(ring) - rv
      /\ ring = taken \o Tail_(ring, rv)
  BY <1>6, <1>8, Split, SplitJoins
<1>10. /\ SubSeq(ring, 1, out) = SubSeq(taken, 1, out)
       /\ SubSeq(ring, out + 1, rv) = Tail_(taken, out)
  <2>1. /\ out \in 0 .. Len(taken) /\ out \in 0 .. Len(ring)
    BY <1>7, <1>8, <1>9
  <2>2. /\ SubSeq(taken, 1, out) \in Seq(Byte) /\ Len(SubSeq(taken, 1, out)) = out
        /\ \A k \in 1 .. out : SubSeq(taken, 1, out)[k] = taken[k]
        /\ Tail_(taken, out) \in Seq(Byte) /\ Len(Tail_(taken, out)) = rv - out
        /\ \A k \in 1 .. rv - out : Tail_(taken, out)[k] = taken[out + k]
    <3>1. taken \in Seq(Byte) /\ out \in 0 .. Len(taken) /\ Len(taken) = rv
      BY <1>9, <2>1
    <3> HIDE DEF taken
    <3> QED BY <3>1, Split
  <2>3. /\ SubSeq(ring, 1, out) \in Seq(Byte) /\ Len(SubSeq(ring, 1, out)) = out
        /\ \A k \in 1 .. out : SubSeq(ring, 1, out)[k] = ring[k]
    BY <1>6, <2>1, Split
  <2>4. SubSeq(ring, 1, out) = SubSeq(taken, 1, out)
    <3>1. \A k \in 1 .. out : k \in 1 .. rv
      BY <1>8
    <3>2. \A k \in 1 .. Len(SubSeq(ring, 1, out)) :
             SubSeq(ring, 1, out)[k] = SubSeq(taken, 1, out)[k]
      BY <2>2, <2>3, <3>1, <1>9
    <3> QED BY <2>2, <2>3, <3>2, SeqEqual
  <2>5. /\ SubSeq(ring, out + 1, rv) \in Seq(Byte) /\ Len(SubSeq(ring, out + 1, rv)) = rv - out
        /\ \A k \in 1 .. rv - out : SubSeq(ring, out + 1, rv)[k] = ring[out + k]
    <3>1. \A k \in out + 1 .. rv : ring[k] \in Byte
      <4>1. \A k \in out + 1 .. rv : k \in 1 .. Len(ring)
        BY <1>7, <1>8
      <4> QED BY <4>1, <1>6, ElementOfSeq
    <3>2. out \in Int /\ rv \in Int /\ out <= rv
      BY <1>7, <1>8
    <3> QED BY <3>1, <3>2, SubSeqProperties
  <2>6. SubSeq(ring, out + 1, rv) = Tail_(taken, out)
    <3>1. \A k \in 1 .. rv - out : out + k \in 1 .. rv
      BY <1>8
    <3>2. \A k \in 1 .. Len(SubSeq(ring, out + 1, rv)) :
             SubSeq(ring, out + 1, rv)[k] = Tail_(taken, out)[k]
      BY <2>2, <2>5, <3>1, <1>9
    <3> QED BY <2>2, <2>5, <3>2, SeqEqual
  <2> QED BY <2>4, <2>6
<1>11. /\ SubSeq(taken, 1, out) \in Seq(Byte) /\ Len(SubSeq(taken, 1, out)) = out
       /\ Tail_(taken, out) \in Seq(Byte)
       /\ taken = SubSeq(taken, 1, out) \o Tail_(taken, out)
  BY <1>8, <1>9, Split, SplitJoins
<1>12. Len(ring) - rv < MixedBytes
  BY <1>7, <1>8, <1>2
<1> HIDE DEF taken
<1>13. /\ Mixture = h \o Tail_(Mixture, n)
       /\ m_MixedRing \o h = (SubSeq(taken, 1, out) \o Tail_(taken, out)) \o Tail_(ring, rv)
  BY <1>5, <1>9, <1>11, Zenon DEF ring
<1>14. /\ encoded' = encoded \o SubSeq(taken, 1, out) /\ m_MixedRing' = Tail_(ring, rv)
       /\ audio_mix_ring' = <<>>
       /\ lost' = lost \cup Of(Tail_(Mixture, n)) \cup Of(Tail_(taken, out))
       /\ cut' = (cut \/ Len(h) % (SampleBytes * encoder.channels) # 0)
       /\ Len(SubSeq(taken, 1, out)) % SampleBytes = 0
       /\ Len(SubSeq(taken, 1, out) \o Tail_(taken, out)) % SampleBytes = 0
       /\ Len(Tail_(ring, rv)) < MixedBytes
  BY <1>1, <1>5, <1>8, <1>9, <1>10, <1>11, <1>12, Zenon
<1> QED BY <1>5, <1>9, <1>11, <1>13, <1>14, Zenon

\* A period goes to the encoder whole, or not at all.
LEMMA OutputSteps ==
  ASSUME AudioTypeOK, ProcessOutput, m_inbuf = "filled"
  PROVE  /\ process' = Resting
         /\ played' = [data |-> process.data, channels |-> process.channels]
         /\ \/ /\ audio_mix_ring' = audio_mix_ring \o process.data
               /\ lost' = lost
               /\ Len(audio_mix_ring \o process.data) < MixBytes
            \/ /\ audio_mix_ring' = audio_mix_ring
               /\ lost' = lost \cup Of(process.data)
<1>1. /\ process' = Resting
      /\ played' = [data |-> process.data, channels |-> process.channels]
      /\ \/ /\ audio_mix_ring' = audio_mix_ring \o process.data
            /\ lost' = lost
            /\ Space(MixBytes, audio_mix_ring) >= Len(process.data)
         \/ /\ audio_mix_ring' = audio_mix_ring
            /\ lost' = lost \cup Of(process.data)
  BY Zenon DEF ProcessOutput
<1>2. /\ audio_mix_ring \in Seq(Byte) /\ process.data \in Seq(Byte)
      /\ Len(audio_mix_ring) \in Nat /\ Len(process.data) \in Nat /\ MixBytes \in Nat
  BY LenProperties, ConstantsAreNumbers DEF AudioTypeOK
<1>3. Len(audio_mix_ring \o process.data) = Len(audio_mix_ring) + Len(process.data)
  BY <1>2, Joined
<1>4. Space(MixBytes, audio_mix_ring) >= Len(process.data)
        => Len(audio_mix_ring \o process.data) < MixBytes
  BY <1>2, <1>3 DEF Space
<1> QED BY <1>1, <1>4, Zenon

\* The values of a Process that rests and of an encoder that is off.
LEMMA RestingOff ==
  /\ Resting \in [at : {"idle", "test", "read", "output", "broken"}, enc : BOOLEAN,
                   channels : Nat, data : Seq(Byte)]
  /\ Resting.at = "idle" /\ Resting.data = <<>> /\ Resting.channels = 0
  /\ Off \in [at : {"off", "idle", "mux"}, channels : Nat \ {0}, input : Seq(Byte)]
  /\ Off.at = "off" /\ Off.input = <<>>
BY EmptyBytes, ConstantsAreNumbers DEF Resting, Off

\* The types hold at the beginning,
LEMMA AudioInitType == AudioInit => AudioTypeOK
<1> SUFFICES ASSUME AudioInit PROVE AudioTypeOK
  OBVIOUS
<1>1. /\ Len(<<>>) < ScreenBytes /\ Len(<<>>) < FirstBytes /\ Len(<<>>) < MixBytes
      /\ Len(<<>>) < MixedBytes /\ 0 \in Nat
  BY EmptyBytes, ConstantsAreNumbers
<1>2. [data |-> <<>>, channels |-> 0] \in [data : Seq(Byte), channels : Nat]
  BY <1>1, EmptyBytes
<1> QED BY <1>1, <1>2, EmptyBytes, RestingOff, AudioAssumption DEF AudioInit, AudioTypeOK

\* and after every step.
LEMMA AudioStepType == AudioTypeOK /\ [AudioNext]_audioVars => AudioTypeOK'
<1> SUFFICES ASSUME AudioTypeOK, [AudioNext]_audioVars PROVE AudioTypeOK'
  OBVIOUS
<1>1. ASSUME NEW frames \in Packets, Feed(frames) PROVE AudioTypeOK'
  <2>1. PICK h \in Seq(Byte), x \in Seq(Byte) :
          /\ screenRing' = screenRing \o h /\ Len(screenRing \o h) < ScreenBytes
          /\ cut' = (cut \/ Len(h) % Frame # 0)
          /\ decoded' = decoded + frames * Channels /\ frames * Channels \in Nat
    BY <1>1, FeedSteps, Zenon
  <2>2. screenRing' \in Seq(Byte) /\ Len(screenRing') < ScreenBytes /\ decoded' \in Nat
        /\ cut' \in BOOLEAN
    <3>1. screenRing \in Seq(Byte) /\ decoded \in Nat /\ cut \in BOOLEAN
      BY DEF AudioTypeOK
    <3>2. screenRing \o h \in Seq(Byte)
      BY <3>1, Joined
    <3>3. cut' \in BOOLEAN
      BY <2>1
    <3> QED BY <2>1, <3>1, <3>2, <3>3
  <2>3. UNCHANGED <<first, audio_mix_ring, m_MixedRing, m_ringbuffer, m_ringbufferchannels,
                    m_inbuf, wiring, m_Encoded, process, encoder, heard, wirings, streams,
                    encoded, played, stale, rewired>>
    BY <1>1 DEF Feed, jack
  <2> QED BY <2>2, <2>3 DEF AudioTypeOK
<1>2. CASE ForgetRing
  <2>1. /\ wirings' \in Nat /\ rewired' \in BOOLEAN /\ m_ringbuffer' \in BOOLEAN
        /\ wiring' \in {"idle", "free", "malloc", "publish"}
    <3>1. wirings \in Nat
      BY DEF AudioTypeOK
    <3>2. /\ wirings' = wirings + 1 /\ wiring' = "free" /\ m_ringbuffer' = FALSE
          /\ rewired' = (rewired \/ (m_ringbuffer /\ process.at # "idle"))
      BY <1>2, Zenon DEF ForgetRing
    <3>3. wirings' \in Nat /\ wiring' \in {"idle", "free", "malloc", "publish"}
      BY <3>1, <3>2
    <3>4. rewired' \in BOOLEAN /\ m_ringbuffer' \in BOOLEAN
      BY <3>2
    <3> QED BY <3>3, <3>4
  <2>2. UNCHANGED <<screenRing, first, audio_mix_ring, m_MixedRing, m_ringbufferchannels,
                    m_inbuf, m_Encoded, process, encoder, decoded, heard, streams,
                    encoded, played, cut, stale>>
    BY <1>2 DEF ForgetRing, rings
  <2> QED BY <2>1, <2>2 DEF AudioTypeOK
<1>3. CASE FreeInbuf
  BY <1>3 DEF AudioTypeOK, FreeInbuf, rings, counters, history
<1>4. CASE NewInbuf
  BY <1>4, ConstantsAreNumbers DEF AudioTypeOK, NewInbuf, rings, counters, history
<1>5. CASE PublishRing
  BY <1>5 DEF AudioTypeOK, PublishRing, rings, counters, history
<1>6. ASSUME NEW connected \in BOOLEAN, ProcessInputs(connected) PROVE AudioTypeOK'
  <2>1. first' \in Seq(Byte) /\ Len(first') < FirstBytes
    <3>1. CASE first' = first
      BY <3>1 DEF AudioTypeOK
    <3>2. CASE /\ first' = first \o Input(heard + 1)
               /\ Space(FirstBytes, first) >= SampleBytes * Period
      <4>1. /\ Input(heard + 1) \in Seq(Byte) /\ Len(Input(heard + 1)) = SampleBytes * Period
            /\ Len(first) \in Nat /\ SampleBytes * Period \in Nat /\ FirstBytes \in Nat
            /\ first \in Seq(Byte)
        <5>1. first \in Seq(Byte) /\ heard \in Nat
          BY DEF AudioTypeOK
        <5>2. heard + 1 \in Nat \ {0}
          BY <5>1
        <5>3. Input(heard + 1) \in Seq(Byte) /\ Len(Input(heard + 1)) = SampleBytes * Period
          BY <5>2, InputValues
        <5> QED BY <5>1, <5>3, LenProperties, ConstantsAreNumbers
      <4>2. /\ first \o Input(heard + 1) \in Seq(Byte)
            /\ Len(first \o Input(heard + 1)) = Len(first) + SampleBytes * Period
        BY <4>1, Joined
      <4>3. Len(first \o Input(heard + 1)) < FirstBytes
        BY <3>2, <4>1, <4>2 DEF Space
      <4> QED BY <3>2, <4>2, <4>3
    <3> QED BY <3>1, <3>2, <1>6, Zenon DEF ProcessInputs
  <2>2. heard' \in Nat
    BY <1>6 DEF ProcessInputs, AudioTypeOK
  <2>3. process' \in [at : {"idle", "test", "read", "output", "broken"}, enc : BOOLEAN,
                   channels : Nat, data : Seq(Byte)]
    <3>1. /\ process' = [at |-> "test", enc |-> m_Encoded,
                         channels |-> m_ringbufferchannels, data |-> <<>>]
          /\ m_Encoded \in BOOLEAN /\ m_ringbufferchannels \in Nat
      BY <1>6 DEF ProcessInputs, AudioTypeOK
    <3> QED BY <3>1, EmptyBytes
  <2>4. UNCHANGED <<screenRing, audio_mix_ring, m_MixedRing, m_ringbuffer,
                    m_ringbufferchannels, m_inbuf, wiring, m_Encoded, encoder, decoded,
                    wirings, streams, encoded, played, cut, stale, rewired>>
    BY <1>6 DEF ProcessInputs, jack, history
  <2> QED BY <2>1, <2>2, <2>3, <2>4 DEF AudioTypeOK
<1>7. CASE ProcessTestRing
  <2>1. process' \in [at : {"idle", "test", "read", "output", "broken"}, enc : BOOLEAN,
                   channels : Nat, data : Seq(Byte)]
    BY <1>7, RestingOff DEF ProcessTestRing, AudioTypeOK
  <2>2. played' \in [data : Seq(Byte), channels : Nat]
    BY <1>7, EmptyBytes, ConstantsAreNumbers DEF ProcessTestRing, AudioTypeOK
  <2> QED BY <1>7, <2>1, <2>2 DEF AudioTypeOK, ProcessTestRing, rings, jack, counters
<1>8. CASE ProcessRead
  <2>1. /\ process' \in [at : {"idle", "test", "read", "output", "broken"}, enc : BOOLEAN,
                   channels : Nat, data : Seq(Byte)]
        /\ played' \in [data : Seq(Byte), channels : Nat]
        /\ screenRing' \in Seq(Byte) /\ Len(screenRing') < ScreenBytes
        /\ m_inbuf' \in {"none", "freed", "new", "filled"} /\ stale' \in BOOLEAN
    <3>1. CASE ~m_ringbuffer \/ m_inbuf \notin {"new", "filled"}
      BY <1>8, <3>1 DEF ProcessRead, AudioTypeOK
    <3>2. CASE m_ringbuffer /\ m_inbuf \in {"new", "filled"} /\ Len(screenRing) < PeriodBytes
      BY <1>8, <3>2, RestingOff, EmptyBytes, ConstantsAreNumbers DEF ProcessRead, AudioTypeOK
    <3>3. CASE m_ringbuffer /\ m_inbuf \in {"new", "filled"} /\ ~(Len(screenRing) < PeriodBytes)
      <4>1. PICK d \in Seq(Byte), r \in Seq(Byte) :
              /\ Len(r) <= Len(screenRing)
              /\ screenRing' = r /\ process' = [process EXCEPT !.at = "output", !.data = d]
              /\ m_inbuf' = "filled" /\ played' = played
              /\ stale' = (stale \/ process.channels # m_ringbufferchannels)
        BY <1>8, <3>3, ReadSteps, Zenon
      <4>2. process' \in [at : {"idle", "test", "read", "output", "broken"}, enc : BOOLEAN,
                   channels : Nat, data : Seq(Byte)]
        BY <4>1 DEF AudioTypeOK
      <4>3. Len(r) < ScreenBytes
        <5>1. Len(r) \in Nat /\ Len(screenRing) \in Nat /\ Len(screenRing) < ScreenBytes
              /\ ScreenBytes \in Nat
          BY LenProperties, ConstantsAreNumbers DEF AudioTypeOK
        <5> QED BY <4>1, <5>1
      <4> QED BY <4>1, <4>2, <4>3 DEF AudioTypeOK
    <3> QED BY <3>1, <3>2, <3>3, Zenon
  <2> QED BY <1>8, <2>1 DEF AudioTypeOK, ProcessRead, counters
<1>9. CASE ProcessOutput
  <2>1. CASE m_inbuf # "filled"
    <3>1. process' \in [at : {"idle", "test", "read", "output", "broken"}, enc : BOOLEAN,
                   channels : Nat, data : Seq(Byte)]
      <4>1. process' = [process EXCEPT !.at = "broken"]
        BY <1>9, <2>1 DEF ProcessOutput
      <4> QED BY <4>1 DEF AudioTypeOK
    <3> QED BY <1>9, <2>1, <3>1 DEF AudioTypeOK, ProcessOutput, jack, counters
  <2>2. CASE m_inbuf = "filled"
    <3>1. /\ process' = Resting
          /\ played' = [data |-> process.data, channels |-> process.channels]
          /\ \/ /\ audio_mix_ring' = audio_mix_ring \o process.data
                /\ Len(audio_mix_ring \o process.data) < MixBytes
             \/ audio_mix_ring' = audio_mix_ring
      BY <1>9, <2>2, OutputSteps, Zenon
    <3>2. audio_mix_ring' \in Seq(Byte) /\ Len(audio_mix_ring') < MixBytes
      <4>1. /\ audio_mix_ring \in Seq(Byte) /\ Len(audio_mix_ring) < MixBytes
            /\ audio_mix_ring \o process.data \in Seq(Byte)
        BY Joined DEF AudioTypeOK
      <4> QED BY <3>1, <4>1, Zenon
    <3>3. played' \in [data : Seq(Byte), channels : Nat]
      BY <3>1 DEF AudioTypeOK
    <3> QED BY <1>9, <3>1, <3>2, <3>3, RestingOff DEF AudioTypeOK, ProcessOutput, jack, counters
  <2> QED BY <2>1, <2>2
<1>10. CASE AddEncoder
  <2>1. encoder' \in [at : {"off", "idle", "mux"}, channels : Nat \ {0}, input : Seq(Byte)]
    BY <1>10, EmptyBytes DEF AddEncoder, AudioTypeOK
  <2>2. Len(<<>>) < MixedBytes
    BY EmptyBytes, ConstantsAreNumbers
  <2>3. /\ streams' \in Nat /\ m_MixedRing' = <<>> /\ m_Encoded' = FALSE
    BY <1>10 DEF AddEncoder, AudioTypeOK
  <2>4. UNCHANGED <<screenRing, first, audio_mix_ring, m_ringbuffer, m_ringbufferchannels,
                    m_inbuf, wiring, process, decoded, heard, wirings,
                    encoded, played, cut, stale, rewired>>
    BY <1>10 DEF AddEncoder, jack, history
  <2>5. m_MixedRing' \in Seq(Byte) /\ Len(m_MixedRing') < MixedBytes
    <3> DEFINE none == <<>>
    <3>1. none \in Seq(Byte) /\ Len(none) < MixedBytes /\ m_MixedRing' = none
      BY <2>2, <2>3, EmptyBytes, Zenon
    <3> HIDE DEF none
    <3> QED BY <3>1
  <2>6. m_Encoded' \in BOOLEAN
    BY <2>3
  <2> QED BY <2>1, <2>3, <2>4, <2>5, <2>6 DEF AudioTypeOK
<1>11. CASE StopEncoder
  <2>1. Len(<<>>) < MixedBytes
    BY EmptyBytes, ConstantsAreNumbers
  <2> QED BY <1>11, <2>1, EmptyBytes, RestingOff DEF AudioTypeOK, StopEncoder, jack, counters
<1>12. ASSUME NEW enc \in BOOLEAN, IsEncoded(enc) PROVE AudioTypeOK'
  BY <1>12 DEF AudioTypeOK, IsEncoded, rings, jack, counters, history
<1>13. CASE MuxFirst
  <2>1. encoder' \in [at : {"off", "idle", "mux"}, channels : Nat \ {0}, input : Seq(Byte)]
    BY <1>13 DEF MuxFirst, AudioTypeOK
  <2>2. Len(<<>>) < FirstBytes
    BY EmptyBytes, ConstantsAreNumbers
  <2> QED BY <1>13, <2>1, <2>2, EmptyBytes DEF AudioTypeOK, MuxFirst, jack, counters, history
<1>14. CASE EncodeFrame
  <2>1. PICK h \in Seq(Byte), x \in Seq(Byte), r1 \in Seq(Byte), r2 \in Seq(Byte), r3 \in Seq(Byte) :
           /\ encoded' = encoded \o r1 /\ m_MixedRing' = r3 /\ audio_mix_ring' = <<>>
           /\ cut' = (cut \/ Len(h) % (SampleBytes * encoder.channels) # 0)
           /\ Len(r3) < MixedBytes
    BY <1>14, EncodeSteps, Zenon
  <2>2. encoder' \in [at : {"off", "idle", "mux"}, channels : Nat \ {0}, input : Seq(Byte)]
    BY <1>14, EmptyBytes DEF EncodeFrame, AudioTypeOK
  <2>3. Len(<<>>) < MixBytes
    BY EmptyBytes, ConstantsAreNumbers
  <2>4. encoded' \in Seq(Byte) /\ cut' \in BOOLEAN
    BY <2>1, Joined DEF AudioTypeOK
  <2>5. /\ m_MixedRing' \in Seq(Byte) /\ Len(m_MixedRing') < MixedBytes
        /\ audio_mix_ring' \in Seq(Byte) /\ Len(audio_mix_ring') < MixBytes
    BY <2>1, <2>3, EmptyBytes
  <2>6. UNCHANGED <<screenRing, first, m_ringbuffer, m_ringbufferchannels, m_inbuf, wiring,
                    m_Encoded, process, decoded, heard, wirings, streams,
                    played, stale, rewired>>
    BY <1>14, Zenon DEF EncodeFrame, jack, counters
  <2> QED BY <2>2, <2>4, <2>5, <2>6 DEF AudioTypeOK
<1>15. CASE UNCHANGED audioVars
  BY <1>15 DEF AudioTypeOK, audioVars, rings, jack, counters, history
<1> QED BY <1>1, <1>2, <1>3, <1>4, <1>5, <1>6, <1>7, <1>8, <1>9, <1>10, <1>11, <1>12, <1>13,
           <1>14, <1>15, Zenon DEF AudioNext

\* No ring of the sound ever holds as much as its size, whatever is written to it,
\* and numbers of channels stay within those of the movie (ringbuffer.cpp:228-229,
\* video_layer.cpp:541, audio_jack.cpp:162-272, oggtheora_encoder.cpp:197-342).
THEOREM RingsHaveRoom == AudioSpec => []AudioTypeOK
BY AudioInitType, AudioStepType, PTL DEF AudioSpec

-----------------------------------------------------------------------------
(* Jack's thread uses what it was given *)

\* Where nothing is held: Process outside its read and its output, the mixed ring
\* without an encoder, the input outside Mux.
PlacesInv ==
  /\ process.at \in {"idle", "test", "read"} => process.data = <<>>
  /\ encoder.at = "off" => m_MixedRing = <<>>
  /\ encoder.at # "mux" => encoder.input = <<>>

\* It holds at the beginning,
LEMMA PlacesInit == AudioInit => PlacesInv
BY RestingOff DEF AudioInit, PlacesInv

\* and after every step.
LEMMA PlacesStep == AudioTypeOK /\ PlacesInv /\ [AudioNext]_audioVars => PlacesInv'
<1> SUFFICES ASSUME AudioTypeOK, PlacesInv, [AudioNext]_audioVars PROVE PlacesInv'
  OBVIOUS
<1>1. ASSUME UNCHANGED <<process, encoder, m_MixedRing>> PROVE PlacesInv'
  BY <1>1 DEF PlacesInv
<1>2. ASSUME NEW frames \in Packets, Feed(frames) PROVE PlacesInv'
  BY <1>1, <1>2 DEF Feed
<1>3. CASE ForgetRing
  BY <1>1, <1>3 DEF ForgetRing, rings
<1>4. CASE FreeInbuf
  BY <1>1, <1>4 DEF FreeInbuf, rings
<1>5. CASE NewInbuf
  BY <1>1, <1>5 DEF NewInbuf, rings
<1>6. CASE PublishRing
  BY <1>1, <1>6 DEF PublishRing, rings
<1>7. ASSUME NEW connected \in BOOLEAN, ProcessInputs(connected) PROVE PlacesInv'
  BY <1>7 DEF PlacesInv, ProcessInputs
<1>8. CASE ProcessTestRing
  BY <1>8, RestingOff DEF PlacesInv, ProcessTestRing, AudioTypeOK, rings
<1>9. CASE ProcessRead
  <2>1. process' = Resting \/ process'.at \in {"output", "broken"}
    BY <1>9 DEF ProcessRead, AudioTypeOK
  <2> QED BY <1>9, <2>1, RestingOff DEF PlacesInv, ProcessRead
<1>10. CASE ProcessOutput
  <2>1. process' = Resting \/ process'.at = "broken"
    BY <1>10 DEF ProcessOutput, AudioTypeOK
  <2> QED BY <1>10, <2>1, RestingOff DEF PlacesInv, ProcessOutput
<1>11. CASE AddEncoder
  BY <1>11 DEF PlacesInv, AddEncoder
<1>12. CASE StopEncoder
  BY <1>12, RestingOff DEF PlacesInv, StopEncoder
<1>13. ASSUME NEW enc \in BOOLEAN, IsEncoded(enc) PROVE PlacesInv'
  BY <1>1, <1>13 DEF IsEncoded, rings
<1>14. CASE MuxFirst
  BY <1>14 DEF PlacesInv, MuxFirst, AudioTypeOK
<1>15. CASE EncodeFrame
  <2>1. encoder'.at = "idle" /\ encoder'.input = <<>> /\ process' = process
    BY <1>15 DEF EncodeFrame, AudioTypeOK
  <2> QED BY <2>1 DEF PlacesInv
<1>16. CASE UNCHANGED audioVars
  BY <1>1, <1>16 DEF audioVars, rings
<1> QED BY <1>2, <1>3, <1>4, <1>5, <1>6, <1>7, <1>8, <1>9, <1>10, <1>11, <1>12, <1>13,
           <1>14, <1>15, <1>16, Zenon DEF AudioNext

\* Jack has the ring only when the wiring is done; a Process beyond its test has it
\* still, with the buffer it filled, unless it was rewired meanwhile.
WiringInv ==
  /\ m_ringbuffer => /\ wiring = "idle" /\ m_inbuf \in {"new", "filled"}
                     /\ m_ringbufferchannels = Channels
  /\ wiring = "publish" => m_inbuf = "new" /\ m_ringbufferchannels = Channels
  /\ ~rewired => /\ process.at \in {"read", "output"} => m_ringbuffer
                 /\ process.at = "output" => m_inbuf = "filled"
                 /\ process.at # "broken"

\* It holds at the beginning,
LEMMA WiringInit == AudioInit => WiringInv
BY RestingOff DEF AudioInit, WiringInv

\* and after every step.
LEMMA WiringStep == AudioTypeOK /\ WiringInv /\ [AudioNext]_audioVars => WiringInv'
<1> SUFFICES ASSUME AudioTypeOK, WiringInv, [AudioNext]_audioVars PROVE WiringInv'
  OBVIOUS
<1>1. ASSUME UNCHANGED <<jack, process, rewired>> PROVE WiringInv'
  BY <1>1 DEF WiringInv, jack
<1>2. ASSUME NEW frames \in Packets, Feed(frames) PROVE WiringInv'
  BY <1>1, <1>2 DEF Feed
<1>3. CASE ForgetRing
  BY <1>3 DEF WiringInv, ForgetRing, AudioTypeOK
<1>4. CASE FreeInbuf
  BY <1>4 DEF WiringInv, FreeInbuf, AudioTypeOK, history
<1>5. CASE NewInbuf
  BY <1>5 DEF WiringInv, NewInbuf, AudioTypeOK, history
<1>6. CASE PublishRing
  BY <1>6 DEF WiringInv, PublishRing, AudioTypeOK, history
<1>7. ASSUME NEW connected \in BOOLEAN, ProcessInputs(connected) PROVE WiringInv'
  BY <1>7 DEF WiringInv, ProcessInputs, jack, history
<1>8. CASE ProcessTestRing
  <2>1. \/ process' = Resting
        \/ m_ringbuffer /\ process'.at = "read"
    BY <1>8 DEF ProcessTestRing, AudioTypeOK
  <2> QED BY <1>8, <2>1, RestingOff DEF WiringInv, ProcessTestRing, jack
<1>9. CASE ProcessRead
  <2>1. process.at = "read"
    BY <1>9 DEF ProcessRead
  <2>2. CASE ~m_ringbuffer \/ m_inbuf \notin {"new", "filled"}
    <3>1. rewired
      BY <2>1, <2>2 DEF WiringInv, AudioTypeOK
    <3> QED BY <1>9, <2>2, <3>1 DEF WiringInv, ProcessRead
  <2>3. CASE m_ringbuffer /\ m_inbuf \in {"new", "filled"}
    <3>1. \/ process' = Resting /\ m_inbuf' = m_inbuf
          \/ process'.at = "output" /\ m_inbuf' = "filled"
      BY <1>9, <2>3 DEF ProcessRead, AudioTypeOK
    <3> QED BY <1>9, <2>3, <3>1, RestingOff DEF WiringInv, ProcessRead
  <2> QED BY <2>2, <2>3
<1>10. CASE ProcessOutput
  <2>1. process.at = "output"
    BY <1>10 DEF ProcessOutput
  <2>2. CASE m_inbuf # "filled"
    <3>1. rewired
      BY <2>1, <2>2 DEF WiringInv, AudioTypeOK
    <3> QED BY <1>10, <3>1 DEF WiringInv, ProcessOutput, jack
  <2>3. CASE m_inbuf = "filled"
    <3>1. process' = Resting
      BY <1>10, <2>3 DEF ProcessOutput
    <3> QED BY <1>10, <3>1, RestingOff DEF WiringInv, ProcessOutput, jack
  <2> QED BY <2>2, <2>3
<1>11. CASE AddEncoder
  BY <1>1, <1>11 DEF AddEncoder, history
<1>12. CASE StopEncoder
  BY <1>1, <1>12 DEF StopEncoder
<1>13. ASSUME NEW enc \in BOOLEAN, IsEncoded(enc) PROVE WiringInv'
  BY <1>1, <1>13 DEF IsEncoded, history
<1>14. CASE MuxFirst
  BY <1>1, <1>14 DEF MuxFirst, history
<1>15. CASE EncodeFrame
  BY <1>1, <1>15 DEF EncodeFrame
<1>16. CASE UNCHANGED audioVars
  BY <1>1, <1>16 DEF audioVars, history
<1> QED BY <1>2, <1>3, <1>4, <1>5, <1>6, <1>7, <1>8, <1>9, <1>10, <1>11, <1>12, <1>13,
           <1>14, <1>15, <1>16, Zenon DEF AudioNext

\* JackClient::Process works on a ring that it was given and a buffer that it owns,
\* unless SetRingbufferPtr is called again while it runs (audio_jack.cpp:274-293).
THEOREM ProcessUsesWhatItHas == AudioSpec => []UsesWhatItWasGiven
<1>1. AudioInit => AudioTypeOK /\ WiringInv
  BY AudioInitType, WiringInit
<1>2. AudioTypeOK /\ WiringInv /\ [AudioNext]_audioVars => AudioTypeOK' /\ WiringInv'
  BY AudioStepType, WiringStep
<1>3. AudioTypeOK /\ WiringInv => UsesWhatItWasGiven
  BY DEF AudioTypeOK, WiringInv, UsesWhatItWasGiven
<1> QED BY <1>1, <1>2, <1>3, PTL DEF AudioSpec

-----------------------------------------------------------------------------
(* The movie goes through as through one queue *)

\* What Vorbis was given, the mixed ring, the ring to the encoder, what Process has
\* in hand and the ring of the screen: each earlier in the movie than the next.
Chain(E, M, A, D, S) ==
  /\ AllEarlier(E, M) /\ AllEarlier(E, A) /\ AllEarlier(E, D) /\ AllEarlier(E, S)
  /\ AllEarlier(M, A) /\ AllEarlier(M, D) /\ AllEarlier(M, S)
  /\ AllEarlier(A, D) /\ AllEarlier(A, S)
  /\ AllEarlier(D, S)

\* The bytes that were decoded.
Decoded == (1 .. decoded) \X (0 .. SampleBytes - 1)

\* Each of the five is in order, one after the other, and together they are all
\* that was decoded and not given up.
MovieInv ==
  /\ InMoviesOrder(encoded) /\ InMoviesOrder(m_MixedRing) /\ InMoviesOrder(audio_mix_ring)
  /\ InMoviesOrder(process.data) /\ InMoviesOrder(screenRing)
  /\ Chain(Of(encoded), Of(m_MixedRing), Of(audio_mix_ring), Of(process.data), Of(screenRing))
  /\ Of(encoded) \cup Of(m_MixedRing) \cup Of(audio_mix_ring) \cup Of(process.data)
       \cup Of(screenRing) = Decoded \ lost
  /\ lost \subseteq Decoded

\* Bytes are compared by numbers.
LEMMA DecodedPairs == decoded \in Nat => Decoded \subseteq Nat \X Nat
BY ConstantsAreNumbers DEF Decoded

\* It holds at the beginning;
LEMMA MovieInit == AudioInit => MovieInv
<1> SUFFICES ASSUME AudioInit PROVE MovieInv
  OBVIOUS
<1>1. /\ encoded = <<>> /\ m_MixedRing = <<>> /\ audio_mix_ring = <<>> /\ process.data = <<>>
      /\ screenRing = <<>> /\ lost = {} /\ decoded = 0
  BY RestingOff DEF AudioInit
<1>2. Decoded = {}
  BY <1>1 DEF Decoded
<1>3. Chain({}, {}, {}, {}, {})
  BY EarlierUnions DEF Chain
<1> QED BY <1>1, <1>2, <1>3, EmptyBytes DEF MovieInv

\* a packet is later than all before it;
LEMMA FeedKeepsMovie ==
  ASSUME AudioTypeOK, MovieInv, NEW frames \in Packets, Feed(frames)
  PROVE  MovieInv'
<1>1. PICK h \in Seq(Byte), x \in Seq(Byte) :
        /\ Movie(decoded + 1, decoded + frames * Channels) = h \o x
        /\ screenRing' = screenRing \o h
        /\ lost' = lost \cup Of(x)
        /\ decoded' = decoded + frames * Channels /\ frames * Channels \in Nat
  BY FeedSteps, Zenon
<1> DEFINE n == frames * Channels
           New == (decoded + 1 .. decoded + n) \X (0 .. SampleBytes - 1)
<1>2. n \in Nat /\ decoded \in Nat /\ decoded' = decoded + n /\ SampleBytes \in Nat \ {0}
  BY <1>1, ConstantsAreNumbers DEF AudioTypeOK
<1>3. InMoviesOrder(h \o x) /\ Of(h \o x) = New
  <2>1. decoded + 1 \in Nat \ {0} /\ decoded + n = decoded + 1 + n - 1
    BY <1>2
  <2> QED BY <2>1, <1>1, <1>2, MovieInOrder
<1>4. /\ InMoviesOrder(h) /\ Of(h) \cup Of(x) = New /\ AllEarlier(Of(h), Of(x))
  BY <1>3, OrderJoined, OfJoined
<1> HIDE DEF n
<1>5. AllEarlier(Decoded, New)
  BY <1>2 DEF AllEarlier, Decoded
<1>6. Decoded' = Decoded \cup New
  <2>1. Decoded' = (1 .. decoded + n) \X (0 .. SampleBytes - 1)
    BY <1>2 DEF Decoded
  <2> QED BY <1>2, <2>1 DEF Decoded
<1>7. Decoded \subseteq Nat \X Nat /\ New \subseteq Nat \X Nat
  BY <1>2, DecodedPairs
<1> HIDE DEF New
<1>8. Decoded \cap New = {} /\ Of(h) \cap Of(x) = {}
  BY <1>4, <1>5, <1>7, EarlierIsApart
<1> DEFINE E == Of(encoded)
           M == Of(m_MixedRing)
           A == Of(audio_mix_ring)
           D == Of(process.data)
           S == Of(screenRing)
<1>9. /\ E \cup M \cup A \cup D \cup S = Decoded \ lost /\ lost \subseteq Decoded
      /\ Chain(E, M, A, D, S) /\ InMoviesOrder(screenRing)
      /\ screenRing \in Seq(Byte)
  BY DEF MovieInv, AudioTypeOK
<1>10. /\ UNCHANGED <<encoded, m_MixedRing, audio_mix_ring, process>>
  BY DEF Feed
<1>11. Of(screenRing') = S \cup Of(h)
  BY <1>1, <1>9, OfJoined
<1> HIDE DEF E, M, A, D, S
<1>12. /\ AllEarlier(E, Of(h)) /\ AllEarlier(M, Of(h)) /\ AllEarlier(A, Of(h))
       /\ AllEarlier(D, Of(h)) /\ AllEarlier(S, Of(h))
  <2>1. /\ E \subseteq Decoded /\ M \subseteq Decoded /\ A \subseteq Decoded
        /\ D \subseteq Decoded /\ S \subseteq Decoded /\ Of(h) \subseteq New
    BY <1>4, <1>9
  <2> QED BY <2>1, <1>5, EarlierShrinks
<1>13. InMoviesOrder(screenRing')
  BY <1>1, <1>4, <1>9, <1>12, OrderJoined DEF S
<1>14. Chain(E, M, A, D, S \cup Of(h))
  BY <1>9, <1>12, EarlierUnions DEF Chain
<1>15. /\ E \cup M \cup A \cup D \cup (S \cup Of(h)) = Decoded' \ lost'
       /\ lost' \subseteq Decoded'
  BY <1>1, <1>4, <1>6, <1>8, <1>9
<1> QED BY <1>10, <1>11, <1>13, <1>14, <1>15, Zenon DEF MovieInv, E, M, A, D

\* a period passes from the ring to Process, whose hands were empty;
LEMMA ReadKeepsMovie ==
  ASSUME AudioTypeOK, PlacesInv, MovieInv, ProcessRead
  PROVE  MovieInv'
<1>0. /\ UNCHANGED <<encoded, m_MixedRing, audio_mix_ring, decoded, lost>> /\ Decoded' = Decoded
      /\ process.data = <<>>
  BY DEF ProcessRead, counters, PlacesInv, Decoded
<1>1. CASE process'.data = process.data /\ screenRing' = screenRing
  BY <1>0, <1>1, Zenon DEF MovieInv
<1>2. ASSUME NEW d \in Seq(Byte), NEW r \in Seq(Byte), screenRing = d \o r,
             screenRing' = r, process'.data = d
      PROVE  MovieInv'
  <2>1. /\ InMoviesOrder(d) /\ InMoviesOrder(r) /\ AllEarlier(Of(d), Of(r))
        /\ Of(screenRing) = Of(d) \cup Of(r)
    BY <1>2, OrderJoined, OfJoined DEF MovieInv
  <2> DEFINE E == Of(encoded)
             M == Of(m_MixedRing)
             A == Of(audio_mix_ring)
  <2>2. /\ E \cup M \cup A \cup {} \cup (Of(d) \cup Of(r)) = Decoded \ lost
        /\ Chain(E, M, A, {}, Of(d) \cup Of(r))
    BY <1>0, <2>1, EmptyBytes, Zenon DEF MovieInv
  <2> HIDE DEF E, M, A
  <2>3. /\ Chain(E, M, A, Of(d), Of(r))
        /\ E \cup M \cup A \cup Of(d) \cup Of(r) = Decoded \ lost
    BY <2>1, <2>2, EarlierUnions DEF Chain
  <2> QED BY <1>0, <1>2, <2>1, <2>3, Zenon DEF MovieInv, E, M, A
<1>3. CASE ~m_ringbuffer \/ m_inbuf \notin {"new", "filled"}
  BY <1>1, <1>3 DEF ProcessRead, AudioTypeOK
<1>4. CASE m_ringbuffer /\ m_inbuf \in {"new", "filled"} /\ Len(screenRing) < PeriodBytes
  BY <1>0, <1>1, <1>4, RestingOff DEF ProcessRead
<1>5. CASE m_ringbuffer /\ m_inbuf \in {"new", "filled"} /\ ~(Len(screenRing) < PeriodBytes)
  <2>1. PICK d \in Seq(Byte), r \in Seq(Byte) :
          /\ screenRing = d \o r /\ screenRing' = r
          /\ process' = [process EXCEPT !.at = "output", !.data = d]
    BY <1>5, ReadSteps, Zenon
  <2>2. process'.data = d
    BY <2>1 DEF AudioTypeOK
  <2> QED BY <2>1, <2>2, <1>2
<1> QED BY <1>3, <1>4, <1>5, Zenon

\* from there to the encoder, or is given up;
LEMMA OutputKeepsMovie ==
  ASSUME AudioTypeOK, MovieInv, ProcessOutput
  PROVE  MovieInv'
<1>0. /\ UNCHANGED <<encoded, m_MixedRing, screenRing, decoded>> /\ Decoded' = Decoded
      /\ audio_mix_ring \in Seq(Byte) /\ process.data \in Seq(Byte)
      /\ Decoded \subseteq Nat \X Nat
  BY DecodedPairs DEF ProcessOutput, counters, Decoded, AudioTypeOK
<1>1. CASE m_inbuf # "filled"
  <2>1. process'.data = process.data /\ audio_mix_ring' = audio_mix_ring /\ lost' = lost
    BY <1>1 DEF ProcessOutput, AudioTypeOK
  <2> QED BY <2>1, <1>0, Zenon DEF MovieInv
<1>2. CASE m_inbuf = "filled"
  <2> DEFINE E == Of(encoded)
             M == Of(m_MixedRing)
             A == Of(audio_mix_ring)
             D == Of(process.data)
             S == Of(screenRing)
  <2>0. process'.data = <<>>
    BY <1>2, OutputSteps, RestingOff
  <2>1. /\ E \cup M \cup A \cup D \cup S = Decoded \ lost /\ Chain(E, M, A, D, S)
        /\ lost \subseteq Decoded
        /\ InMoviesOrder(audio_mix_ring) /\ InMoviesOrder(process.data)
    BY DEF MovieInv
  <2>2. CASE audio_mix_ring' = audio_mix_ring \o process.data /\ lost' = lost
    <3>1. InMoviesOrder(audio_mix_ring') /\ Of(audio_mix_ring') = A \cup D
      BY <1>0, <2>1, <2>2, OrderJoined, OfJoined DEF Chain
    <3> HIDE DEF E, M, A, D, S
    <3>2. /\ Chain(E, M, A \cup D, {}, S)
          /\ E \cup M \cup (A \cup D) \cup {} \cup S = Decoded \ lost
      BY <2>1, EarlierUnions DEF Chain
    <3> QED BY <1>0, <2>0, <2>1, <2>2, <3>1, <3>2, EmptyBytes, Zenon DEF MovieInv, E, M, S
  <2>3. CASE audio_mix_ring' = audio_mix_ring /\ lost' = lost \cup D
    <3> HIDE DEF E, M, A, D, S
    <3>1. /\ Chain(E, M, A, {}, S)
          /\ D \subseteq Decoded
      BY <2>1, EarlierUnions DEF Chain
    <3>2. E \cap D = {} /\ M \cap D = {} /\ A \cap D = {} /\ D \cap S = {}
      <4>1. /\ E \subseteq Nat \X Nat /\ M \subseteq Nat \X Nat /\ A \subseteq Nat \X Nat
            /\ D \subseteq Nat \X Nat
        BY <2>1, <1>0
      <4> QED BY <4>1, <2>1, EarlierIsApart DEF Chain
    <3>3. /\ E \cup M \cup A \cup {} \cup S = Decoded \ (lost \cup D)
          /\ lost \cup D \subseteq Decoded
      BY <2>1, <3>1, <3>2
    <3> QED BY <1>0, <2>0, <2>1, <2>3, <3>1, <3>3, EmptyBytes, Zenon DEF MovieInv, E, M, A, S
  <2> QED BY <1>2, <2>2, <2>3, OutputSteps, Zenon
<1> QED BY <1>1, <1>2

\* a stream that ends gives up what was mixed and not encoded;
LEMMA StopKeepsMovie ==
  ASSUME AudioTypeOK, MovieInv, StopEncoder
  PROVE  MovieInv'
<1>0. /\ UNCHANGED <<encoded, audio_mix_ring, process, screenRing, decoded>> /\ Decoded' = Decoded
      /\ m_MixedRing' = <<>> /\ lost' = lost \cup Of(m_MixedRing)
      /\ Decoded \subseteq Nat \X Nat
  BY DecodedPairs DEF StopEncoder, counters, Decoded, AudioTypeOK
<1> DEFINE E == Of(encoded)
           M == Of(m_MixedRing)
           A == Of(audio_mix_ring)
           D == Of(process.data)
           S == Of(screenRing)
<1>1. /\ E \cup M \cup A \cup D \cup S = Decoded \ lost /\ Chain(E, M, A, D, S)
      /\ lost \subseteq Decoded
  BY DEF MovieInv
<1> HIDE DEF E, M, A, D, S
<1>2. Chain(E, {}, A, D, S) /\ M \subseteq Decoded
  BY <1>1, EarlierUnions DEF Chain
<1>3. E \cap M = {} /\ M \cap A = {} /\ M \cap D = {} /\ M \cap S = {}
  <2>1. E \subseteq Nat \X Nat /\ M \subseteq Nat \X Nat
    BY <1>1, <1>0
  <2> QED BY <2>1, <1>1, EarlierIsApart DEF Chain
<1>4. /\ E \cup {} \cup A \cup D \cup S = Decoded \ (lost \cup M)
      /\ lost \cup M \subseteq Decoded
  BY <1>1, <1>2, <1>3
<1> QED BY <1>0, <1>2, <1>4, EmptyBytes, Zenon DEF MovieInv, E, M, A, D, S

\* what is mixed comes behind what was mixed, what Vorbis is given behind what it
\* was given;
LEMMA EncodeKeepsMovie ==
  ASSUME AudioTypeOK, MovieInv, EncodeFrame
  PROVE  MovieInv'
<1>0. /\ UNCHANGED <<process, screenRing, decoded>> /\ Decoded' = Decoded
      /\ Decoded \subseteq Nat \X Nat
      /\ encoded \in Seq(Byte) /\ m_MixedRing \in Seq(Byte) /\ audio_mix_ring \in Seq(Byte)
      /\ encoder.channels \in Nat /\ encoder.input \in Seq(Byte)
  BY DecodedPairs DEF EncodeFrame, counters, Decoded, AudioTypeOK
<1>1. PICK h \in Seq(Byte), x \in Seq(Byte), r1 \in Seq(Byte), r2 \in Seq(Byte), r3 \in Seq(Byte) :
        /\ Mixture = h \o x /\ m_MixedRing \o h = (r1 \o r2) \o r3
        /\ encoded' = encoded \o r1 /\ m_MixedRing' = r3 /\ audio_mix_ring' = <<>>
        /\ lost' = lost \cup Of(x) \cup Of(r2)
  BY EncodeSteps, Zenon
<1> DEFINE E == Of(encoded)
           M == Of(m_MixedRing)
           A == Of(audio_mix_ring)
           D == Of(process.data)
           S == Of(screenRing)
<1>2. /\ E \cup M \cup A \cup D \cup S = Decoded \ lost /\ Chain(E, M, A, D, S)
      /\ lost \subseteq Decoded /\ InMoviesOrder(audio_mix_ring) /\ InMoviesOrder(m_MixedRing)
      /\ InMoviesOrder(encoded)
  BY DEF MovieInv
<1>3. /\ A = Of(h) \cup Of(x) /\ InMoviesOrder(h) /\ AllEarlier(Of(h), Of(x))
  <2>1. Of(h \o x) = A /\ InMoviesOrder(h \o x)
    BY <1>0, <1>1, <1>2, MixtureValues
  <2> QED BY <2>1, OfJoined, OrderJoined
<1> HIDE DEF E, A, D, S
<1>4. AllEarlier(M, Of(h)) /\ AllEarlier(E, M \cup Of(h))
  <2>1. AllEarlier(M, A) /\ AllEarlier(E, M) /\ AllEarlier(E, A)
    BY <1>2, Zenon DEF Chain
  <2>2. AllEarlier(M, Of(h)) /\ AllEarlier(E, Of(h))
    BY <2>1, <1>3, EarlierShrinks
  <2> QED BY <2>1, <2>2, EarlierUnions, Zenon
<1>5. /\ M \cup Of(h) = Of(r1) \cup Of(r2) \cup Of(r3)
      /\ InMoviesOrder(r1) /\ InMoviesOrder(r3)
      /\ AllEarlier(Of(r1), Of(r2) \cup Of(r3)) /\ AllEarlier(Of(r2), Of(r3))
  <2>2. InMoviesOrder(m_MixedRing \o h) /\ Of(m_MixedRing \o h) = M \cup Of(h)
    BY <1>0, <1>2, <1>3, <1>4, OrderJoined, OfJoined
  <2>3. r1 \o r2 \in Seq(Byte)
    BY Joined
  <2>4. /\ InMoviesOrder(r1 \o r2) /\ InMoviesOrder(r3) /\ AllEarlier(Of(r1 \o r2), Of(r3))
        /\ Of(m_MixedRing \o h) = Of(r1 \o r2) \cup Of(r3)
    BY <2>2, <2>3, <1>1, OrderJoined, OfJoined
  <2>5. /\ InMoviesOrder(r1) /\ AllEarlier(Of(r1), Of(r2)) /\ Of(r1 \o r2) = Of(r1) \cup Of(r2)
    BY <2>4, OrderJoined, OfJoined
  <2>6. AllEarlier(Of(r1), Of(r3)) /\ AllEarlier(Of(r2), Of(r3))
    <3>1. AllEarlier(Of(r1) \cup Of(r2), Of(r3))
      BY <2>4, <2>5
    <3> QED BY <3>1, EarlierUnions, Zenon
  <2>7. AllEarlier(Of(r1), Of(r2) \cup Of(r3))
    BY <2>5, <2>6, EarlierUnions, Zenon
  <2> QED BY <2>2, <2>4, <2>5, <2>6, <2>7, Zenon
<1>6. InMoviesOrder(encoded') /\ Of(encoded') = E \cup Of(r1)
  <2>1. AllEarlier(E, Of(r1))
    BY <1>4, <1>5, EarlierShrinks
  <2> QED BY <2>1, <1>0, <1>1, <1>2, <1>5, OrderJoined, OfJoined DEF E
<1> HIDE DEF M
<1>7. /\ Chain(E \cup Of(r1), Of(r3), {}, D, S)
      /\ (E \cup Of(r1)) \cup Of(r3) \cup {} \cup D \cup S
            = (E \cup M \cup A \cup D \cup S) \ (Of(x) \cup Of(r2))
  <2>1. E \in SUBSET (Nat \X Nat) /\ M \in SUBSET (Nat \X Nat) /\ A \in SUBSET (Nat \X Nat)
    BY <1>0, <1>2
  <2> DEFINE X1 == Of(h)
             X2 == Of(x)
             R1 == Of(r1)
             R2 == Of(r2)
             R3 == Of(r3)
  <2>2. /\ Chain(E, M, A, D, S) /\ A = X1 \cup X2 /\ M \cup X1 = R1 \cup R2 \cup R3
        /\ AllEarlier(X1, X2) /\ AllEarlier(R1, R2 \cup R3) /\ AllEarlier(R2, R3)
    BY <1>2, <1>3, <1>5, Zenon
  <2> HIDE DEF X1, X2, R1, R2, R3
  <2>3. /\ R1 \subseteq M \cup X1 /\ R2 \subseteq M \cup X1 /\ R3 \subseteq M \cup X1
        /\ X2 \subseteq A /\ R2 \subseteq R2 \cup R3
        /\ R1 \in SUBSET (Nat \X Nat) /\ R2 \in SUBSET (Nat \X Nat)
        /\ R3 \in SUBSET (Nat \X Nat) /\ X2 \in SUBSET (Nat \X Nat)
    BY <2>1, <2>2
  <2>4. /\ AllEarlier(E, M \cup X1) /\ AllEarlier(M \cup X1, D) /\ AllEarlier(M \cup X1, S)
        /\ AllEarlier(M \cup X1, X2) /\ AllEarlier(E, A) /\ AllEarlier(A, D) /\ AllEarlier(A, S)
        /\ AllEarlier(E, D) /\ AllEarlier(E, S) /\ AllEarlier(D, S)
    <3>1. /\ AllEarlier(E, M) /\ AllEarlier(E, A) /\ AllEarlier(M, A) /\ AllEarlier(A, D)
          /\ AllEarlier(A, S) /\ AllEarlier(M, D) /\ AllEarlier(M, S)
          /\ AllEarlier(E, D) /\ AllEarlier(E, S) /\ AllEarlier(D, S) /\ AllEarlier(X1, X2)
      BY <2>2, Zenon DEF Chain
    <3>2. /\ AllEarlier(E, X1) /\ AllEarlier(X1, D) /\ AllEarlier(X1, S) /\ AllEarlier(M, X2)
      BY <3>1, <2>2, EarlierShrinks
    <3> QED BY <3>1, <3>2, EarlierUnions, Zenon
  <2>5. /\ AllEarlier(E, R1) /\ AllEarlier(E, R2) /\ AllEarlier(E, R3) /\ AllEarlier(E, X2)
    BY <2>3, <2>4, EarlierShrinks
  <2>6. /\ AllEarlier(R1, D) /\ AllEarlier(R2, D) /\ AllEarlier(R3, D) /\ AllEarlier(X2, D)
        /\ AllEarlier(R1, S) /\ AllEarlier(R2, S) /\ AllEarlier(R3, S) /\ AllEarlier(X2, S)
    BY <2>3, <2>4, EarlierShrinks
  <2>7. /\ AllEarlier(R1, X2) /\ AllEarlier(R2, X2) /\ AllEarlier(R3, X2)
        /\ AllEarlier(R1, R2) /\ AllEarlier(R1, R3) /\ AllEarlier(R2, R3)
    BY <2>2, <2>3, <2>4, EarlierShrinks
  <2>8. Chain(E \cup R1, R3, {}, D, S)
    BY <2>4, <2>5, <2>6, <2>7, EarlierUnions, Zenon DEF Chain
  <2>9. /\ E \cap X2 = {} /\ R1 \cap X2 = {} /\ R3 \cap X2 = {} /\ X2 \cap D = {} /\ X2 \cap S = {}
    BY <2>1, <2>3, <2>5, <2>6, <2>7, EarlierIsApart
  <2>10. /\ E \cap R2 = {} /\ R1 \cap R2 = {} /\ R2 \cap R3 = {} /\ R2 \cap D = {} /\ R2 \cap S = {}
    BY <2>1, <2>3, <2>5, <2>6, <2>7, EarlierIsApart
  <2>11. (E \cup R1) \cup R3 \cup {} \cup D \cup S = (E \cup M \cup A \cup D \cup S) \ (X2 \cup R2)
    BY <2>2, <2>9, <2>10
  <2> QED BY <2>8, <2>11, Zenon DEF X2, R1, R2, R3
<1>8. /\ (E \cup Of(r1)) \cup Of(r3) \cup {} \cup D \cup S = Decoded \ lost'
      /\ lost' \subseteq Decoded
  <2>1. Of(x) \subseteq Decoded /\ Of(r2) \subseteq Decoded
    BY <1>2, <1>3, <1>5
  <2> QED BY <1>1, <1>2, <1>7, <2>1
<1>9. InMoviesOrder(process.data) /\ InMoviesOrder(screenRing)
  BY DEF MovieInv
<1> QED BY <1>0, <1>1, <1>5, <1>6, <1>7, <1>8, <1>9, EmptyBytes, Zenon DEF MovieInv, D, S

\* so it holds after every step.
LEMMA MovieStep == AudioTypeOK /\ PlacesInv /\ MovieInv /\ [AudioNext]_audioVars => MovieInv'
<1> SUFFICES ASSUME AudioTypeOK, PlacesInv, MovieInv, [AudioNext]_audioVars PROVE MovieInv'
  OBVIOUS
<1>1. ASSUME UNCHANGED <<encoded, m_MixedRing, audio_mix_ring, screenRing, decoded, lost>>,
             process'.data = process.data
      PROVE  MovieInv'
  <2>1. Decoded' = Decoded
    BY <1>1 DEF Decoded
  <2> QED BY <1>1, <2>1, Zenon DEF MovieInv
<1>2. ASSUME NEW frames \in Packets, Feed(frames) PROVE MovieInv'
  BY <1>2, FeedKeepsMovie
<1>3. CASE ForgetRing
  BY <1>1, <1>3 DEF ForgetRing, rings
<1>4. CASE FreeInbuf
  BY <1>1, <1>4 DEF FreeInbuf, rings, counters, history
<1>5. CASE NewInbuf
  BY <1>1, <1>5 DEF NewInbuf, rings, counters, history
<1>6. CASE PublishRing
  BY <1>1, <1>6 DEF PublishRing, rings, counters, history
<1>7. ASSUME NEW connected \in BOOLEAN, ProcessInputs(connected) PROVE MovieInv'
  BY <1>1, <1>7 DEF ProcessInputs, PlacesInv, history
<1>8. CASE ProcessTestRing
  <2>1. process'.data = process.data
    BY <1>8, RestingOff DEF ProcessTestRing, PlacesInv, AudioTypeOK
  <2> QED BY <1>1, <1>8, <2>1 DEF ProcessTestRing, rings, counters
<1>9. CASE ProcessRead
  BY <1>9, ReadKeepsMovie
<1>10. CASE ProcessOutput
  BY <1>10, OutputKeepsMovie
<1>11. CASE AddEncoder
  BY <1>1, <1>11 DEF AddEncoder, PlacesInv, history
<1>12. CASE StopEncoder
  BY <1>12, StopKeepsMovie
<1>13. ASSUME NEW enc \in BOOLEAN, IsEncoded(enc) PROVE MovieInv'
  BY <1>1, <1>13 DEF IsEncoded, rings, counters, history
<1>14. CASE MuxFirst
  BY <1>1, <1>14 DEF MuxFirst, counters, history
<1>15. CASE EncodeFrame
  BY <1>15, EncodeKeepsMovie
<1>16. CASE UNCHANGED audioVars
  BY <1>1, <1>16 DEF audioVars, rings, counters, history
<1> QED BY <1>2, <1>3, <1>4, <1>5, <1>6, <1>7, <1>8, <1>9, <1>10, <1>11, <1>12, <1>13,
           <1>14, <1>15, <1>16, Zenon DEF AudioNext

\* And the five, one behind the other, are as the property wants them.
LEMMA OnTheWayInOrder ==
  ASSUME AudioTypeOK, MovieInv
  PROVE  InMoviesOrder(OnTheWay) /\ Of(OnTheWay) = Of(Movie(1, decoded)) \ lost
<1> DEFINE two == encoded \o m_MixedRing
           three == two \o audio_mix_ring
           four == three \o process.data
           E == Of(encoded)
           M == Of(m_MixedRing)
           A == Of(audio_mix_ring)
           D == Of(process.data)
           S == Of(screenRing)
<1>1. /\ encoded \in Seq(Byte) /\ m_MixedRing \in Seq(Byte) /\ audio_mix_ring \in Seq(Byte)
      /\ process.data \in Seq(Byte) /\ screenRing \in Seq(Byte)
  BY DEF AudioTypeOK
<1>2. /\ Chain(E, M, A, D, S) /\ E \cup M \cup A \cup D \cup S = Decoded \ lost
      /\ InMoviesOrder(encoded) /\ InMoviesOrder(m_MixedRing) /\ InMoviesOrder(audio_mix_ring)
      /\ InMoviesOrder(process.data) /\ InMoviesOrder(screenRing)
  BY DEF MovieInv
<1>3. /\ AllEarlier(E, M) /\ AllEarlier(E \cup M, A) /\ AllEarlier(E \cup M \cup A, D)
      /\ AllEarlier(E \cup M \cup A \cup D, S)
  <2> HIDE DEF E, M, A, D, S
  <2>1. /\ AllEarlier(E, M)
        /\ AllEarlier(E, A) /\ AllEarlier(M, A)
        /\ AllEarlier(E, D) /\ AllEarlier(M, D) /\ AllEarlier(A, D)
        /\ AllEarlier(E, S) /\ AllEarlier(M, S) /\ AllEarlier(A, S) /\ AllEarlier(D, S)
    BY <1>2, Zenon DEF Chain
  <2>2. AllEarlier(E \cup M, A) /\ AllEarlier(E \cup M, D) /\ AllEarlier(E \cup M, S)
    BY <2>1, EarlierUnions, Zenon
  <2>3. AllEarlier(E \cup M \cup A, D) /\ AllEarlier(E \cup M \cup A, S)
    BY <2>1, <2>2, EarlierUnions, Zenon
  <2>4. AllEarlier(E \cup M \cup A \cup D, S)
    BY <2>1, <2>3, EarlierUnions, Zenon
  <2> QED BY <2>1, <2>2, <2>3, <2>4
<1>4. two \in Seq(Byte) /\ Of(two) = E \cup M /\ InMoviesOrder(two)
  BY <1>1, <1>2, <1>3, Joined, OfJoined, OrderJoined
<1> HIDE DEF two
<1>5. three \in Seq(Byte) /\ Of(three) = E \cup M \cup A /\ InMoviesOrder(three)
  <2>1. AllEarlier(Of(two), A)
    BY <1>3, <1>4
  <2>2. three \in Seq(Byte) /\ Of(three) = Of(two) \cup A
    BY <1>1, <1>4, Joined, OfJoined
  <2>3. InMoviesOrder(three)
    BY <2>1, <1>1, <1>2, <1>4, OrderJoined
  <2> QED BY <2>2, <2>3, <1>4, Zenon
<1> HIDE DEF three
<1>6. four \in Seq(Byte) /\ Of(four) = E \cup M \cup A \cup D /\ InMoviesOrder(four)
  <2>1. AllEarlier(Of(three), D)
    BY <1>3, <1>5
  <2>2. four \in Seq(Byte) /\ Of(four) = Of(three) \cup D
    BY <1>1, <1>5, Joined, OfJoined
  <2>3. InMoviesOrder(four)
    BY <2>1, <1>1, <1>2, <1>5, OrderJoined
  <2> QED BY <2>2, <2>3, <1>5, Zenon
<1> HIDE DEF four
<1>7. Of(four \o screenRing) = E \cup M \cup A \cup D \cup S /\ InMoviesOrder(four \o screenRing)
  <2>1. AllEarlier(Of(four), S)
    BY <1>3, <1>6
  <2>2. Of(four \o screenRing) = Of(four) \cup S
    BY <1>1, <1>6, OfJoined
  <2>3. InMoviesOrder(four \o screenRing)
    BY <2>1, <1>1, <1>2, <1>6, OrderJoined
  <2> QED BY <2>2, <2>3, <1>6, Zenon
<1>8. OnTheWay = four \o screenRing
  BY Zenon DEF OnTheWay, two, three, four
<1>9. Of(Movie(1, decoded)) = Decoded
  <2>1. decoded \in Nat /\ 1 \in Nat \ {0} /\ 1 + decoded - 1 = decoded
    BY DEF AudioTypeOK
  <2> QED BY <2>1, MovieInOrder DEF Decoded
<1> QED BY <1>2, <1>7, <1>8, <1>9

-----------------------------------------------------------------------------
(* The input keeps its order *)

\* The inputs in what Vorbis was given, in the mixed ring, with Mux, in their own
\* ring, and the last one that Jack delivered: none later than the next.
Row(E, M, I, F, H) ==
  /\ NoneLater(E, M) /\ NoneLater(E, I) /\ NoneLater(E, F) /\ NoneLater(E, H)
  /\ NoneLater(M, I) /\ NoneLater(M, F) /\ NoneLater(M, H)
  /\ NoneLater(I, F) /\ NoneLater(I, H)
  /\ NoneLater(F, H)

\* Each of these is in order, one after the other.
InputInv ==
  /\ InInputsOrder(encoded) /\ InInputsOrder(m_MixedRing)
  /\ InInputsOrder(encoder.input) /\ InInputsOrder(first)
  /\ Row(Inputs(encoded), Inputs(m_MixedRing), Inputs(encoder.input), Inputs(first),
         {heard * Period})

\* It holds at the beginning;
LEMMA InputInit == AudioInit => InputInv
<1> SUFFICES ASSUME AudioInit PROVE InputInv
  OBVIOUS
<1>1. encoded = <<>> /\ m_MixedRing = <<>> /\ encoder.input = <<>> /\ first = <<>>
  BY RestingOff DEF AudioInit
<1>2. Row({}, {}, {}, {}, {heard * Period})
  BY NoneLaterUnions DEF Row
<1> QED BY <1>1, <1>2, EmptyBytes DEF InputInv

\* a new period is later than all before it;
LEMMA InputsKeepOrder ==
  ASSUME AudioTypeOK, InputInv, NEW connected \in BOOLEAN, ProcessInputs(connected)
  PROVE  InputInv'
<1> DEFINE E == Inputs(encoded)
           M == Inputs(m_MixedRing)
           I == Inputs(encoder.input)
           F == Inputs(first)
           h == heard * Period
           N == Inputs(Input(heard + 1))
<1>1. /\ UNCHANGED <<encoded, m_MixedRing, encoder>>
      /\ heard' = IF connected THEN heard + 1 ELSE heard
      /\ \/ first' = first
         \/ connected /\ first' = first \o Input(heard + 1)
  <2>1. first' = first \/ (connected /\ first' = first \o Input(heard + 1))
    BY Zenon DEF ProcessInputs
  <2> QED BY <2>1, Zenon DEF ProcessInputs, history
<1>2. /\ heard \in Nat /\ Period \in Nat \ {0} /\ h \in Nat /\ first \in Seq(Byte)
      /\ E \subseteq Nat /\ M \subseteq Nat /\ I \subseteq Nat /\ F \subseteq Nat
  <2>1. /\ heard \in Nat /\ encoded \in Seq(Byte) /\ m_MixedRing \in Seq(Byte)
        /\ encoder.input \in Seq(Byte) /\ first \in Seq(Byte)
    BY DEF AudioTypeOK
  <2>2. E \subseteq Nat /\ M \subseteq Nat /\ I \subseteq Nat /\ F \subseteq Nat
    BY <2>1, InputsAreNumbers, Zenon
  <2>3. Period \in Nat \ {0} /\ h \in Nat
    BY <2>1, ConstantsAreNumbers
  <2> QED BY <2>1, <2>2, <2>3
<1>3. /\ Input(heard + 1) \in Seq(Byte) /\ InInputsOrder(Input(heard + 1))
      /\ (heard + 1) * Period \in Nat /\ h <= (heard + 1) * Period
      /\ \A x \in N : x \in Nat /\ h <= x /\ x <= (heard + 1) * Period
  <2>1. heard + 1 \in Nat \ {0} /\ heard + 1 - 1 = heard /\ (heard + 1) * Period = h + Period
    BY <1>2
  <2> DEFINE n == heard + 1
  <2>0. n \in Nat \ {0} /\ n - 1 = heard
    BY <1>2
  <2> HIDE DEF n
  <2>3. /\ Input(n) \in Seq(Byte) /\ InInputsOrder(Input(n))
        /\ \A x \in Inputs(Input(n)) : x \in Nat /\ heard * Period < x /\ x <= n * Period
    BY <2>0, InputValues
  <2>2. /\ Input(heard + 1) \in Seq(Byte) /\ InInputsOrder(Input(heard + 1))
        /\ \A x \in N : x \in Nat /\ h < x /\ x <= (heard + 1) * Period
    BY <2>3, Zenon DEF n
  <2> HIDE DEF N
  <2> HIDE DEF h
  <2> QED BY <2>1, <2>2, <1>2
<1>4. /\ InInputsOrder(encoded) /\ InInputsOrder(m_MixedRing) /\ InInputsOrder(encoder.input)
      /\ InInputsOrder(first) /\ Row(E, M, I, F, {h})
  BY DEF InputInv
<1>5. /\ NoneLater(E, {h}) /\ NoneLater(M, {h}) /\ NoneLater(I, {h}) /\ NoneLater(F, {h})
  BY <1>4, Zenon DEF Row
<1> DEFINE h2 == (heard + 1) * Period
<1>6. /\ NoneLater(E, {h2}) /\ NoneLater(M, {h2}) /\ NoneLater(I, {h2}) /\ NoneLater(F, {h2})
  <2>1. \A y \in {h2} : y \in Nat /\ h <= y
    BY <1>3
  <2> HIDE DEF E, M, I, F, h, h2
  <2> QED BY <2>1, <1>2, <1>5, LaterStill
<1>7. /\ NoneLater(E, N) /\ NoneLater(M, N) /\ NoneLater(I, N) /\ NoneLater(F, N)
      /\ NoneLater(N, {h2})
  <2> HIDE DEF E, M, I, F, h, N
  <2>1. /\ NoneLater(E, N) /\ NoneLater(M, N) /\ NoneLater(I, N) /\ NoneLater(F, N)
    BY <1>2, <1>3, <1>5, LaterStill
  <2> QED BY <2>1, <1>3 DEF NoneLater
<1>8. CASE first' = first /\ heard' = heard
  BY <1>1, <1>4, <1>8, Zenon DEF InputInv
<1>9. CASE first' = first /\ heard' = heard + 1
  <2>1. Row(E, M, I, F, {h2})
    <3> HIDE DEF E, M, I, F, h, h2
    <3> QED BY <1>4, <1>6, Zenon DEF Row
  <2> QED BY <1>1, <1>4, <1>9, <2>1, Zenon DEF InputInv
<1>10. CASE first' = first \o Input(heard + 1) /\ heard' = heard + 1
  <2>1. Inputs(first') = F \cup N /\ InInputsOrder(first')
    BY <1>2, <1>3, <1>4, <1>7, <1>10, InputsJoined
  <2>2. Row(E, M, I, F \cup N, {h2})
    <3> HIDE DEF E, M, I, F, N, h, h2
    <3> QED BY <1>4, <1>6, <1>7, NoneLaterUnions, Zenon DEF Row
  <2> QED BY <1>1, <1>4, <1>10, <2>1, <2>2, Zenon DEF InputInv
<1> QED BY <1>1, <1>8, <1>9, <1>10, Zenon

\* what is mixed in was with Mux, and is later than what was mixed in before;
LEMMA EncodeKeepsInputs ==
  ASSUME AudioTypeOK, InputInv, EncodeFrame
  PROVE  InputInv'
<1>0. /\ encoded \in Seq(Byte) /\ m_MixedRing \in Seq(Byte) /\ audio_mix_ring \in Seq(Byte)
      /\ encoder.channels \in Nat /\ encoder.input \in Seq(Byte)
      /\ first' = first /\ heard' = heard /\ encoder'.input = <<>>
  BY DEF EncodeFrame, counters, AudioTypeOK
<1>1. PICK h \in Seq(Byte), x \in Seq(Byte), r1 \in Seq(Byte), r2 \in Seq(Byte), r3 \in Seq(Byte) :
        /\ Mixture = h \o x /\ m_MixedRing \o h = (r1 \o r2) \o r3
        /\ encoded' = encoded \o r1 /\ m_MixedRing' = r3
  BY EncodeSteps, Zenon
<1> DEFINE E == Inputs(encoded)
           M == Inputs(m_MixedRing)
           I == Inputs(encoder.input)
           F == Inputs(first)
           H == {heard * Period}
           X == Inputs(h)
           R1 == Inputs(r1)
           R2 == Inputs(r2)
           R3 == Inputs(r3)
<1>2. /\ InInputsOrder(encoded) /\ InInputsOrder(m_MixedRing) /\ InInputsOrder(encoder.input)
      /\ InInputsOrder(first) /\ Row(E, M, I, F, H)
  BY DEF InputInv
<1>3. InInputsOrder(h) /\ X \subseteq I
  <2>1. InInputsOrder(h \o x) /\ Inputs(h \o x) \subseteq I
    BY <1>0, <1>1, <1>2, MixtureValues
  <2> QED BY <2>1, InputsJoined
<1>4. NoneLater(M, X) /\ NoneLater(E, X) /\ NoneLater(X, F) /\ NoneLater(X, H)
  <2> HIDE DEF E, M, I, F, H, X
  <2>1. NoneLater(M, I) /\ NoneLater(E, I) /\ NoneLater(I, F) /\ NoneLater(I, H)
    BY <1>2, Zenon DEF Row
  <2> QED BY <2>1, <1>3, NoneLaterShrinks
<1>5. /\ M \cup X = R1 \cup R2 \cup R3
      /\ InInputsOrder(r1) /\ InInputsOrder(r3) /\ NoneLater(R1, R3)
  <2>1. InInputsOrder(m_MixedRing \o h) /\ Inputs(m_MixedRing \o h) = M \cup X
    BY <1>0, <1>2, <1>3, <1>4, InputsJoined
  <2>2. r1 \o r2 \in Seq(Byte)
    BY Joined
  <2>3. /\ InInputsOrder(r1 \o r2) /\ InInputsOrder(r3) /\ NoneLater(Inputs(r1 \o r2), R3)
        /\ M \cup X = Inputs(r1 \o r2) \cup R3
    BY <2>1, <2>2, <1>1, InputsJoined
  <2>4. InInputsOrder(r1) /\ Inputs(r1 \o r2) = R1 \cup R2
    BY <2>3, InputsJoined
  <2>5. NoneLater(R1 \cup R2, R3)
    BY <2>3, <2>4
  <2>6. NoneLater(R1, R3)
    BY <2>5, NoneLaterUnions, Zenon
  <2> QED BY <2>3, <2>4, <2>6
<1>6. Row(E \cup R1, R3, {}, F, H) /\ NoneLater(E, R1)
  <2> HIDE DEF E, M, I, F, H, X, R1, R2, R3
  <2>1. R1 \subseteq M \cup X /\ R3 \subseteq M \cup X
    BY <1>5
  <2>2. /\ NoneLater(E, M) /\ NoneLater(E, F) /\ NoneLater(E, H) /\ NoneLater(M, F)
        /\ NoneLater(M, H) /\ NoneLater(F, H)
    BY <1>2, Zenon DEF Row
  <2>3. NoneLater(E, M \cup X) /\ NoneLater(M \cup X, F) /\ NoneLater(M \cup X, H)
    BY <1>4, <2>2, NoneLaterUnions, Zenon
  <2>4. /\ NoneLater(E, R1) /\ NoneLater(E, R3) /\ NoneLater(R1, F) /\ NoneLater(R1, H)
        /\ NoneLater(R3, F) /\ NoneLater(R3, H)
    BY <2>1, <2>3, NoneLaterShrinks
  <2> QED BY <1>5, <2>2, <2>4, NoneLaterUnions, Zenon DEF Row
<1>7. InInputsOrder(encoded') /\ Inputs(encoded') = E \cup R1
  BY <1>0, <1>1, <1>2, <1>5, <1>6, InputsJoined
<1> QED BY <1>0, <1>1, <1>2, <1>5, <1>6, <1>7, EmptyBytes, Zenon DEF InputInv

\* so it holds after every step.
LEMMA InputStep == AudioTypeOK /\ PlacesInv /\ InputInv /\ [AudioNext]_audioVars => InputInv'
<1> SUFFICES ASSUME AudioTypeOK, PlacesInv, InputInv, [AudioNext]_audioVars PROVE InputInv'
  OBVIOUS
<1> DEFINE E == Inputs(encoded)
           M == Inputs(m_MixedRing)
           I == Inputs(encoder.input)
           F == Inputs(first)
           H == {heard * Period}
<1>0. Row(E, M, I, F, H)
  BY DEF InputInv
<1>1. ASSUME UNCHANGED <<encoded, m_MixedRing, encoder, first, heard>> PROVE InputInv'
  BY <1>1, Zenon DEF InputInv
<1>2. ASSUME NEW frames \in Packets, Feed(frames) PROVE InputInv'
  BY <1>1, <1>2 DEF Feed
<1>3. CASE ForgetRing
  BY <1>1, <1>3 DEF ForgetRing, rings
<1>4. CASE FreeInbuf
  BY <1>1, <1>4 DEF FreeInbuf, rings, counters, history
<1>5. CASE NewInbuf
  BY <1>1, <1>5 DEF NewInbuf, rings, counters, history
<1>6. CASE PublishRing
  BY <1>1, <1>6 DEF PublishRing, rings, counters, history
<1>7. ASSUME NEW connected \in BOOLEAN, ProcessInputs(connected) PROVE InputInv'
  BY <1>7, InputsKeepOrder
<1>8. CASE ProcessTestRing
  BY <1>1, <1>8 DEF ProcessTestRing, rings, counters
<1>9. CASE ProcessRead
  BY <1>1, <1>9 DEF ProcessRead, counters
<1>10. CASE ProcessOutput
  BY <1>1, <1>10 DEF ProcessOutput, counters
<1>11. ASSUME encoded' = encoded, m_MixedRing' = <<>>, encoder'.input = <<>>, first' = first,
              heard' = heard
       PROVE  InputInv'
  <2>1. Row(E, {}, {}, F, H)
    <3> HIDE DEF E, M, I, F, H
    <3> QED BY <1>0, NoneLaterUnions, Zenon DEF Row
  <2> QED BY <1>11, <2>1, EmptyBytes, Zenon DEF InputInv
<1>12. CASE AddEncoder
  BY <1>11, <1>12 DEF AddEncoder, history
<1>13. CASE StopEncoder
  BY <1>11, <1>13, RestingOff DEF StopEncoder, counters
<1>14. ASSUME NEW enc \in BOOLEAN, IsEncoded(enc) PROVE InputInv'
  BY <1>1, <1>14 DEF IsEncoded, rings, counters, history
<1>15. CASE MuxFirst
  <2>1. /\ encoded' = encoded /\ m_MixedRing' = m_MixedRing /\ encoder'.input = first
        /\ first' = <<>> /\ heard' = heard
    BY <1>15 DEF MuxFirst, counters, history, AudioTypeOK
  <2>2. Row(E, M, F, {}, H)
    <3> HIDE DEF E, M, I, F, H
    <3> QED BY <1>0, NoneLaterUnions, Zenon DEF Row
  <2> QED BY <2>1, <2>2, EmptyBytes, Zenon DEF InputInv
<1>16. CASE EncodeFrame
  BY <1>16, EncodeKeepsInputs
<1>17. CASE UNCHANGED audioVars
  BY <1>1, <1>17 DEF audioVars, rings, counters, history
<1> QED BY <1>2, <1>3, <1>4, <1>5, <1>6, <1>7, <1>8, <1>9, <1>10, <1>12, <1>13,
           <1>14, <1>15, <1>16, <1>17, Zenon DEF AudioNext

\* The sound of the movie passes four rings and three threads as one queue that may
\* lose and never repeats or reorders: what Vorbis was given and what is on the way
\* is what was decoded, less what was given up, in order; and the input keeps its
\* order too (video_layer.cpp:541, audio_jack.cpp:162-272,
\* oggtheora_encoder.cpp:197-342).
THEOREM NoSoundIsReordered == AudioSpec => []SoundInOrder
<1>1. AudioInit => AudioTypeOK /\ PlacesInv /\ MovieInv /\ InputInv
  BY AudioInitType, PlacesInit, MovieInit, InputInit
<1>2. AudioTypeOK /\ PlacesInv /\ MovieInv /\ InputInv /\ [AudioNext]_audioVars
        => AudioTypeOK' /\ PlacesInv' /\ MovieInv' /\ InputInv'
  BY AudioStepType, PlacesStep, MovieStep, InputStep
<1>3. AudioTypeOK /\ MovieInv /\ InputInv => SoundInOrder
  <2> SUFFICES ASSUME AudioTypeOK, MovieInv, InputInv PROVE SoundInOrder
    OBVIOUS
  <2>1. InInputsOrder(encoded \o m_MixedRing)
    BY InputsJoined DEF AudioTypeOK, InputInv, Row
  <2> QED BY <2>1, OnTheWayInOrder DEF SoundInOrder
<1> QED BY <1>1, <1>2, <1>3, PTL DEF AudioSpec

-----------------------------------------------------------------------------
(* Samples and frames stay whole *)

\* The k-th sample is of the channel whose turn it is.
InChannels(s) ==
  \A k \in 1 .. Len(s) : (s[k].m - 1) % Channels = ((k - 1) \div SampleBytes) % Channels

\* Whole samples; whole frames.
Samples(s) == Len(s) % SampleBytes = 0 /\ Whole(s)

Frames(s) == Len(s) % Frame = 0 /\ Whole(s) /\ InChannels(s)

\* Bytes behind whole samples are whole samples when they are by themselves,
LEMMA SamplesJoined ==
  ASSUME NEW s \in Seq(Byte), NEW t \in Seq(Byte), Len(s) % SampleBytes = 0
  PROVE  /\ Samples(s \o t) <=> Samples(s) /\ Samples(t)
         /\ Whole(s \o t) <=> Whole(s) /\ Whole(t)
<1> DEFINE j == s \o t
           L == Len(s)
           n == Len(t)
<1>0. /\ L \in Nat /\ n \in Nat /\ L \in Int /\ n \in Int
      /\ SampleBytes \in Nat \ {0} /\ L % SampleBytes = 0
      /\ Len(j) = L + n
      /\ DOMAIN j = 1 .. L + n /\ DOMAIN s = 1 .. L /\ DOMAIN t = 1 .. n
      /\ \A k \in 1 .. L : j[k] = s[k]
      /\ \A k \in 1 .. n : j[L + k] = t[k]
  BY Joined, LenProperties, ConstantsAreNumbers
<1> HIDE DEF j, L, n
<1>1. (L + n) % SampleBytes = n % SampleBytes
  BY <1>0, Shifted, Zenon
<1>2. ASSUME NEW k \in 1 .. n
      PROVE  (L + (k - 1)) % SampleBytes = (k - 1) % SampleBytes
  <2> DEFINE x == k - 1
  <2>1. x \in Int
    BY <1>0
  <2> HIDE DEF x
  <2>2. (L + x) % SampleBytes = x % SampleBytes
    BY <2>1, <1>0, Shifted, Zenon
  <2> QED BY <2>2 DEF x
<1>3. ASSUME Whole(j) PROVE Whole(s) /\ Whole(t)
  <2>0. \A k \in 1 .. L + n : j[k].b = (k - 1) % SampleBytes
    BY <1>0, <1>3 DEF Whole
  <2>1. Whole(s)
    <3>1. \A k \in 1 .. L : k \in 1 .. L + n
      BY <1>0
    <3> QED BY <3>1, <2>0, <1>0, Zenon DEF Whole
  <2>2. ASSUME NEW k \in 1 .. n PROVE t[k].b = (k - 1) % SampleBytes
    <3>1. L + k \in 1 .. L + n /\ j[L + k] = t[k]
      BY <1>0
    <3>2. j[L + k].b = ((L + k) - 1) % SampleBytes
      BY <3>1, <2>0, Zenon
    <3>3. (L + k) - 1 = L + (k - 1)
      BY <1>0
    <3> QED BY <3>1, <3>2, <3>3, <1>2, Zenon
  <2> QED BY <2>1, <2>2, <1>0, Zenon DEF Whole
<1>4. ASSUME Whole(s), Whole(t) PROVE Whole(j)
  <2>0. /\ \A k \in 1 .. L : s[k].b = (k - 1) % SampleBytes
        /\ \A k \in 1 .. n : t[k].b = (k - 1) % SampleBytes
    BY <1>0, <1>4, Zenon DEF Whole
  <2> SUFFICES ASSUME NEW k \in 1 .. L + n PROVE j[k].b = (k - 1) % SampleBytes
    BY <1>0, Zenon DEF Whole
  <2>1. CASE k \in 1 .. L
    BY <2>0, <2>1, <1>0
  <2>2. CASE k - L \in 1 .. n
    <3> DEFINE i == k - L
    <3>1. i \in 1 .. n /\ k = L + i
      BY <2>2, <1>0
    <3> HIDE DEF i
    <3>2. j[L + i] = t[i] /\ t[i].b = (i - 1) % SampleBytes
      BY <3>1, <2>0, <1>0
    <3>3. k - 1 = L + (i - 1)
      BY <3>1, <1>0
    <3> QED BY <3>1, <3>2, <3>3, <1>2, Zenon
  <2>3. k \in 1 .. L \/ k - L \in 1 .. n
    BY <1>0
  <2> QED BY <2>1, <2>2, <2>3
<1>5. /\ Len(s \o t) % SampleBytes = Len(t) % SampleBytes
      /\ Whole(s \o t) <=> Whole(s) /\ Whole(t)
  BY <1>0, <1>1, <1>3, <1>4 DEF j, L, n
<1> QED BY <1>5 DEF Samples

\* and likewise frames.
LEMMA FramesJoined ==
  ASSUME NEW s \in Seq(Byte), NEW t \in Seq(Byte), Len(s) % Frame = 0
  PROVE  Frames(s \o t) <=> Frames(s) /\ Frames(t)
<1> DEFINE j == s \o t
           L == Len(s)
           n == Len(t)
           Channel(x) == (x.m - 1) % Channels
<1>0. /\ L \in Nat /\ n \in Nat /\ L \in Int /\ n \in Int /\ Frame \in Nat \ {0} /\ L % Frame = 0
      /\ Len(j) = L + n
      /\ \A k \in 1 .. L : j[k] = s[k]
      /\ \A k \in 1 .. n : j[L + k] = t[k]
  BY Joined, LenProperties, ConstantsAreNumbers DEF Frame
<1>6. InChannels(j) <=> \A k \in 1 .. L + n : Channel(j[k]) = ((k - 1) \div SampleBytes) % Channels
  BY <1>0, Zenon DEF InChannels
<1>7. /\ InChannels(s) <=> \A k \in 1 .. L : Channel(s[k]) = ((k - 1) \div SampleBytes) % Channels
      /\ InChannels(t) <=> \A k \in 1 .. n : Channel(t[k]) = ((k - 1) \div SampleBytes) % Channels
  BY Zenon DEF InChannels
<1> HIDE DEF j, L, n, Channel
<1>1. Whole(j) <=> Whole(s) /\ Whole(t)
  <2>1. L % SampleBytes = 0
    <3>1. L \in Int /\ 0 \in Int
      BY <1>0
    <3> QED BY <3>1, <1>0, FrameShifted
  <2> QED BY <2>1, SamplesJoined DEF j, L
<1>2. (L + n) % Frame = n % Frame
  BY <1>0, Shifted, Zenon
<1>3. ASSUME NEW k \in 1 .. n
      PROVE  ((L + (k - 1)) \div SampleBytes) % Channels = ((k - 1) \div SampleBytes) % Channels
  <2> DEFINE x == k - 1
  <2>1. x \in Int
    BY <1>0
  <2> HIDE DEF x
  <2>2. ((L + x) \div SampleBytes) % Channels = (x \div SampleBytes) % Channels
    BY <2>1, <1>0, FrameShifted, Zenon
  <2> QED BY <2>2 DEF x
<1>4. ASSUME InChannels(j) PROVE InChannels(s) /\ InChannels(t)
  <2>1. \A k \in 1 .. L : Channel(s[k]) = ((k - 1) \div SampleBytes) % Channels
    <3>1. \A k \in 1 .. L : k \in 1 .. L + n
      BY <1>0
    <3> QED BY <3>1, <1>0, <1>4, <1>6, Zenon
  <2>2. ASSUME NEW k \in 1 .. n
        PROVE  Channel(t[k]) = ((k - 1) \div SampleBytes) % Channels
    <3>1. L + k \in 1 .. L + n /\ j[L + k] = t[k]
      BY <1>0
    <3>2. Channel(j[L + k]) = (((L + k) - 1) \div SampleBytes) % Channels
      BY <3>1, <1>4, <1>6, Zenon
    <3>3. (L + k) - 1 = L + (k - 1)
      BY <1>0
    <3> QED BY <3>1, <3>2, <3>3, <1>3, Zenon
  <2> QED BY <2>1, <2>2, <1>7, Zenon
<1>5. ASSUME InChannels(s), InChannels(t) PROVE InChannels(j)
  <2> SUFFICES ASSUME NEW k \in 1 .. L + n
               PROVE  Channel(j[k]) = ((k - 1) \div SampleBytes) % Channels
    BY <1>6, Zenon
  <2>1. CASE k \in 1 .. L
    BY <2>1, <1>0, <1>5, <1>7, Zenon
  <2>2. CASE k - L \in 1 .. n
    <3> DEFINE i == k - L
    <3>1. i \in 1 .. n /\ k = L + i
      BY <2>2, <1>0
    <3> HIDE DEF i
    <3>2. j[L + i] = t[i] /\ Channel(t[i]) = ((i - 1) \div SampleBytes) % Channels
      BY <3>1, <1>0, <1>5, <1>7, Zenon
    <3>3. k - 1 = L + (i - 1)
      BY <3>1, <1>0
    <3> QED BY <3>1, <3>2, <3>3, <1>3, Zenon
  <2>3. k \in 1 .. L \/ k - L \in 1 .. n
    BY <1>0
  <2> QED BY <2>1, <2>2, <2>3
<1>8. /\ Len(s \o t) % Frame = Len(t) % Frame
      /\ Whole(s \o t) <=> Whole(s) /\ Whole(t)
      /\ InChannels(s \o t) <=> InChannels(s) /\ InChannels(t)
  BY <1>0, <1>1, <1>2, <1>4, <1>5 DEF j, L, n
<1> QED BY <1>8 DEF Frames

\* A packet is whole frames.
LEMMA MovieFrames ==
  ASSUME NEW q \in Nat, NEW n \in Nat, q % Channels = 0, n % Channels = 0
  PROVE  Frames(Movie(q + 1, q + n))
<1> DEFINE data == Movie(q + 1, q + n)
<1>0. /\ SampleBytes \in Nat \ {0} /\ Channels \in Nat \ {0} /\ Frame \in Nat \ {0}
      /\ q + 1 \in Nat \ {0} /\ q + n = q + 1 + n - 1 /\ q \in Int /\ n \in Int
      /\ SampleBytes * n \in Nat
  BY ConstantsAreNumbers DEF Frame
<1> DEFINE p == q + 1
<1>5. /\ Movie(p, p + n - 1) \in Seq(Byte) /\ Len(Movie(p, p + n - 1)) = SampleBytes * n
      /\ \A k \in 1 .. SampleBytes * n :
           /\ Movie(p, p + n - 1)[k].m = p + (k - 1) \div SampleBytes
           /\ Movie(p, p + n - 1)[k].b = (k - 1) % SampleBytes
           /\ (k - 1) \div SampleBytes \in 0 .. n - 1
  <2> HIDE DEF p
  <2>1. p \in Nat \ {0}
    BY <1>0 DEF p
  <2> QED BY <2>1, MovieValues
<1>6. data = Movie(p, p + n - 1)
  BY <1>0
<1> HIDE DEF data
<1>1. /\ data \in Seq(Byte) /\ Len(data) = SampleBytes * n /\ DOMAIN data = 1 .. SampleBytes * n
      /\ \A k \in 1 .. SampleBytes * n :
           /\ data[k].m = q + 1 + (k - 1) \div SampleBytes
           /\ data[k].b = (k - 1) % SampleBytes
           /\ (k - 1) \div SampleBytes \in Int
  <2> HIDE DEF p
  <2>1. /\ data \in Seq(Byte) /\ Len(data) = SampleBytes * n
        /\ \A k \in 1 .. SampleBytes * n :
             /\ data[k].m = p + (k - 1) \div SampleBytes
             /\ data[k].b = (k - 1) % SampleBytes
             /\ (k - 1) \div SampleBytes \in 0 .. n - 1
    BY <1>5, <1>6, Zenon
  <2> QED BY <2>1, LenProperties, <1>0 DEF p
<1> HIDE DEF data
<1>2. Len(data) % Frame = 0
  <2> DEFINE z == n \div Channels
  <2>1. z \in Int /\ n = z * Channels
    BY <1>0, Euclid
  <2> HIDE DEF z
  <2>2. SampleBytes * n = z * Frame + 0
    BY <2>1, <1>0 DEF Frame
  <2>3. 0 \in 0 .. Frame - 1
    BY <1>0
  <2>4. (z * Frame + 0) % Frame = 0
    BY <2>1, <2>3, <1>0, Euclid
  <2> QED BY <2>2, <2>4, <1>1, Zenon
<1>3. Whole(data)
  BY <1>1, Zenon DEF Whole
<1>4. InChannels(data)
  <2> SUFFICES ASSUME NEW k \in 1 .. SampleBytes * n
               PROVE  (data[k].m - 1) % Channels = ((k - 1) \div SampleBytes) % Channels
    BY <1>1, Zenon DEF InChannels
  <2> DEFINE y == (k - 1) \div SampleBytes
  <2>1. y \in Int /\ data[k].m = q + 1 + y
    BY <1>1
  <2> HIDE DEF y
  <2>2. data[k].m - 1 = q + y
    BY <2>1
  <2>3. (q + y) % Channels = y % Channels
    <3>1. q % Channels = 0
      OBVIOUS
    <3> QED BY <3>1, <2>1, <1>0, Shifted
  <2> QED BY <2>2, <2>3 DEF y
<1> QED BY <1>2, <1>3, <1>4 DEF Frames, data

\* So is nothing.
LEMMA Nothing == Frames(<<>>) /\ Samples(<<>>)
<1>1. /\ SampleBytes \in Nat \ {0} /\ Frame \in Nat \ {0}
      /\ 0 \in 0 .. SampleBytes - 1 /\ 0 \in 0 .. Frame - 1
  BY ConstantsAreNumbers DEF Frame
<1>2. 0 % SampleBytes = 0 /\ 0 % Frame = 0
  BY <1>1, Euclid
<1>3. Len(<<>>) = 0 /\ Whole(<<>>) /\ InChannels(<<>>)
  BY EmptyBytes DEF Whole, InChannels
<1> QED BY <1>2, <1>3 DEF Frames, Samples

\* What each ring and each thread holds while no ring has cut a frame and Process has
\* used the ring's own number of channels.
AllWhole ==
  /\ Frames(screenRing) /\ Frames(audio_mix_ring) /\ Frames(process.data) /\ Frames(played.data)
  /\ process.data # <<>> => process.channels = Channels
  /\ played.data # <<>> => played.channels = Channels
  /\ Samples(m_MixedRing) /\ Samples(encoded)

\* Frames are decoded, whole and in turn, and stay so.
WholeInv ==
  /\ decoded % Channels = 0
  /\ ~cut /\ ~stale => AllWhole

\* It holds at the beginning;
LEMMA WholeInit == AudioInit => WholeInv
<1> SUFFICES ASSUME AudioInit PROVE WholeInv
  OBVIOUS
<1>1. decoded % Channels = 0
  <2>1. Channels \in Nat \ {0} /\ 0 \in 0 .. Channels - 1
    BY ConstantsAreNumbers
  <2> QED BY <2>1, Euclid DEF AudioInit
<1>2. /\ screenRing = <<>> /\ audio_mix_ring = <<>> /\ process.data = <<>> /\ played.data = <<>>
      /\ m_MixedRing = <<>> /\ encoded = <<>>
  BY RestingOff DEF AudioInit
<1> QED BY <1>1, <1>2, Nothing, Zenon DEF WholeInv, AllWhole

\* a packet that is not cut within a frame leaves frames in the ring;
LEMMA FeedKeepsWhole ==
  ASSUME AudioTypeOK, WholeInv, NEW frames \in Packets, Feed(frames)
  PROVE  WholeInv'
<1>1. PICK h \in Seq(Byte), x \in Seq(Byte) :
        /\ Movie(decoded + 1, decoded + frames * Channels) = h \o x
        /\ screenRing' = screenRing \o h
        /\ cut' = (cut \/ Len(h) % Frame # 0)
        /\ decoded' = decoded + frames * Channels /\ frames * Channels \in Nat
  BY FeedSteps, Zenon
<1>2. /\ UNCHANGED <<encoded, m_MixedRing, audio_mix_ring, process, played, stale>>
      /\ screenRing \in Seq(Byte)
  BY DEF Feed, AudioTypeOK
<1>3. (frames * Channels) % Channels = 0
  <2>1. Channels \in Nat \ {0} /\ frames \in Int /\ 0 \in 0 .. Channels - 1
        /\ frames * Channels = frames * Channels + 0
    BY ConstantsAreNumbers
  <2> QED BY <2>1, Euclid
<1> DEFINE n == frames * Channels
<1>4. n \in Nat /\ decoded \in Nat /\ decoded % Channels = 0 /\ n % Channels = 0
      /\ Channels \in Nat \ {0}
  BY <1>1, <1>3, ConstantsAreNumbers DEF AudioTypeOK, WholeInv
<1> HIDE DEF n
<1>5. (decoded + n) % Channels = 0
  <2> DEFINE q == decoded
  <2>1. q \in Int /\ n \in Int /\ q % Channels = 0
    BY <1>4
  <2> HIDE DEF q
  <2>2. (q + n) % Channels = n % Channels
    BY <2>1, <1>4, Shifted
  <2> QED BY <2>2, <1>4 DEF q
<1>6. Frames(Movie(decoded + 1, decoded + n))
  BY <1>4, MovieFrames
<1>7. ASSUME ~cut', ~stale' PROVE AllWhole'
  <2>1. ~cut /\ ~stale /\ Len(h) % Frame = 0
    BY <1>1, <1>2, <1>7
  <2>2. AllWhole
    BY <2>1 DEF WholeInv
  <2>3. Frames(h)
    <3>1. Frames(h \o x)
      BY <1>1, <1>6 DEF n
    <3> QED BY <3>1, <2>1, FramesJoined
  <2>4. Frames(screenRing \o h)
    <3>1. Frames(screenRing) /\ Len(screenRing) % Frame = 0
      BY <2>2 DEF AllWhole, Frames
    <3> QED BY <3>1, <2>3, <1>2, FramesJoined
  <2> QED BY <2>2, <2>4, <1>1, <1>2, Zenon DEF AllWhole
<1> QED BY <1>1, <1>5, <1>7, Zenon DEF WholeInv, n

\* a period of the ring's channels is frames: Jack has the ring only with its
\* number of channels (WiringInv);
LEMMA ReadKeepsWhole ==
  ASSUME AudioTypeOK, PlacesInv, WiringInv, WholeInv, ProcessRead
  PROVE  WholeInv'
<1>0. /\ UNCHANGED <<encoded, m_MixedRing, audio_mix_ring, decoded, cut>>
      /\ process.data = <<>>
  BY DEF ProcessRead, counters, PlacesInv
<1>1. CASE ~m_ringbuffer \/ m_inbuf \notin {"new", "filled"}
  <2>1. process'.data = <<>> /\ screenRing' = screenRing /\ stale' = stale /\ played' = played
    BY <1>0, <1>1 DEF ProcessRead, AudioTypeOK
  <2> QED BY <1>0, <2>1, Zenon DEF WholeInv, AllWhole
<1>2. CASE m_ringbuffer /\ m_inbuf \in {"new", "filled"} /\ Len(screenRing) < PeriodBytes
  <2>1. /\ process'.data = <<>> /\ screenRing' = screenRing /\ stale' = stale
        /\ played'.data = <<>>
    BY <1>2, RestingOff DEF ProcessRead
  <2> QED BY <1>0, <2>1, Nothing, Zenon DEF WholeInv, AllWhole
<1>3. CASE m_ringbuffer /\ m_inbuf \in {"new", "filled"} /\ ~(Len(screenRing) < PeriodBytes)
  <2>1. PICK d \in Seq(Byte), r \in Seq(Byte) :
          /\ screenRing = d \o r /\ Len(d) = process.channels * Period * SampleBytes
          /\ screenRing' = r /\ process' = [process EXCEPT !.at = "output", !.data = d]
          /\ played' = played
          /\ stale' = (stale \/ process.channels # m_ringbufferchannels)
    BY <1>3, ReadSteps, Zenon
  <2>2. process'.data = d /\ process'.channels = process.channels
    BY <2>1 DEF AudioTypeOK
  <2>3. ASSUME ~cut', ~stale' PROVE AllWhole'
    <3>1. ~cut /\ ~stale /\ process.channels = m_ringbufferchannels
      BY <2>1, <2>3, <1>0
    <3>2. process.channels = Channels
      BY <3>1, <1>3 DEF WiringInv
    <3>3. AllWhole
      BY <3>1 DEF WholeInv
    <3>4. Len(d) % Frame = 0
      <4>1. Len(d) = Channels * Period * SampleBytes
        BY <2>1, <3>2
      <4>2. /\ Period \in Int /\ Frame \in Nat \ {0} /\ 0 \in 0 .. Frame - 1
            /\ Channels * Period * SampleBytes = Period * Frame + 0
        BY ConstantsAreNumbers DEF Frame
      <4>3. (Period * Frame + 0) % Frame = 0
        BY <4>2, Euclid
      <4> QED BY <4>1, <4>2, <4>3, Zenon
    <3>5. Frames(d) /\ Frames(r)
      <4>1. Frames(d \o r)
        BY <2>1, <3>3 DEF AllWhole
      <4> QED BY <4>1, <3>4, FramesJoined
    <3> QED BY <1>0, <2>1, <2>2, <3>2, <3>3, <3>5, Zenon DEF AllWhole
  <2> QED BY <1>0, <2>3, Zenon DEF WholeInv
<1> QED BY <1>1, <1>2, <1>3, Zenon

\* it is played, and passed on, as it is;
LEMMA OutputKeepsWhole ==
  ASSUME AudioTypeOK, WholeInv, ProcessOutput
  PROVE  WholeInv'
<1>0. /\ UNCHANGED <<encoded, m_MixedRing, screenRing, decoded, cut, stale>>
      /\ audio_mix_ring \in Seq(Byte) /\ process.data \in Seq(Byte)
  BY DEF ProcessOutput, counters, AudioTypeOK
<1>1. CASE m_inbuf # "filled"
  <2>1. /\ process'.data = process.data /\ process'.channels = process.channels
        /\ audio_mix_ring' = audio_mix_ring /\ played' = played
    BY <1>1 DEF ProcessOutput, AudioTypeOK
  <2> QED BY <2>1, <1>0, Zenon DEF WholeInv, AllWhole
<1>2. CASE m_inbuf = "filled"
  <2>1. /\ process'.data = <<>>
        /\ played'.data = process.data /\ played'.channels = process.channels
        /\ \/ audio_mix_ring' = audio_mix_ring \o process.data
           \/ audio_mix_ring' = audio_mix_ring
    BY <1>2, OutputSteps, RestingOff
  <2>2. ASSUME AllWhole PROVE Frames(audio_mix_ring')
    <3>1. Frames(audio_mix_ring) /\ Frames(process.data) /\ Len(audio_mix_ring) % Frame = 0
      BY <2>2 DEF AllWhole, Frames
    <3>2. Frames(audio_mix_ring \o process.data)
      BY <3>1, <1>0, FramesJoined
    <3> QED BY <3>1, <3>2, <2>1
  <2> QED BY <1>0, <2>1, <2>2, Nothing, Zenon DEF WholeInv, AllWhole
<1> QED BY <1>1, <1>2

\* encode_frame takes and gives whole samples;
LEMMA EncodeKeepsWhole ==
  ASSUME AudioTypeOK, WholeInv, EncodeFrame
  PROVE  WholeInv'
<1>0. /\ UNCHANGED <<process, played, screenRing, decoded, stale>>
      /\ encoded \in Seq(Byte) /\ m_MixedRing \in Seq(Byte) /\ audio_mix_ring \in Seq(Byte)
      /\ encoder.channels \in Nat \ {0} /\ encoder.input \in Seq(Byte)
  BY DEF EncodeFrame, counters, AudioTypeOK
<1>1. PICK h \in Seq(Byte), x \in Seq(Byte), r1 \in Seq(Byte), r2 \in Seq(Byte), r3 \in Seq(Byte) :
        /\ Mixture = h \o x /\ m_MixedRing \o h = (r1 \o r2) \o r3
        /\ encoded' = encoded \o r1 /\ m_MixedRing' = r3 /\ audio_mix_ring' = <<>>
        /\ lost' = lost \cup Of(x) \cup Of(r2)
        /\ cut' = (cut \/ Len(h) % (SampleBytes * encoder.channels) # 0)
        /\ Len(r1) % SampleBytes = 0 /\ Len(r1 \o r2) % SampleBytes = 0
        /\ Len(r3) < MixedBytes
  BY EncodeSteps, Zenon
<1>2. ASSUME ~cut', ~stale' PROVE AllWhole'
  <2>1. ~cut /\ ~stale /\ Len(h) % (SampleBytes * encoder.channels) = 0
    BY <1>0, <1>1, <1>2
  <2>2. AllWhole
    BY <2>1 DEF WholeInv
  <2>3. Len(h) % SampleBytes = 0
    <3> DEFINE w == SampleBytes * encoder.channels
               c == encoder.channels
               n == Len(h)
               z == n \div w
               p == z * c
    <3>1. SampleBytes \in Nat \ {0} /\ w \in Nat \ {0} /\ c \in Nat /\ n \in Nat
          /\ w = SampleBytes * c
      BY <1>0, ConstantsAreNumbers, LenProperties
    <3> HIDE DEF w, c, n
    <3>2. n % w = 0
      BY <2>1, Zenon DEF w, n
    <3>3. z \in Int /\ n = z * w
      <4>1. n \in Int /\ w \in Nat \ {0} /\ 0 \in Int
        BY <3>1
      <4>2. z \in Int /\ n = z * w + (n % w)
        BY <4>1, Euclid, Zenon
      <4> QED BY <4>1, <4>2, <3>2
    <3> HIDE DEF z
    <3>4. p \in Int /\ n = p * SampleBytes + 0 /\ 0 \in 0 .. SampleBytes - 1
      BY <3>1, <3>3
    <3> HIDE DEF p
    <3>5. n % SampleBytes = 0
      BY <3>1, <3>4, Euclid
    <3> QED BY <3>5 DEF n
  <2>4. Samples(h)
    <3>1. Whole(h \o x)
      <4>1. Whole(audio_mix_ring)
        BY <2>2 DEF AllWhole, Frames
      <4> QED BY <4>1, <1>0, <1>1, MixtureValues
    <3> QED BY <3>1, <2>3, SamplesJoined DEF Samples
  <2>5. Samples(m_MixedRing \o h)
    <3>1. Samples(m_MixedRing) /\ Len(m_MixedRing) % SampleBytes = 0
      BY <2>2 DEF AllWhole, Samples
    <3> QED BY <3>1, <2>4, <1>0, SamplesJoined
  <2>6. Samples(r1) /\ Samples(r3)
    <3>1. r1 \o r2 \in Seq(Byte) /\ Samples((r1 \o r2) \o r3)
      BY <2>5, <1>1, Joined
    <3>2. Samples(r1 \o r2) /\ Samples(r3)
      BY <3>1, <1>1, SamplesJoined
    <3> QED BY <3>2, <1>1, SamplesJoined
  <2>7. Samples(encoded \o r1)
    <3>1. Samples(encoded) /\ Len(encoded) % SampleBytes = 0
      BY <2>2 DEF AllWhole, Samples
    <3> QED BY <3>1, <2>6, <1>0, SamplesJoined
  <2> QED BY <1>0, <1>1, <2>2, <2>6, <2>7, Nothing, Zenon DEF AllWhole
<1> QED BY <1>0, <1>2, Zenon DEF WholeInv

\* so it holds after every step.
LEMMA WholeStep ==
  AudioTypeOK /\ PlacesInv /\ WiringInv /\ WholeInv /\ [AudioNext]_audioVars => WholeInv'
<1> SUFFICES ASSUME AudioTypeOK, PlacesInv, WiringInv, WholeInv, [AudioNext]_audioVars
             PROVE  WholeInv'
  OBVIOUS
<1>1. ASSUME UNCHANGED <<encoded, audio_mix_ring, screenRing, decoded, cut, stale>>,
             \/ process'.data = process.data /\ process'.channels = process.channels
             \/ process'.data = <<>>,
             played' = played \/ played'.data = <<>>,
             m_MixedRing' = m_MixedRing \/ m_MixedRing' = <<>>
      PROVE  WholeInv'
  <2>1. AllWhole => AllWhole'
    <3> SUFFICES ASSUME AllWhole PROVE AllWhole'
      OBVIOUS
    <3>1. Frames(process.data') /\ (process.data' # <<>> => process.channels' = Channels)
      BY <1>1, Nothing, Zenon DEF AllWhole
    <3>2. Frames(played.data') /\ (played.data' # <<>> => played.channels' = Channels)
      BY <1>1, Nothing, Zenon DEF AllWhole
    <3>3. Samples(m_MixedRing')
      BY <1>1, Nothing, Zenon DEF AllWhole
    <3> QED BY <1>1, <3>1, <3>2, <3>3, Zenon DEF AllWhole
  <2> QED BY <1>1, <2>1, Zenon DEF WholeInv
<1>2. ASSUME NEW frames \in Packets, Feed(frames) PROVE WholeInv'
  BY <1>2, FeedKeepsWhole
<1>3. CASE ForgetRing
  BY <1>1, <1>3 DEF ForgetRing, rings
<1>4. CASE FreeInbuf
  BY <1>1, <1>4 DEF FreeInbuf, rings, counters, history
<1>5. CASE NewInbuf
  BY <1>1, <1>5 DEF NewInbuf, rings, counters, history
<1>6. CASE PublishRing
  BY <1>1, <1>6 DEF PublishRing, rings, counters, history
<1>7. ASSUME NEW connected \in BOOLEAN, ProcessInputs(connected) PROVE WholeInv'
  BY <1>1, <1>7 DEF ProcessInputs, history
<1>8. CASE ProcessTestRing
  <2>1. \/ process'.data = process.data /\ process'.channels = process.channels
        \/ process'.data = <<>>
    BY <1>8, RestingOff DEF ProcessTestRing, AudioTypeOK
  <2>2. played' = played \/ played'.data = <<>>
    BY <1>8 DEF ProcessTestRing
  <2> QED BY <1>1, <1>8, <2>1, <2>2 DEF ProcessTestRing, rings, counters
<1>9. CASE ProcessRead
  BY <1>9, ReadKeepsWhole
<1>10. CASE ProcessOutput
  BY <1>10, OutputKeepsWhole
<1>11. CASE AddEncoder
  BY <1>1, <1>11 DEF AddEncoder, history
<1>12. CASE StopEncoder
  BY <1>1, <1>12 DEF StopEncoder, counters
<1>13. ASSUME NEW enc \in BOOLEAN, IsEncoded(enc) PROVE WholeInv'
  BY <1>1, <1>13 DEF IsEncoded, rings, counters, history
<1>14. CASE MuxFirst
  BY <1>1, <1>14 DEF MuxFirst, counters, history
<1>15. CASE EncodeFrame
  BY <1>15, EncodeKeepsWhole
<1>16. CASE UNCHANGED audioVars
  BY <1>1, <1>16 DEF audioVars, rings, counters, history
<1> QED BY <1>2, <1>3, <1>4, <1>5, <1>6, <1>7, <1>8, <1>9, <1>10, <1>11, <1>12, <1>13,
           <1>14, <1>15, <1>16, Zenon DEF AudioNext

\* The bytes of a sample stay together on the way to Vorbis and to Jack's outputs,
\* and each output plays the samples of its own channel, until a full ring has taken
\* a part of a frame or Process has used a number of channels that was not the
\* ring's (video_layer.cpp:541, audio_jack.cpp:193, 243-249).
THEOREM NoSampleIsTorn == AudioSpec => []SoundStaysWhole
<1>1. AudioInit => AudioTypeOK /\ PlacesInv /\ WiringInv /\ WholeInv
  BY AudioInitType, PlacesInit, WiringInit, WholeInit
<1>2. AudioTypeOK /\ PlacesInv /\ WiringInv /\ WholeInv /\ [AudioNext]_audioVars
        => AudioTypeOK' /\ PlacesInv' /\ WiringInv' /\ WholeInv'
  BY AudioStepType, PlacesStep, WiringStep, WholeStep
<1>3. AudioTypeOK /\ WholeInv => SoundStaysWhole
  <2> SUFFICES ASSUME AudioTypeOK, WholeInv, ~cut, ~stale
               PROVE  /\ Whole(encoded) /\ Whole(played.data)
                      /\ \A k \in DOMAIN played.data :
                           (played.data[k].m - 1) % Channels
                             = ((k - 1) \div SampleBytes) % played.channels
    BY Zenon DEF SoundStaysWhole
  <2>1. AllWhole
    BY DEF WholeInv
  <2>2. Whole(encoded) /\ Whole(played.data) /\ InChannels(played.data)
    BY <2>1 DEF AllWhole, Samples, Frames
  <2>3. ASSUME NEW k \in DOMAIN played.data
        PROVE  (played.data[k].m - 1) % Channels = ((k - 1) \div SampleBytes) % played.channels
    <3>1. played.data \in Seq(Byte)
      BY DEF AudioTypeOK
    <3>2. k \in 1 .. Len(played.data) /\ played.data # <<>>
      BY <3>1, EmptyBytes
    <3>3. played.channels = Channels
      BY <3>2, <2>1, Zenon DEF AllWhole
    <3> QED BY <3>2, <3>3, <2>2, Zenon DEF InChannels
  <2> QED BY <2>2, <2>3
<1> QED BY <1>1, <1>2, <1>3, PTL DEF AudioSpec

-----------------------------------------------------------------------------
(* Two threads inside one ring: the inductive invariant *)

Call == [pc : {"idle", "space", "copy1", "add1", "mask1", "copy2", "add2", "mask2"},
         cnt : Nat, n1 : Nat, n2 : Nat]

\* One place after another, round the block.
Round(x) == IF x < Size THEN x ELSE x - Size

\* The piece a call is at; what it has copied and not yet added to its pointer;
\* what it still has to add.
Piece(call) == IF call.pc \in {"copy1", "add1"} THEN call.n1 ELSE call.n2
Unadded(call) == IF call.pc \in {"add1", "add2"} THEN Piece(call) ELSE 0
Left(call) == IF call.pc \in {"copy1", "add1"} THEN call.n1 + call.n2
              ELSE IF call.pc \in {"mask1", "copy2", "add2"} THEN call.n2 ELSE 0

Published == sent - Unadded(writer)
TakenOut == Len(received) - Unadded(reader)

\* The first piece ends at the end of the block when there is a second one,
\* which starts at its beginning.
Fits(call, at) ==
  /\ call.pc \in {"copy1", "add1"} => at + call.n1 <= Size /\ (call.n2 > 0 => at + call.n1 = Size)
  /\ call.pc = "mask1" /\ call.n2 > 0 => at = 0
  /\ call.pc \in {"copy2", "add2"} => at = 0
  /\ call.n2 <= Size

TypeInv == /\ buf \in [Indices -> Nat]
           /\ write_ptr \in Indices /\ read_ptr \in Indices
           /\ writer \in Call /\ reader \in Call
           /\ sent \in Nat /\ received \in Seq(Nat)

\* The pointers are as far apart as what was published and what was taken, and
\* what either thread has computed is still there, whatever the other did since.
SpaceInv == /\ ReadSpace(write_ptr, read_ptr) = Published - TakenOut
            /\ Left(writer) <= WriteSpace(write_ptr, read_ptr)
            /\ Left(reader) <= ReadSpace(write_ptr, read_ptr)
            /\ Fits(writer, write_ptr) /\ Fits(reader, read_ptr)

\* What was copied in and not yet taken out is in the block, in its order.
HeldInv == \A i \in 1 .. sent - TakenOut : buf[Round(read_ptr + i - 1)] = TakenOut + i

SPSCInv == TypeInv /\ SpaceInv /\ HeldInv /\ InOrder

-----------------------------------------------------------------------------
(* Masking, and the spaces *)

USE SPSCAssumption

LEMMA SizeIsNat == Size \in Nat /\ Size >= 2
OBVIOUS

\* The mask takes a sum of two indices back into the block.
LEMMA MaskedValue ==
  ASSUME NEW x \in 0 .. 2 * Size - 1
  PROVE  Masked(x) = Round(x) /\ Round(x) \in Indices
<1>1. CASE x < Size
  BY <1>1, SMT DEF Masked, Round, Indices
<1>2. CASE x >= Size
  <2>1. x = 1 * Size + (x - Size) /\ x - Size \in 0 .. Size - 1
    BY <1>2
  <2>2. x % Size = x - Size
    BY <2>1, <1>2, SMT
  <2> QED BY <2>1, <2>2, <1>2 DEF Masked, Round, Indices
<1> QED BY <1>1, <1>2

\* The spaces of a pair of pointers, and where one is seen from the other.
LEMMA SpaceValues ==
  ASSUME NEW w \in Indices, NEW r \in Indices
  PROVE  /\ ReadSpace(w, r) = IF w >= r THEN w - r ELSE w - r + Size
         /\ ReadSpace(w, r) \in 0 .. Size - 1
         /\ WriteSpace(w, r) = Size - 1 - ReadSpace(w, r)
         /\ w = Round(r + ReadSpace(w, r))
<1>1. CASE w > r
  <2>1. Masked(r - w + Size) = r - w + Size
    BY <1>1, MaskedValue DEF Indices, Round
  <2> QED BY <1>1, <2>1 DEF ReadSpace, WriteSpace, Indices, Round
<1>2. CASE w < r
  <2>1. Masked(w - r + Size) = w - r + Size
    BY <1>2, MaskedValue DEF Indices, Round
  <2> QED BY <1>2, <2>1 DEF ReadSpace, WriteSpace, Indices, Round
<1>3. CASE w = r
  <2>1. Masked(w - r + Size) = 0
    BY <1>3, MaskedValue DEF Indices, Round
  <2> QED BY <1>3, <2>1 DEF ReadSpace, WriteSpace, Indices, Round
<1> QED BY <1>1, <1>2, <1>3 DEF Indices

\* A pointer that moves within its space moves both spaces by as much.
LEMMA WriterMoves ==
  ASSUME NEW w \in Indices, NEW r \in Indices, NEW n \in 0 .. WriteSpace(w, r)
  PROVE  /\ Masked(w + n) = Round(w + n) /\ Round(w + n) \in Indices
         /\ ReadSpace(Round(w + n), r) = ReadSpace(w, r) + n
<1>1. /\ ReadSpace(w, r) = IF w >= r THEN w - r ELSE w - r + Size
      /\ n \in 0 .. Size - 1 /\ n <= Size - 1 - ReadSpace(w, r)
  BY SpaceValues
<1>2. Masked(w + n) = Round(w + n) /\ Round(w + n) \in Indices
  BY <1>1, MaskedValue DEF Indices
<1>3. ReadSpace(Round(w + n), r) = IF Round(w + n) >= r THEN Round(w + n) - r
                                   ELSE Round(w + n) - r + Size
  BY <1>2, SpaceValues
<1> QED BY <1>1, <1>2, <1>3 DEF Indices, Round

LEMMA ReaderMoves ==
  ASSUME NEW w \in Indices, NEW r \in Indices, NEW n \in 0 .. ReadSpace(w, r)
  PROVE  /\ Masked(r + n) = Round(r + n) /\ Round(r + n) \in Indices
         /\ ReadSpace(w, Round(r + n)) = ReadSpace(w, r) - n
<1>1. /\ ReadSpace(w, r) = IF w >= r THEN w - r ELSE w - r + Size
      /\ n \in 0 .. Size - 1 /\ n <= ReadSpace(w, r)
  BY SpaceValues
<1>2. Masked(r + n) = Round(r + n) /\ Round(r + n) \in Indices
  BY <1>1, MaskedValue DEF Indices
<1>3. ReadSpace(w, Round(r + n)) = IF w >= Round(r + n) THEN w - Round(r + n)
                                   ELSE w - Round(r + n) + Size
  BY <1>2, SpaceValues
<1> QED BY <1>1, <1>2, <1>3 DEF Indices, Round

\* The pieces of a call are all it asked for, and fit the block.
LEMMA PiecesFit ==
  ASSUME NEW call \in Call, NEW at \in Indices, NEW n \in 0 .. Size - 1
  PROVE  /\ Pieces(call, at, n) \in Call
         /\ Left(Pieces(call, at, n)) = n /\ Unadded(Pieces(call, at, n)) = 0
         /\ Fits(Pieces(call, at, n), at)
<1>1. CASE at + n > Size
  <2>1. Masked(at + n) = at + n - Size
    BY <1>1, MaskedValue DEF Indices, Round
  <2>2. Pieces(call, at, n) = [call EXCEPT !.pc = "copy1", !.n1 = Size - at, !.n2 = at + n - Size]
    BY <1>1, <2>1 DEF Pieces
  <2> DEFINE c == Pieces(call, at, n)
  <2>3. /\ c \in Call /\ c.pc = "copy1" /\ c.n1 = Size - at /\ c.n2 = at + n - Size
    <3>1. Size - at \in Nat /\ at + n - Size \in Nat
      BY <1>1 DEF Indices
    <3> QED BY <2>2, <3>1 DEF Call
  <2> HIDE DEF c
  <2>4. at \in 0 .. Size - 1 /\ n \in 0 .. Size - 1
    BY DEF Indices
  <2>5. Left(c) = n /\ Unadded(c) = 0 /\ Fits(c, at)
    BY <2>3, <2>4, SizeIsNat DEF Left, Unadded, Fits
  <2> QED BY <2>3, <2>5 DEF c
<1>2. CASE ~(at + n > Size)
  <2>1. Pieces(call, at, n) = [call EXCEPT !.pc = "copy1", !.n1 = n, !.n2 = 0]
    BY <1>2 DEF Pieces
  <2> DEFINE c == Pieces(call, at, n)
  <2>3. /\ c \in Call /\ c.pc = "copy1" /\ c.n1 = n /\ c.n2 = 0
    <3>1. n \in Nat
      OBVIOUS
    <3>2. c = [pc |-> "copy1", cnt |-> call.cnt, n1 |-> n, n2 |-> 0] /\ call.cnt \in Nat
      BY <2>1 DEF Call
    <3> QED BY <3>1, <3>2 DEF Call
  <2> HIDE DEF c
  <2>4. at \in Int /\ n \in Int
    BY DEF Indices
  <2>5. Left(c) = n /\ Unadded(c) = 0 /\ Fits(c, at)
    BY <1>2, <2>3, <2>4 DEF Left, Unadded, Fits
  <2> QED BY <2>3, <2>5 DEF c
<1> QED BY <1>1, <1>2

LEMMA IdleFits == /\ Idle \in Call /\ Left(Idle) = 0 /\ Unadded(Idle) = 0
                  /\ \A at : Fits(Idle, at)
BY DEF Idle, Call, Left, Unadded, Fits

-----------------------------------------------------------------------------
(* The invariant holds *)

LEMMA InitSPSCInv == Init => SPSCInv
<1> SUFFICES ASSUME Init PROVE SPSCInv
  OBVIOUS
<1>1. TypeInv
  BY IdleFits, EmptySeq DEF Init, TypeInv, Indices
<1>2. ReadSpace(0, 0) = 0 /\ WriteSpace(0, 0) = Size - 1
  BY SpaceValues DEF Indices
<1>3. /\ write_ptr = 0 /\ read_ptr = 0 /\ sent = 0 /\ received = <<>> /\ Len(<<>>) = 0
      /\ writer = Idle /\ reader = Idle
  BY EmptySeq DEF Init
<1>4. Published = 0 /\ TakenOut = 0
  BY <1>3, IdleFits DEF Published, TakenOut
<1>5. SpaceInv
  BY <1>2, <1>3, <1>4, IdleFits DEF SpaceInv
<1> QED BY <1>1, <1>3, <1>4, <1>5 DEF SPSCInv, HeldInv, InOrder

\* What every step's proof begins with.
LEMMA Spaces ==
  ASSUME SPSCInv
  PROVE  /\ Unadded(writer) \in Nat /\ Unadded(reader) \in Nat
         /\ Left(writer) \in Nat /\ Left(reader) \in Nat
         /\ Len(received) \in Nat /\ Published \in Int /\ TakenOut \in Int
         /\ ReadSpace(write_ptr, read_ptr) = Published - TakenOut
         /\ Published - TakenOut \in 0 .. Size - 1
         /\ WriteSpace(write_ptr, read_ptr) = Size - 1 - (Published - TakenOut)
         /\ write_ptr = Round(read_ptr + (Published - TakenOut))
<1>1. /\ Unadded(writer) \in Nat /\ Unadded(reader) \in Nat
      /\ Left(writer) \in Nat /\ Left(reader) \in Nat
  BY DEF SPSCInv, TypeInv, Call, Unadded, Left, Piece
<1>2. Len(received) \in Nat /\ sent \in Nat
  BY LenProperties DEF SPSCInv, TypeInv
<1>3. write_ptr \in Indices /\ read_ptr \in Indices
  BY DEF SPSCInv, TypeInv
<1>4. ReadSpace(write_ptr, read_ptr) = Published - TakenOut
  BY DEF SPSCInv, SpaceInv
<1> QED BY SMTT(60), <1>1, <1>2, <1>3, <1>4, SpaceValues DEF Published, TakenOut

\* A step of the writer that moves neither its pointer nor the block.
LEMMA WriterPlans ==
  ASSUME SPSCInv, UNCHANGED <<buf, write_ptr, read_ptr, reader, sent, received>>,
         writer' \in Call, Unadded(writer) = 0, Unadded(writer') = 0,
         Left(writer') <= WriteSpace(write_ptr, read_ptr), Fits(writer', write_ptr)
  PROVE  SPSCInv'
BY DEF SPSCInv, TypeInv, SpaceInv, HeldInv, InOrder, Published, TakenOut

LEMMA ReaderPlans ==
  ASSUME SPSCInv, UNCHANGED <<buf, write_ptr, read_ptr, writer, sent, received>>,
         reader' \in Call, Unadded(reader) = 0, Unadded(reader') = 0,
         Left(reader') <= ReadSpace(write_ptr, read_ptr), Fits(reader', read_ptr)
  PROVE  SPSCInv'
BY DEF SPSCInv, TypeInv, SpaceInv, HeldInv, InOrder, Published, TakenOut

\* The writer copies to the places that follow what the reader may see.
LEMMA WriteCopyKeeps ==
  ASSUME SPSCInv, NEW here \in {"copy1", "copy2"}, NEW next,
         WriteCopy(here, Piece(writer), next),
         next = IF here = "copy1" THEN "add1" ELSE "add2"
  PROVE  SPSCInv'
<1> DEFINE n == Piece(writer)
           rs == Published - TakenOut
<1>1. /\ writer \in Call /\ n \in Nat /\ n <= Left(writer) /\ write_ptr + n <= Size
      /\ Unadded(writer) = 0
  <2>1. writer \in Call /\ writer.pc \in {"copy1", "copy2"} /\ Fits(writer, write_ptr)
        /\ write_ptr \in 0 .. Size - 1
    BY DEF WriteCopy, SPSCInv, TypeInv, SpaceInv, Indices
  <2>2. n \in Nat /\ n <= Left(writer) /\ Unadded(writer) = 0
    BY <2>1 DEF Call, Piece, Left, Unadded
  <2>3. write_ptr + n <= Size
    BY <2>1, SizeIsNat DEF Call, Piece, Fits
  <2> QED BY <2>1, <2>2, <2>3
<1>2. /\ writer' \in Call /\ Unadded(writer') = n /\ Left(writer') = Left(writer)
      /\ Fits(writer', write_ptr)
  BY <1>1 DEF WriteCopy, SPSCInv, SpaceInv, Call, Piece, Left, Fits, Unadded
<1>3. /\ rs \in 0 .. Size - 1 /\ n <= Size - 1 - rs /\ write_ptr = Round(read_ptr + rs)
      /\ sent \in Nat /\ rs = sent - TakenOut /\ TakenOut \in Int
  BY SMTT(60), <1>1, Spaces DEF SPSCInv, TypeInv, SpaceInv, Published
<1>4. sent' = sent + n /\ Published' = Published /\ TakenOut' = TakenOut
  BY <1>1, <1>2, <1>3 DEF WriteCopy, Published, TakenOut
<1> HIDE DEF n, rs
<1>5. TypeInv'
  <2>1. buf' \in [Indices -> Nat]
    <3>1. ASSUME NEW k \in Indices, write_ptr <= k /\ k < write_ptr + n
          PROVE  sent + 1 + (k - write_ptr) \in Nat
      BY SMTT(60), <3>1, <1>3 DEF SPSCInv, TypeInv, Indices
    <3>2. buf \in [Indices -> Nat]
      BY DEF SPSCInv, TypeInv
    <3> QED BY <3>1, <3>2 DEF WriteCopy, n
  <2> QED BY <2>1, <1>1, <1>2, <1>3, <1>4 DEF WriteCopy, SPSCInv, TypeInv
<1>6. SpaceInv'
  BY <1>2, <1>4 DEF WriteCopy, SPSCInv, SpaceInv
<1>7. HeldInv'
  <2>0. sent' - TakenOut' = rs + n /\ read_ptr' = read_ptr /\ TakenOut' = TakenOut
    BY <1>1, <1>3, <1>4 DEF WriteCopy
  <2> SUFFICES ASSUME NEW i \in 1 .. rs + n
               PROVE  buf'[Round(read_ptr + i - 1)] = TakenOut + i
    BY <2>0, Zenon DEF HeldInv
  <2> DEFINE k == Round(read_ptr + i - 1)
  <2>1. read_ptr \in 0 .. Size - 1 /\ k \in Indices
    BY <1>1, <1>3 DEF SPSCInv, TypeInv, Indices, Round
  <2>2. buf'[k] = IF write_ptr <= k /\ k < write_ptr + n THEN sent + 1 + (k - write_ptr) ELSE buf[k]
    BY <2>1 DEF WriteCopy, n
  <2>3. CASE i <= rs
    <3>1. ~(write_ptr <= k /\ k < write_ptr + n)
      BY <1>1, <1>3, <2>1, <2>3 DEF Round
    <3>2. buf[k] = TakenOut + i
      BY <1>3, <2>3 DEF SPSCInv, HeldInv
    <3> QED BY <2>2, <3>1, <3>2
  <2>4. CASE i > rs
    <3>1. k = write_ptr + (i - 1 - rs) /\ i - 1 - rs \in 0 .. n - 1
      BY <1>1, <1>3, <2>1, <2>4 DEF Round
    <3>2. write_ptr \in Int
      BY <1>3, <2>1 DEF Round
    <3>3. buf'[k] = sent + 1 + (i - 1 - rs)
      BY <2>2, <3>1, <3>2, <1>1
    <3> QED BY <3>3, <1>3
  <2> QED BY <2>3, <2>4, <1>1, <1>3
<1> QED BY <1>5, <1>6, <1>7 DEF SPSCInv, InOrder, WriteCopy

\* The writer publishes what it has copied.
LEMMA WriteAddKeeps ==
  ASSUME SPSCInv, ~WindowObserved, NEW here \in {"add1", "add2"}, NEW next,
         WriteAdd(here, Piece(writer), next),
         next = IF here = "add1" THEN "mask1" ELSE "mask2"
  PROVE  SPSCInv'
<1> DEFINE n == Piece(writer)
<1>1. /\ writer \in Call /\ n \in Nat /\ n <= Left(writer) /\ Unadded(writer) = n
      /\ write_ptr + n <= Size /\ write_ptr \in 0 .. Size - 1
  <2>1. writer \in Call /\ writer.pc \in {"add1", "add2"} /\ Fits(writer, write_ptr)
        /\ write_ptr \in 0 .. Size - 1
    BY DEF WriteAdd, SPSCInv, TypeInv, SpaceInv, Indices
  <2>2. n \in Nat /\ n <= Left(writer) /\ Unadded(writer) = n
    BY <2>1 DEF Call, Piece, Left, Unadded
  <2>3. write_ptr + n <= Size
    BY <2>1, SizeIsNat DEF Call, Piece, Fits
  <2> QED BY <2>1, <2>2, <2>3
<1>2. write_ptr' = Masked(write_ptr + n) /\ n \in 0 .. WriteSpace(write_ptr, read_ptr)
  BY <1>1, Spaces DEF WriteAdd, StoredBy, SPSCInv, SpaceInv
<1>3. /\ write_ptr' = Round(write_ptr + n) /\ write_ptr' \in Indices
      /\ ReadSpace(write_ptr', read_ptr) = ReadSpace(write_ptr, read_ptr) + n
  BY <1>2, WriterMoves DEF SPSCInv, TypeInv
<1>4. /\ writer' \in Call /\ Unadded(writer') = 0 /\ Left(writer') = Left(writer) - n
      /\ Fits(writer', write_ptr')
  BY <1>1, <1>3 DEF WriteAdd, SPSCInv, SpaceInv, Call, Piece, Left, Fits, Unadded, Round
<1>5. Published' = Published + n /\ TakenOut' = TakenOut /\ sent \in Nat
  BY <1>1, <1>4 DEF WriteAdd, SPSCInv, TypeInv, Published, TakenOut
<1> HIDE DEF n
<1>6. TypeInv'
  BY <1>3, <1>4 DEF WriteAdd, SPSCInv, TypeInv
<1>7. SpaceInv'
  <2>0. UNCHANGED <<read_ptr, reader>>
    BY DEF WriteAdd
  <2>1. WriteSpace(write_ptr', read_ptr) = Size - 1 - ReadSpace(write_ptr', read_ptr)
    BY <1>3, SpaceValues DEF SPSCInv, TypeInv
  <2>2. ReadSpace(write_ptr', read_ptr') = Published' - TakenOut'
    BY <2>0, <1>1, <1>3, <1>5, Spaces
  <2>3. Left(writer') <= WriteSpace(write_ptr', read_ptr')
    BY SMTT(60), <2>0, <2>1, <1>1, <1>3, <1>4, Spaces DEF SPSCInv, SpaceInv
  <2>4. Left(reader') <= ReadSpace(write_ptr', read_ptr')
    BY SMTT(60), <2>0, <1>1, <1>3, Spaces DEF SPSCInv, SpaceInv
  <2> QED BY <2>0, <2>2, <2>3, <2>4, <1>4 DEF SPSCInv, SpaceInv
<1>8. HeldInv' /\ InOrder'
  BY <1>5 DEF WriteAdd, SPSCInv, HeldInv, InOrder
<1> QED BY <1>6, <1>7, <1>8 DEF SPSCInv

\* The mask changes nothing that was masked with the addition.
LEMMA WriteMaskKeeps ==
  ASSUME SPSCInv, NEW here \in {"mask1", "mask2"}, NEW next, WriteMask(here, next),
         next = IF here = "mask1" THEN "copy2" ELSE "idle"
  PROVE  SPSCInv'
<1>1. write_ptr' = write_ptr
  BY MaskedValue DEF WriteMask, SPSCInv, TypeInv, Indices, Round
<1>2. /\ writer' \in Call /\ Unadded(writer) = 0 /\ Unadded(writer') = 0
      /\ Left(writer') <= Left(writer) /\ Fits(writer', write_ptr)
  <2>0. writer \in Call /\ writer.pc = here /\ Fits(writer, write_ptr)
    BY DEF WriteMask, SPSCInv, TypeInv, SpaceInv
  <2>1. Unadded(writer) = 0 /\ Left(writer) \in Nat
    BY <2>0 DEF Unadded, Left, Call
  <2>2. CASE writer' = Idle
    BY <2>1, <2>2, IdleFits
  <2>3. CASE writer' # Idle
    <3>1. writer' = [writer EXCEPT !.pc = "copy2"] /\ here = "mask1" /\ writer.n2 # 0
      BY <2>3 DEF WriteMask
    <3>2. /\ writer' \in Call /\ writer'.pc = "copy2" /\ writer'.n1 = writer.n1 /\ writer'.n2 = writer.n2
          /\ writer.n2 \in Nat
      BY <2>0, <3>1 DEF Call
    <3>3. Left(writer') = Left(writer) /\ Unadded(writer') = 0
      BY <2>0, <3>1, <3>2 DEF Left, Unadded
    <3>4. Fits(writer', write_ptr)
      BY <2>0, <3>1, <3>2, SizeIsNat DEF Fits
    <3> QED BY <2>1, <3>2, <3>3, <3>4
  <2> QED BY <2>2, <2>3
<1>3. Left(writer') <= WriteSpace(write_ptr, read_ptr)
  <2>1. Left(writer') \in Nat
    BY <1>2 DEF Call, Left
  <2>2. Left(writer) \in Nat /\ WriteSpace(write_ptr, read_ptr) \in Int
    BY Spaces, SizeIsNat
  <2>3. Left(writer) <= WriteSpace(write_ptr, read_ptr)
    BY DEF SPSCInv, SpaceInv
  <2> QED BY <1>2, <2>1, <2>2, <2>3
<1> QED BY <1>1, <1>2, <1>3, WriterPlans DEF WriteMask

\* The reader copies what was published, in its order.
LEMMA ReadCopyKeeps ==
  ASSUME SPSCInv, NEW here \in {"copy1", "copy2"}, NEW next,
         ReadCopy(here, Piece(reader), next),
         next = IF here = "copy1" THEN "add1" ELSE "add2"
  PROVE  SPSCInv'
<1> DEFINE n == Piece(reader)
           copied == [i \in 1 .. n |-> buf[read_ptr + i - 1]]
<1>1. /\ reader \in Call /\ n \in Nat /\ n <= Left(reader) /\ read_ptr + n <= Size
      /\ Unadded(reader) = 0 /\ read_ptr \in 0 .. Size - 1
  <2>1. reader \in Call /\ reader.pc \in {"copy1", "copy2"} /\ Fits(reader, read_ptr)
        /\ read_ptr \in 0 .. Size - 1
    BY DEF ReadCopy, SPSCInv, TypeInv, SpaceInv, Indices
  <2>2. n \in Nat /\ n <= Left(reader) /\ Unadded(reader) = 0
    BY <2>1 DEF Call, Piece, Left, Unadded
  <2>3. read_ptr + n <= Size
    BY <2>1, SizeIsNat DEF Call, Piece, Fits
  <2> QED BY <2>1, <2>2, <2>3
<1>2. /\ reader' \in Call /\ Unadded(reader') = n /\ Left(reader') = Left(reader)
      /\ Fits(reader', read_ptr)
  BY <1>1 DEF ReadCopy, SPSCInv, SpaceInv, Call, Piece, Left, Fits, Unadded
<1>3. /\ n <= sent - TakenOut /\ TakenOut = Len(received) /\ Len(received) \in Nat /\ sent \in Nat
  <2>1. ReadSpace(write_ptr, read_ptr) = Published - TakenOut /\ Len(received) \in Nat /\ sent \in Nat
        /\ Left(reader) <= ReadSpace(write_ptr, read_ptr) /\ Unadded(writer) \in Nat
        /\ Left(reader) \in Nat
    BY Spaces DEF SPSCInv, SpaceInv, TypeInv
  <2> HIDE DEF n
  <2> QED BY <2>1, <1>1 DEF Published, TakenOut
<1> HIDE DEF n
<1>4. \A i \in 1 .. n : copied[i] = Len(received) + i
  <2> SUFFICES ASSUME NEW i \in 1 .. n PROVE buf[read_ptr + i - 1] = Len(received) + i
    OBVIOUS
  <2>1. Round(read_ptr + i - 1) = read_ptr + i - 1
    BY <1>1 DEF Round
  <2>2. i \in 1 .. sent - TakenOut
    BY <1>1, <1>3
  <2> QED BY <2>1, <2>2, <1>3 DEF SPSCInv, HeldInv
<1>5. copied \in Seq(Nat) /\ Len(copied) = n
  <2>1. \A i \in 1 .. n : copied[i] \in Nat
    BY <1>3, <1>4
  <2>2. copied \in [1 .. n -> Nat]
    BY <2>1
  <2> QED BY <1>1, <2>2
<1>6. received' = received \o copied
  BY DEF ReadCopy, n
<1> HIDE DEF copied
<1>7. /\ received' \in Seq(Nat) /\ Len(received') = Len(received) + n
      /\ \A i \in 1 .. Len(received) + n :
           received'[i] = IF i <= Len(received) THEN received[i] ELSE copied[i - Len(received)]
  BY <1>5, <1>6, ConcatProperties DEF SPSCInv, TypeInv
<1>8. InOrder'
  <2> SUFFICES ASSUME NEW i \in 1 .. Len(received) + n PROVE received'[i] = i
    BY <1>7 DEF InOrder
  <2>1. CASE i <= Len(received)
    BY <2>1, <1>3, <1>7 DEF SPSCInv, InOrder
  <2>2. CASE i > Len(received)
    <3>1. i - Len(received) \in 1 .. n
      BY <2>2, <1>1, <1>3
    <3> QED BY <2>2, <3>1, <1>3, <1>4, <1>7
  <2> QED BY <2>1, <2>2, <1>3
<1>9. TakenOut' = TakenOut /\ Published' = Published
  <2>1. UNCHANGED <<sent, writer>>
    BY DEF ReadCopy
  <2> QED BY <2>1, <1>1, <1>2, <1>3, <1>7 DEF TakenOut, Published
<1>10. TypeInv'
  BY <1>2, <1>7 DEF ReadCopy, SPSCInv, TypeInv
<1>11. SpaceInv' /\ HeldInv'
  BY <1>2, <1>9 DEF ReadCopy, SPSCInv, SpaceInv, HeldInv
<1> QED BY <1>8, <1>10, <1>11 DEF SPSCInv

\* The reader gives back what it has copied.
LEMMA ReadAddKeeps ==
  ASSUME SPSCInv, ~WindowObserved, NEW here \in {"add1", "add2"}, NEW next,
         ReadAdd(here, Piece(reader), next),
         next = IF here = "add1" THEN "mask1" ELSE "mask2"
  PROVE  SPSCInv'
<1> DEFINE n == Piece(reader)
<1>1. /\ reader \in Call /\ n \in Nat /\ n <= Left(reader) /\ Unadded(reader) = n
      /\ read_ptr + n <= Size /\ read_ptr \in 0 .. Size - 1
  <2>1. reader \in Call /\ reader.pc \in {"add1", "add2"} /\ Fits(reader, read_ptr)
        /\ read_ptr \in 0 .. Size - 1
    BY DEF ReadAdd, SPSCInv, TypeInv, SpaceInv, Indices
  <2>2. n \in Nat /\ n <= Left(reader) /\ Unadded(reader) = n
    BY <2>1 DEF Call, Piece, Left, Unadded
  <2>3. read_ptr + n <= Size
    BY <2>1, SizeIsNat DEF Call, Piece, Fits
  <2> QED BY <2>1, <2>2, <2>3
<1>2. read_ptr' = Masked(read_ptr + n) /\ n \in 0 .. ReadSpace(write_ptr, read_ptr)
  BY <1>1, Spaces DEF ReadAdd, StoredBy, SPSCInv, SpaceInv
<1>3. /\ read_ptr' = Round(read_ptr + n) /\ read_ptr' \in Indices
      /\ ReadSpace(write_ptr, read_ptr') = ReadSpace(write_ptr, read_ptr) - n
  BY <1>2, ReaderMoves DEF SPSCInv, TypeInv
<1>4. /\ reader' \in Call /\ Unadded(reader') = 0 /\ Left(reader') = Left(reader) - n
      /\ Fits(reader', read_ptr')
  BY <1>1, <1>3 DEF ReadAdd, SPSCInv, SpaceInv, Call, Piece, Left, Fits, Unadded, Round
<1>5. Published' = Published /\ TakenOut' = TakenOut + n /\ sent' = sent /\ sent \in Nat /\ TakenOut \in Int
  <2>1. UNCHANGED <<sent, writer, received>> /\ sent \in Nat /\ Len(received) \in Nat /\ TakenOut \in Int
    BY Spaces DEF ReadAdd, SPSCInv, TypeInv
  <2> QED BY <2>1, <1>1, <1>4 DEF Published, TakenOut
<1> HIDE DEF n
<1>6. TypeInv'
  BY <1>3, <1>4 DEF ReadAdd, SPSCInv, TypeInv
<1>7. SpaceInv'
  <2>0. UNCHANGED <<write_ptr, writer>>
    BY DEF ReadAdd
  <2>1. WriteSpace(write_ptr, read_ptr') = Size - 1 - ReadSpace(write_ptr, read_ptr')
    BY <1>3, SpaceValues DEF SPSCInv, TypeInv
  <2>2. ReadSpace(write_ptr', read_ptr') = Published' - TakenOut'
    BY <2>0, <1>1, <1>3, <1>5, Spaces
  <2>3. Left(reader') <= ReadSpace(write_ptr', read_ptr')
    BY <2>0, <1>1, <1>3, <1>4, Spaces DEF SPSCInv, SpaceInv
  <2>4. Left(writer') <= WriteSpace(write_ptr', read_ptr')
    BY SMTT(60), <2>0, <2>1, <1>1, <1>3, Spaces DEF SPSCInv, SpaceInv
  <2> QED BY <2>0, <2>2, <2>3, <2>4, <1>4 DEF SPSCInv, SpaceInv
<1>8. HeldInv'
  <2> SUFFICES ASSUME NEW i \in 1 .. sent - TakenOut - n
               PROVE  buf[Round(Round(read_ptr + n) + i - 1)] = TakenOut + n + i
    BY <1>3, <1>5, <1>1 DEF HeldInv, ReadAdd
  <2>1. sent - TakenOut <= Size - 1
    <3>1. /\ Unadded(writer) <= Left(writer) /\ Left(writer) <= Size - 1 - (Published - TakenOut)
          /\ Unadded(writer) \in Nat /\ Left(writer) \in Nat
      <4>1. /\ Left(writer) <= WriteSpace(write_ptr, read_ptr)
            /\ WriteSpace(write_ptr, read_ptr) = Size - 1 - (Published - TakenOut)
            /\ Unadded(writer) \in Nat /\ Left(writer) \in Nat
        BY Spaces DEF SPSCInv, SpaceInv
      <4>2. Unadded(writer) <= Left(writer)
        BY DEF SPSCInv, TypeInv, Unadded, Left, Call, Piece
      <4> QED BY <4>1, <4>2
    <3> QED BY <3>1, <1>5 DEF Published
  <2>2. Round(Round(read_ptr + n) + i - 1) = Round(read_ptr + (n + i) - 1)
    BY <1>1, <1>5, <2>1 DEF Round
  <2>3. n + i \in 1 .. sent - TakenOut
    BY <1>1, <1>5
  <2> QED BY <2>2, <2>3, <1>1, <1>5 DEF SPSCInv, HeldInv
<1> QED BY <1>6, <1>7, <1>8 DEF SPSCInv, InOrder, ReadAdd

LEMMA ReadMaskKeeps ==
  ASSUME SPSCInv, NEW here \in {"mask1", "mask2"}, NEW next, ReadMask(here, next),
         next = IF here = "mask1" THEN "copy2" ELSE "idle"
  PROVE  SPSCInv'
<1>1. read_ptr' = read_ptr
  BY MaskedValue DEF ReadMask, SPSCInv, TypeInv, Indices, Round
<1>2. /\ reader' \in Call /\ Unadded(reader) = 0 /\ Unadded(reader') = 0
      /\ Left(reader') <= Left(reader) /\ Fits(reader', read_ptr)
  <2>0. reader \in Call /\ reader.pc = here /\ Fits(reader, read_ptr)
    BY DEF ReadMask, SPSCInv, TypeInv, SpaceInv
  <2>1. Unadded(reader) = 0 /\ Left(reader) \in Nat
    BY <2>0 DEF Unadded, Left, Call
  <2>2. CASE reader' = Idle
    BY <2>1, <2>2, IdleFits
  <2>3. CASE reader' # Idle
    <3>1. reader' = [reader EXCEPT !.pc = "copy2"] /\ here = "mask1" /\ reader.n2 # 0
      BY <2>3 DEF ReadMask
    <3>2. /\ reader' \in Call /\ reader'.pc = "copy2" /\ reader'.n1 = reader.n1 /\ reader'.n2 = reader.n2
          /\ reader.n2 \in Nat
      BY <2>0, <3>1 DEF Call
    <3>3. Left(reader') = Left(reader) /\ Unadded(reader') = 0
      BY <2>0, <3>1, <3>2 DEF Left, Unadded
    <3>4. Fits(reader', read_ptr)
      BY <2>0, <3>1, <3>2, SizeIsNat DEF Fits
    <3> QED BY <2>1, <3>2, <3>3, <3>4
  <2> QED BY <2>2, <2>3
<1>3. Left(reader') <= ReadSpace(write_ptr, read_ptr)
  <2>1. Left(reader') \in Nat
    BY <1>2 DEF Call, Left
  <2>2. Left(reader) \in Nat /\ ReadSpace(write_ptr, read_ptr) \in Int
    BY Spaces, SizeIsNat
  <2>3. Left(reader) <= ReadSpace(write_ptr, read_ptr)
    BY DEF SPSCInv, SpaceInv
  <2> QED BY <1>2, <2>1, <2>2, <2>3
<1> QED BY <1>1, <1>2, <1>3, ReaderPlans DEF ReadMask

LEMMA StepSPSCInv == ~WindowObserved /\ SPSCInv /\ [Next]_vars => SPSCInv'
<1> SUFFICES ASSUME ~WindowObserved, SPSCInv, [Next]_vars PROVE SPSCInv'
  OBVIOUS
<1>1. ASSUME NEW cnt \in Blocks, WriteCall(cnt) PROVE SPSCInv'
  <2>1. writer' = [Idle EXCEPT !.pc = "space", !.cnt = cnt] /\ cnt \in Nat /\ writer.pc = "idle"
    BY <1>1 DEF WriteCall
  <2>2. writer' \in Call /\ writer'.pc = "space" /\ writer'.n2 = 0
    BY <2>1 DEF Idle, Call
  <2>3. Unadded(writer) = 0 /\ Unadded(writer') = 0 /\ Left(writer') = 0 /\ Fits(writer', write_ptr)
    BY <2>1, <2>2 DEF Unadded, Left, Fits
  <2> QED BY <1>1, <2>2, <2>3, Spaces, WriterPlans DEF WriteCall
<1>2. ASSUME NEW cnt \in Blocks, ReadCall(cnt) PROVE SPSCInv'
  <2>1. reader' = [Idle EXCEPT !.pc = "space", !.cnt = cnt] /\ cnt \in Nat /\ reader.pc = "idle"
    BY <1>2 DEF ReadCall
  <2>2. reader' \in Call /\ reader'.pc = "space" /\ reader'.n2 = 0
    BY <2>1 DEF Idle, Call
  <2>3. Unadded(reader) = 0 /\ Unadded(reader') = 0 /\ Left(reader') = 0 /\ Fits(reader', read_ptr)
    BY <2>1, <2>2 DEF Unadded, Left, Fits
  <2> QED BY <1>2, <2>2, <2>3, Spaces, ReaderPlans DEF ReadCall
<1>3. CASE WriteLoadSpace
  <2> DEFINE n == AtMost(writer.cnt, WriteSpace(write_ptr, read_ptr))
  <2>1. /\ writer \in Call /\ write_ptr \in Indices
        /\ n \in 0 .. Size - 1 /\ n <= WriteSpace(write_ptr, read_ptr)
    <3>1. writer.cnt \in Nat /\ WriteSpace(write_ptr, read_ptr) \in 0 .. Size - 1
      <4>1. writer.cnt \in Nat
        BY DEF SPSCInv, TypeInv, Call
      <4>2. WriteSpace(write_ptr, read_ptr) \in 0 .. Size - 1
        BY Spaces
      <4> QED BY <4>1, <4>2
    <3> QED BY <3>1 DEF AtMost, SPSCInv, TypeInv
  <2>2. Unadded(writer) = 0
    BY <1>3 DEF WriteLoadSpace, Unadded
  <2>3. writer' = Idle \/ writer' = Pieces(writer, write_ptr, n)
    BY <1>3 DEF WriteLoadSpace
  <2> HIDE DEF n
  <2>4. /\ writer' \in Call /\ Unadded(writer') = 0 /\ Fits(writer', write_ptr)
        /\ Left(writer') <= WriteSpace(write_ptr, read_ptr)
    BY <2>1, <2>3, PiecesFit, IdleFits, Spaces
  <2> QED BY <1>3, <2>1, <2>2, <2>4, WriterPlans DEF WriteLoadSpace
<1>4. CASE ReadLoadSpace
  <2> DEFINE n == AtMost(reader.cnt, ReadSpace(write_ptr, read_ptr))
  <2>1. /\ reader \in Call /\ read_ptr \in Indices
        /\ n \in 0 .. Size - 1 /\ n <= ReadSpace(write_ptr, read_ptr)
    <3>1. reader.cnt \in Nat /\ ReadSpace(write_ptr, read_ptr) \in 0 .. Size - 1
      <4>1. reader.cnt \in Nat
        BY DEF SPSCInv, TypeInv, Call
      <4>2. ReadSpace(write_ptr, read_ptr) \in 0 .. Size - 1
        BY Spaces
      <4> QED BY <4>1, <4>2
    <3> QED BY <3>1 DEF AtMost, SPSCInv, TypeInv
  <2>2. Unadded(reader) = 0
    BY <1>4 DEF ReadLoadSpace, Unadded
  <2>3. reader' = Idle \/ reader' = Pieces(reader, read_ptr, n)
    BY <1>4 DEF ReadLoadSpace
  <2> HIDE DEF n
  <2>4. /\ reader' \in Call /\ Unadded(reader') = 0 /\ Fits(reader', read_ptr)
        /\ Left(reader') <= ReadSpace(write_ptr, read_ptr)
    BY <2>1, <2>3, PiecesFit, IdleFits, Spaces
  <2> QED BY <1>4, <2>1, <2>2, <2>4, ReaderPlans DEF ReadLoadSpace
<1>5. CASE WriteCopy("copy1", writer.n1, "add1") \/ WriteCopy("copy2", writer.n2, "add2")
  <2>1. CASE WriteCopy("copy1", writer.n1, "add1")
    <3>1. Piece(writer) = writer.n1
      BY <2>1 DEF WriteCopy, Piece
    <3> QED BY <2>1, <3>1, WriteCopyKeeps
  <2>2. CASE WriteCopy("copy2", writer.n2, "add2")
    <3>1. Piece(writer) = writer.n2
      BY <2>2 DEF WriteCopy, Piece
    <3> QED BY <2>2, <3>1, WriteCopyKeeps
  <2> QED BY <1>5, <2>1, <2>2
<1>6. CASE WriteAdd("add1", writer.n1, "mask1") \/ WriteAdd("add2", writer.n2, "mask2")
  <2>1. CASE WriteAdd("add1", writer.n1, "mask1")
    <3>1. Piece(writer) = writer.n1
      BY <2>1 DEF WriteAdd, Piece
    <3> QED BY <2>1, <3>1, WriteAddKeeps
  <2>2. CASE WriteAdd("add2", writer.n2, "mask2")
    <3>1. Piece(writer) = writer.n2
      BY <2>2 DEF WriteAdd, Piece
    <3> QED BY <2>2, <3>1, WriteAddKeeps
  <2> QED BY <1>6, <2>1, <2>2
<1>7. CASE WriteMask("mask1", "copy2") \/ WriteMask("mask2", "idle")
  BY <1>7, WriteMaskKeeps
<1>8. CASE ReadCopy("copy1", reader.n1, "add1") \/ ReadCopy("copy2", reader.n2, "add2")
  <2>1. CASE ReadCopy("copy1", reader.n1, "add1")
    <3>1. Piece(reader) = reader.n1
      BY <2>1 DEF ReadCopy, Piece
    <3> QED BY <2>1, <3>1, ReadCopyKeeps
  <2>2. CASE ReadCopy("copy2", reader.n2, "add2")
    <3>1. Piece(reader) = reader.n2
      BY <2>2 DEF ReadCopy, Piece
    <3> QED BY <2>2, <3>1, ReadCopyKeeps
  <2> QED BY <1>8, <2>1, <2>2
<1>9. CASE ReadAdd("add1", reader.n1, "mask1") \/ ReadAdd("add2", reader.n2, "mask2")
  <2>1. CASE ReadAdd("add1", reader.n1, "mask1")
    <3>1. Piece(reader) = reader.n1
      BY <2>1 DEF ReadAdd, Piece
    <3> QED BY <2>1, <3>1, ReadAddKeeps
  <2>2. CASE ReadAdd("add2", reader.n2, "mask2")
    <3>1. Piece(reader) = reader.n2
      BY <2>2 DEF ReadAdd, Piece
    <3> QED BY <2>2, <3>1, ReadAddKeeps
  <2> QED BY <1>9, <2>1, <2>2
<1>10. CASE ReadMask("mask1", "copy2") \/ ReadMask("mask2", "idle")
  BY <1>10, ReadMaskKeeps
<1>11. CASE UNCHANGED vars
  BY <1>11 DEF vars, SPSCInv, TypeInv, SpaceInv, HeldInv, InOrder, Published, TakenOut
<1> QED BY <1>1, <1>2, <1>3, <1>4, <1>5, <1>6, <1>7, <1>8, <1>9, <1>10, <1>11
  DEF Next, WriterStep, ReaderStep

LEMMA SPSCInvHolds == ~WindowObserved => (Spec => []SPSCInv)
<1> SUFFICES ASSUME ~WindowObserved PROVE Spec => []SPSCInv
  OBVIOUS
<1>1. SPSCInv /\ [Next]_vars => SPSCInv'
  BY StepSPSCInv
<1> QED BY <1>1, InitSPSCInv, PTL DEF Spec

\* ringbuffer_write and ringbuffer_read, "safe for the case of one read thread
\* and one write thread": every byte that the writer sent is read once and in
\* order, and none is read that was not sent, wherever either thread is in its
\* call when the other computes its space.
THEOREM ReadsWhatWasWritten == ~WindowObserved => (Spec => []InOrder)
<1> SUFFICES ASSUME ~WindowObserved PROVE Spec => []InOrder
  OBVIOUS
<1>1. Spec => []SPSCInv
  BY SPSCInvHolds
<1>2. SPSCInv => InOrder
  BY DEF SPSCInv
<1> QED BY <1>1, <1>2, PTL

\* The memcpy of either thread: no place of the block is in both.
THEOREM ThreadsCopyApart == ~WindowObserved => (Spec => []CopiesAreDisjoint)
<1> SUFFICES ASSUME ~WindowObserved PROVE Spec => []CopiesAreDisjoint
  OBVIOUS
<1>1. Spec => []SPSCInv
  BY SPSCInvHolds
<1>2. SPSCInv => CopiesAreDisjoint
  <2> SUFFICES ASSUME SPSCInv, NEW k \in Copying(writer, write_ptr) \intersect Copying(reader, read_ptr)
               PROVE  FALSE
    BY DEF CopiesAreDisjoint
  <2> DEFINE w == Piece(writer)
             r == Piece(reader)
             rs == Published - TakenOut
  <2>1. /\ w \in Nat /\ w <= Left(writer) /\ write_ptr + w <= Size
        /\ write_ptr <= k /\ k < write_ptr + w /\ write_ptr \in 0 .. Size - 1
    <3>1. writer \in Call /\ writer.pc \in {"copy1", "copy2"} /\ Fits(writer, write_ptr)
          /\ write_ptr \in 0 .. Size - 1 /\ k \in write_ptr .. write_ptr + w - 1
      BY DEF Copying, SPSCInv, TypeInv, SpaceInv, Indices, Piece
    <3>2. w \in Nat /\ w <= Left(writer)
      BY <3>1 DEF Call, Piece, Left
    <3>3. write_ptr + w <= Size
      BY <3>1, SizeIsNat DEF Call, Piece, Fits
    <3> QED BY <3>1, <3>2, <3>3
  <2>2. /\ r \in Nat /\ r <= Left(reader) /\ read_ptr + r <= Size
        /\ read_ptr <= k /\ k < read_ptr + r /\ read_ptr \in 0 .. Size - 1 /\ k \in Int
    <3>1. reader \in Call /\ reader.pc \in {"copy1", "copy2"} /\ Fits(reader, read_ptr)
          /\ read_ptr \in 0 .. Size - 1 /\ k \in read_ptr .. read_ptr + r - 1
      BY DEF Copying, SPSCInv, TypeInv, SpaceInv, Indices, Piece
    <3>2. r \in Nat /\ r <= Left(reader)
      BY <3>1 DEF Call, Piece, Left
    <3>3. read_ptr + r <= Size
      BY <3>1, SizeIsNat DEF Call, Piece, Fits
    <3> QED BY <3>1, <3>2, <3>3
  <2>3. /\ rs \in 0 .. Size - 1 /\ Left(writer) <= Size - 1 - rs /\ Left(reader) <= rs
        /\ Left(writer) \in Nat /\ Left(reader) \in Nat /\ write_ptr = Round(read_ptr + rs)
    BY Spaces DEF SPSCInv, SpaceInv
  <2> HIDE DEF w, r, rs
  <2> QED BY <2>1, <2>2, <2>3 DEF Round
<1> QED BY <1>1, <1>2, PTL

-----------------------------------------------------------------------------
(* Two threads share a queue *)

\* What stands in the block for the reader, from its pointer on; what the reader has
\* been given and has left in the block no longer.
Held == [i \in 1 .. ReadSpace(write_ptr, read_ptr) |-> buf[Round(read_ptr + i - 1)]]
Drained == SubSeq(received, 1, TakenOut)

Shared == INSTANCE SharedFifo WITH Capacity <- Size - 1, contents <- Held, taken <- Drained

\* Bytes in the order they were written, from t + 1 on.
Run(t, n) == [i \in 1 .. n |-> t + i]

LEMMA RunValues ==
  ASSUME NEW t \in Nat, NEW n \in Nat
  PROVE  /\ Run(t, n) \in Seq(Nat) /\ Len(Run(t, n)) = n
         /\ \A i \in 1 .. n : Run(t, n)[i] = t + i
<1>1. \A i \in 1 .. n : t + i \in Nat
  OBVIOUS
<1>2. Run(t, n) \in [1 .. n -> Nat]
  BY <1>1 DEF Run
<1> QED BY <1>2 DEF Run

\* The front of a run is a run.
LEMMA RunFront ==
  ASSUME NEW t \in Nat, NEW n \in Nat, NEW k \in Nat
  PROVE  SubSeq(Run(t, n + k), 1, n) = Run(t, n)
<1> DEFINE whole == Run(t, n + k)
           one == Run(t, n)
<1>1. /\ whole \in Seq(Nat) /\ Len(whole) = n + k /\ \A i \in 1 .. n + k : whole[i] = t + i
      /\ one \in Seq(Nat) /\ Len(one) = n /\ \A i \in 1 .. n : one[i] = t + i
  <2>1. n + k \in Nat /\ t + n \in Nat
    OBVIOUS
  <2> QED BY <2>1, RunValues
<1> HIDE DEF whole, one
<1>2. SubSeq(whole, 1, n) = one
  <2>1. \A i \in 1 .. n : whole[i] \in Nat
    BY <1>1
  <2>2. /\ SubSeq(whole, 1, n) \in Seq(Nat) /\ Len(SubSeq(whole, 1, n)) = n
        /\ \A i \in 1 .. n : SubSeq(whole, 1, n)[i] = whole[i]
    BY <2>1, SubSeqProperties
  <2>3. \A i \in 1 .. n : SubSeq(whole, 1, n)[i] = one[i]
    BY <1>1, <2>2
  <2> QED BY <1>1, <2>2, <2>3, SeqEqual
<1> QED BY <1>2 DEF whole, one

\* What follows the front is a run.
LEMMA RunBack ==
  ASSUME NEW t \in Nat, NEW n \in Nat, NEW k \in Nat
  PROVE  SubSeq(Run(t, n + k), n + 1, n + k) = Run(t + n, k)
<1> DEFINE whole == Run(t, n + k)
           two == Run(t + n, k)
<1>1. /\ whole \in Seq(Nat) /\ Len(whole) = n + k /\ \A i \in 1 .. n + k : whole[i] = t + i
      /\ two \in Seq(Nat) /\ Len(two) = k /\ \A i \in 1 .. k : two[i] = t + n + i
  <2>1. n + k \in Nat /\ t + n \in Nat
    OBVIOUS
  <2> QED BY <2>1, RunValues
<1> HIDE DEF whole, two
<1>2. SubSeq(whole, n + 1, n + k) = two
  <2>1. \A i \in n + 1 .. n + k : whole[i] \in Nat
    BY <1>1
  <2>2. /\ SubSeq(whole, n + 1, n + k) \in Seq(Nat) /\ Len(SubSeq(whole, n + 1, n + k)) = k
        /\ \A i \in 1 .. k : SubSeq(whole, n + 1, n + k)[i] = whole[n + i]
    BY <2>1, SubSeqProperties
  <2>3. \A i \in 1 .. k : SubSeq(whole, n + 1, n + k)[i] = two[i]
    BY <1>1, <2>2
  <2> QED BY <1>1, <2>2, <2>3, SeqEqual
<1> QED BY <1>2 DEF whole, two

\* Where a run is cut, two runs meet.
LEMMA RunsMeet ==
  ASSUME NEW t \in Nat, NEW n \in Nat, NEW k \in Nat
  PROVE  Run(t, n) \o Run(t + n, k) = Run(t, n + k)
<1> DEFINE whole == Run(t, n + k)
           one == Run(t, n)
           two == Run(t + n, k)
<1>1. /\ whole \in Seq(Nat) /\ Len(whole) = n + k /\ \A i \in 1 .. n + k : whole[i] = t + i
      /\ one \in Seq(Nat) /\ Len(one) = n /\ \A i \in 1 .. n : one[i] = t + i
      /\ two \in Seq(Nat) /\ Len(two) = k /\ \A i \in 1 .. k : two[i] = t + n + i
  <2>1. n + k \in Nat /\ t + n \in Nat
    OBVIOUS
  <2> QED BY <2>1, RunValues
<1> HIDE DEF whole, one, two
<1>2. one \o two = whole
  <2>1. /\ one \o two \in Seq(Nat) /\ Len(one \o two) = n + k
        /\ \A i \in 1 .. n + k : (one \o two)[i] = IF i <= n THEN one[i] ELSE two[i - n]
    <3>1. /\ one \o two \in Seq(Nat) /\ Len(one \o two) = Len(one) + Len(two)
          /\ \A i \in 1 .. Len(one) + Len(two) :
               (one \o two)[i] = IF i <= Len(one) THEN one[i] ELSE two[i - Len(one)]
      <4>1. one \in Seq(Nat) /\ two \in Seq(Nat)
        BY <1>1
      <4> QED BY <4>1, ConcatProperties, Zenon
    <3>2. Len(one) = n /\ Len(two) = k
      BY <1>1
    <3> QED BY <3>1, <3>2, Zenon
  <2>2. ASSUME NEW i \in 1 .. n + k PROVE (one \o two)[i] = whole[i]
    <3>1. CASE i <= n
      BY <3>1, <1>1, <2>1
    <3>2. CASE ~(i <= n)
      <4>1. i - n \in 1 .. k /\ t + n + (i - n) = t + i
        BY <3>2
      <4>2. (one \o two)[i] = two[i - n]
        BY <3>2, <2>1, Zenon
      <4>3. two[i - n] = t + n + (i - n) /\ whole[i] = t + i
        BY <4>1, <1>1, Zenon
      <4> QED BY <4>1, <4>2, <4>3, Zenon
    <3> QED BY <3>1, <3>2
  <2> QED BY <1>1, <2>1, <2>2, SeqEqual
<1> QED BY <1>2 DEF whole, one, two

\* The reader has copied what it is about to take.
CopiedFirst == TakenOut \in Nat

\* The bytes it has taken, and after
\* them those it may see, are the first that were written.
FifoInv ==
  /\ CopiedFirst /\ Published - TakenOut \in 0 .. Size - 1 /\ Published \in Int
  /\ Held = Run(TakenOut, Published - TakenOut)
  /\ Drained = Run(0, TakenOut)

LEMMA FifoHolds == SPSCInv /\ CopiedFirst => FifoInv
<1> SUFFICES ASSUME SPSCInv, CopiedFirst, TakenOut \in Nat PROVE FifoInv
  BY DEF CopiedFirst
<1> DEFINE n == Published - TakenOut
<1>1. /\ Unadded(writer) \in Nat /\ Unadded(reader) \in Nat /\ Len(received) \in Nat
      /\ Published \in Int /\ n \in 0 .. Size - 1 /\ ReadSpace(write_ptr, read_ptr) = n
  BY Spaces
<1>2. sent \in Nat /\ received \in Seq(Nat)
  BY DEF SPSCInv, TypeInv
<1>3. n <= sent - TakenOut
  BY <1>1, <1>2 DEF Published
<1>4. TakenOut <= Len(received)
  BY <1>1 DEF TakenOut
<1>5. Held = Run(TakenOut, n)
  <2>1. \A i \in 1 .. n : buf[Round(read_ptr + i - 1)] = TakenOut + i
    <3> SUFFICES ASSUME NEW i \in 1 .. n PROVE buf[Round(read_ptr + i - 1)] = TakenOut + i
      OBVIOUS
    <3>1. i \in 1 .. sent - TakenOut
      BY <1>1, <1>2, <1>3
    <3> QED BY <3>1 DEF SPSCInv, HeldInv
  <2> HIDE DEF n
  <2> QED BY <1>1, <2>1, Zenon DEF Held, Run
<1>6. Drained = Run(0, TakenOut)
  <2>1. \A i \in 1 .. Len(received) : received[i] = i
    BY DEF SPSCInv, InOrder
  <2>2. \A i \in 1 .. TakenOut : received[i] \in Nat /\ received[i] = 0 + i
    BY <1>1, <1>4, <2>1
  <2>3. /\ Drained \in Seq(Nat) /\ Len(Drained) = TakenOut
        /\ \A i \in 1 .. TakenOut : Drained[i] = received[i]
    BY <2>2, SubSeqProperties DEF Drained
  <2>4. /\ Run(0, TakenOut) \in Seq(Nat) /\ Len(Run(0, TakenOut)) = TakenOut
        /\ \A i \in 1 .. TakenOut : Run(0, TakenOut)[i] = 0 + i
    BY RunValues
  <2>5. \A i \in 1 .. Len(Drained) : Drained[i] = Run(0, TakenOut)[i]
    BY <2>2, <2>3, <2>4
  <2> QED BY <2>3, <2>4, <2>5, SeqEqual
<1> QED BY <1>1, <1>5, <1>6 DEF FifoInv

\* A call has nothing to add before and after its copy.
LEMMA NothingUnadded ==
  ASSUME NEW call \in Call
  PROVE  /\ call.pc \notin {"add1", "add2"} => Unadded(call) = 0
         /\ call.pc = "add1" => Unadded(call) = call.n1
         /\ call.pc = "add2" => Unadded(call) = call.n2
         /\ call.n1 \in Nat /\ call.n2 \in Nat /\ Unadded(call) \in Nat
BY DEF Call, Unadded, Piece

\* What a step does to the two counts: only an addition to a pointer moves one.
LEMMA CountsMove ==
  ASSUME SPSCInv, CopiedFirst, [Next]_vars, SPSCInv'
  PROVE  \/ Published' = Published /\ TakenOut' = TakenOut
         \/ TakenOut' = TakenOut /\ \E n \in Nat : Published' = Published + n
         \/ Published' = Published /\ \E n \in Nat : TakenOut' = TakenOut + n
<1>1. /\ writer \in Call /\ reader \in Call /\ sent \in Nat /\ received \in Seq(Nat)
      /\ writer' \in Call /\ reader' \in Call /\ sent' \in Nat /\ received' \in Seq(Nat)
      /\ Len(received) \in Nat /\ Len(received') \in Nat
  BY LenProperties DEF SPSCInv, TypeInv
<1>2. ASSUME UNCHANGED <<sent, received>>, Unadded(writer') = Unadded(writer),
             Unadded(reader') = Unadded(reader)
      PROVE  Published' = Published /\ TakenOut' = TakenOut
  BY <1>2 DEF Published, TakenOut
<1>3. ASSUME NEW cnt \in Blocks, WriteCall(cnt) \/ ReadCall(cnt)
      PROVE  Published' = Published /\ TakenOut' = TakenOut
  <2>1. CASE WriteCall(cnt)
    <3>1. writer.pc = "idle" /\ writer'.pc = "space" /\ UNCHANGED <<sent, received, reader>>
      BY <2>1 DEF WriteCall, Idle
    <3> QED BY <3>1, <1>1, <1>2, NothingUnadded
  <2>2. CASE ReadCall(cnt)
    <3>1. reader.pc = "idle" /\ reader'.pc = "space" /\ UNCHANGED <<sent, received, writer>>
      BY <2>2 DEF ReadCall, Idle
    <3> QED BY <3>1, <1>1, <1>2, NothingUnadded
  <2> QED BY <1>3, <2>1, <2>2
<1>4. CASE WriteLoadSpace
  <2>1. writer.pc = "space" /\ writer'.pc \in {"idle", "copy1"} /\ UNCHANGED <<sent, received, reader>>
    BY <1>4, <1>1 DEF WriteLoadSpace, Idle, Pieces, Call
  <2> QED BY <2>1, <1>1, <1>2, NothingUnadded
<1>5. CASE ReadLoadSpace
  <2>1. reader.pc = "space" /\ reader'.pc \in {"idle", "copy1"} /\ UNCHANGED <<sent, received, writer>>
    BY <1>5, <1>1 DEF ReadLoadSpace, Idle, Pieces, Call
  <2> QED BY <2>1, <1>1, <1>2, NothingUnadded
<1>6. CASE WriteCopy("copy1", writer.n1, "add1") \/ WriteCopy("copy2", writer.n2, "add2")
  <2>1. /\ \/ writer.pc = "copy1" /\ writer' = [writer EXCEPT !.pc = "add1"] /\ sent' = sent + writer.n1
           \/ writer.pc = "copy2" /\ writer' = [writer EXCEPT !.pc = "add2"] /\ sent' = sent + writer.n2
        /\ UNCHANGED <<received, reader>>
    BY <1>6 DEF WriteCopy
  <2>2. Unadded(writer) = 0 /\ sent' = sent + Unadded(writer') /\ Unadded(writer') \in Nat
    <3>1. CASE writer.pc = "copy1" /\ writer' = [writer EXCEPT !.pc = "add1"] /\ sent' = sent + writer.n1
      <4>1. writer'.pc = "add1" /\ writer'.n1 = writer.n1
        BY <3>1, <1>1 DEF Call
      <4> QED BY <3>1, <4>1, <1>1, NothingUnadded
    <3>2. CASE writer.pc = "copy2" /\ writer' = [writer EXCEPT !.pc = "add2"] /\ sent' = sent + writer.n2
      <4>1. writer'.pc = "add2" /\ writer'.n2 = writer.n2
        BY <3>2, <1>1 DEF Call
      <4> QED BY <3>2, <4>1, <1>1, NothingUnadded
    <3> QED BY <2>1, <3>1, <3>2
  <2> QED BY <2>1, <2>2, <1>1 DEF Published, TakenOut
<1>7. CASE WriteAdd("add1", writer.n1, "mask1") \/ WriteAdd("add2", writer.n2, "mask2")
  <2>1. /\ writer.pc \in {"add1", "add2"} /\ writer'.pc \in {"mask1", "mask2"}
        /\ UNCHANGED <<sent, received, reader>>
    BY <1>7, <1>1 DEF WriteAdd, Call
  <2>2. Unadded(writer') = 0 /\ Unadded(writer) \in Nat
    BY <2>1, <1>1, NothingUnadded
  <2>3. Published' = Published + Unadded(writer) /\ TakenOut' = TakenOut
    BY <2>1, <2>2, <1>1 DEF Published, TakenOut
  <2> QED BY <2>2, <2>3
<1>8. CASE WriteMask("mask1", "copy2") \/ WriteMask("mask2", "idle")
  <2>1. /\ writer.pc \in {"mask1", "mask2"} /\ writer'.pc \in {"copy2", "idle"}
        /\ UNCHANGED <<sent, received, reader>>
    BY <1>8, <1>1 DEF WriteMask, Idle, Call
  <2> QED BY <2>1, <1>1, <1>2, NothingUnadded
<1>9. CASE ReadCopy("copy1", reader.n1, "add1") \/ ReadCopy("copy2", reader.n2, "add2")
  <2> DEFINE copied(m) == [i \in 1 .. m |-> buf[read_ptr + i - 1]]
  <2>1. /\ \/ /\ reader.pc = "copy1" /\ reader' = [reader EXCEPT !.pc = "add1"]
              /\ received' = received \o copied(reader.n1)
           \/ /\ reader.pc = "copy2" /\ reader' = [reader EXCEPT !.pc = "add2"]
              /\ received' = received \o copied(reader.n2)
        /\ UNCHANGED <<sent, writer>>
    BY <1>9 DEF ReadCopy
  <2>2. ASSUME NEW m \in Nat, received' = received \o copied(m)
        PROVE  Len(received') = Len(received) + m
    BY <2>2, <1>1
  <2> HIDE DEF copied
  <2>3. Unadded(reader) = 0 /\ Len(received') = Len(received) + Unadded(reader')
        /\ Unadded(reader') \in Nat
    <3>1. CASE /\ reader.pc = "copy1" /\ reader' = [reader EXCEPT !.pc = "add1"]
               /\ received' = received \o copied(reader.n1)
      <4>1. reader'.pc = "add1" /\ reader'.n1 = reader.n1
        BY <3>1, <1>1 DEF Call
      <4>2. reader.n1 \in Nat /\ Unadded(reader) = 0 /\ Unadded(reader') = reader.n1
        BY <3>1, <4>1, <1>1, NothingUnadded
      <4>3. Len(received') = Len(received) + reader.n1
        BY <3>1, <4>2, <2>2, Zenon
      <4> QED BY <4>2, <4>3, Zenon
    <3>2. CASE /\ reader.pc = "copy2" /\ reader' = [reader EXCEPT !.pc = "add2"]
               /\ received' = received \o copied(reader.n2)
      <4>1. reader'.pc = "add2" /\ reader'.n2 = reader.n2
        BY <3>2, <1>1 DEF Call
      <4>2. reader.n2 \in Nat /\ Unadded(reader) = 0 /\ Unadded(reader') = reader.n2
        BY <3>2, <4>1, <1>1, NothingUnadded
      <4>3. Len(received') = Len(received) + reader.n2
        BY <3>2, <4>2, <2>2, Zenon
      <4> QED BY <4>2, <4>3, Zenon
    <3> QED BY <2>1, <3>1, <3>2
  <2>4. Published' = Published
    BY <2>1 DEF Published
  <2>5. TakenOut' = TakenOut
    BY <2>3, <1>1 DEF TakenOut
  <2> QED BY <2>4, <2>5
<1>10. CASE ReadAdd("add1", reader.n1, "mask1") \/ ReadAdd("add2", reader.n2, "mask2")
  <2>1. /\ reader.pc \in {"add1", "add2"} /\ reader'.pc \in {"mask1", "mask2"}
        /\ UNCHANGED <<sent, received, writer>>
    BY <1>10, <1>1 DEF ReadAdd, Call
  <2>2. Unadded(reader') = 0 /\ Unadded(reader) \in Nat
    BY <2>1, <1>1, NothingUnadded
  <2>3. TakenOut' = TakenOut + Unadded(reader) /\ Published' = Published
    BY <2>1, <2>2, <1>1 DEF Published, TakenOut
  <2> QED BY <2>2, <2>3
<1>11. CASE ReadMask("mask1", "copy2") \/ ReadMask("mask2", "idle")
  <2>1. /\ reader.pc \in {"mask1", "mask2"} /\ reader'.pc \in {"copy2", "idle"}
        /\ UNCHANGED <<sent, received, writer>>
    BY <1>11, <1>1 DEF ReadMask, Idle, Call
  <2> QED BY <2>1, <1>1, <1>2, NothingUnadded
<1>12. CASE UNCHANGED vars
  BY <1>12, <1>2 DEF vars
<1> QED BY <1>3, <1>4, <1>5, <1>6, <1>7, <1>8, <1>9, <1>10, <1>11, <1>12
  DEF Next, WriterStep, ReaderStep

\* A count that moves is a step of the queue.
LEMMA QueueSteps ==
  ASSUME SPSCInv, SPSCInv', [Next]_vars, FifoInv, FifoInv'
  PROVE  [Shared!Next]_(Shared!sharedVars)
<1> DEFINE T == TakenOut
           n == Published - TakenOut
<1>1. /\ T \in Nat /\ n \in Nat /\ n <= Size - 1 /\ Held = Run(T, n) /\ Drained = Run(0, T)
      /\ Published \in Int
  BY SizeIsNat DEF FifoInv, CopiedFirst
<1>2. /\ TakenOut' \in Nat /\ Published' - TakenOut' \in Nat /\ Published' - TakenOut' <= Size - 1
      /\ Held' = Run(TakenOut', Published' - TakenOut') /\ Drained' = Run(0, TakenOut')
      /\ Published' \in Int
  <2>1. /\ TakenOut' \in Nat /\ Published' - TakenOut' \in 0 .. Size - 1 /\ Published' \in Int
        /\ Held' = Run(TakenOut', Published' - TakenOut') /\ Drained' = Run(0, TakenOut')
    BY Zenon DEF FifoInv, CopiedFirst
  <2>2. Published' - TakenOut' \in Nat /\ Published' - TakenOut' <= Size - 1
    <3>1. Published' - TakenOut' \in 0 .. Size - 1
      BY <2>1, Zenon
    <3> QED BY <3>1, SizeIsNat
  <2> QED BY <2>1, <2>2, Zenon
<1>3. CASE Published' = Published /\ TakenOut' = TakenOut
  <2>1. Held' = Held /\ Drained' = Drained
    BY <1>1, <1>2, <1>3, Zenon
  <2> QED BY <2>1 DEF Shared!sharedVars
<1>4. ASSUME NEW k \in Nat, Published' = Published + k, TakenOut' = TakenOut
      PROVE  Shared!Put
  <2>1. Held' = Run(T, n + k) /\ n + k <= Size - 1 /\ Drained' = Drained
    <3>1. Published' - TakenOut' = n + k
      BY <1>1, <1>4
    <3> QED BY <3>1, <1>1, <1>2, <1>4, Zenon
  <2> HIDE DEF T, n
  <2>2. Len(Held) = n /\ Len(Held') = n + k
    <3>1. n + k \in Nat
      BY <1>1
    <3> QED BY <3>1, <2>1, <1>1, RunValues
  <2>3. SubSeq(Held', 1, Len(Held)) = Held
    <3>1. SubSeq(Run(T, n + k), 1, n) = Run(T, n)
      <4>1. T \in Nat /\ n \in Nat
        BY <1>1
      <4> QED BY <4>1, RunFront, Zenon
    <3> QED BY <1>1, <2>1, <2>2, <3>1, Zenon
  <2>4. Len(Held) <= Len(Held') /\ Len(Held') <= Size - 1
    BY <1>1, <2>1, <2>2
  <2> QED BY <2>1, <2>3, <2>4 DEF Shared!Put
<1>5. ASSUME NEW k \in Nat, Published' = Published, TakenOut' = TakenOut + k
      PROVE  k = 0 \/ Shared!Take
  <2> DEFINE rest == n - k
  <2>1. rest \in Nat /\ n = k + rest /\ Published' - TakenOut' = rest
    BY <1>1, <1>2, <1>5
  <2>2. Held' = Run(T + k, rest) /\ Drained' = Run(0, T + k) /\ Held = Run(T, k + rest)
    BY <1>1, <1>2, <1>5, <2>1, Zenon
  <2> HIDE DEF T, n, rest
  <2>3. Len(Held) = k + rest
    <3>1. k + rest \in Nat
      BY <2>1
    <3> QED BY <3>1, <2>2, <1>1, RunValues
  <2>4. SubSeq(Held, 1, k) = Run(T, k) /\ Held' = SubSeq(Held, k + 1, Len(Held))
    <3>1. /\ SubSeq(Run(T, k + rest), 1, k) = Run(T, k)
          /\ SubSeq(Run(T, k + rest), k + 1, k + rest) = Run(T + k, rest)
      <4>1. T \in Nat /\ rest \in Nat
        BY <1>1, <2>1
      <4>2. SubSeq(Run(T, k + rest), 1, k) = Run(T, k)
        BY <4>1, RunFront, Zenon
      <4>3. SubSeq(Run(T, k + rest), k + 1, k + rest) = Run(T + k, rest)
        BY <4>1, RunBack, Zenon
      <4> QED BY <4>2, <4>3
    <3> QED BY <2>2, <2>3, <3>1, Zenon
  <2>5. Drained' = Drained \o SubSeq(Held, 1, k)
    <3>1. 0 \in Nat /\ 0 + T = T
      BY <1>1
    <3>2. Run(0, T) \o Run(0 + T, k) = Run(0, T + k)
      <4>1. T \in Nat /\ 0 \in Nat
        BY <1>1
      <4> QED BY <4>1, RunsMeet, Zenon
    <3> QED BY <3>1, <3>2, <2>2, <2>4, <1>1, Zenon
  <2>6. k = 0 \/ k \in 1 .. Len(Held)
    BY <2>1, <2>3
  <2> QED BY <2>4, <2>5, <2>6 DEF Shared!Take
<1>6. CASE Published' = Published /\ \E k \in Nat : TakenOut' = TakenOut + k
  <2>1. PICK k \in Nat : TakenOut' = TakenOut + k
    BY <1>6
  <2>2. k = 0 => TakenOut' = TakenOut
    BY <2>1, <1>1
  <2> QED BY <1>3, <1>5, <1>6, <2>1, <2>2 DEF Shared!Next
<1>7. CopiedFirst
  BY DEF FifoInv
<1> QED BY <1>3, <1>4, <1>6, <1>7, CountsMove DEF Shared!Next

\* Under every interleaving of their loads, copies and stores the two threads share
\* one bounded queue: what becomes visible is appended to it, what is given back is
\* its front and has been copied out before (ringbuffer.cpp:136-174, 221-259).
THEOREM TwoThreadsShareAFifo == ~WindowObserved => (Spec => Shared!Spec)
<1> SUFFICES ASSUME ~WindowObserved PROVE Spec => Shared!Spec
  OBVIOUS
<1>1. Init => Shared!Init /\ CopiedFirst
  <2> SUFFICES ASSUME Init PROVE Shared!Init /\ CopiedFirst
    OBVIOUS
  <2>1. SPSCInv /\ received = <<>> /\ Len(<<>>) = 0 /\ reader = Idle /\ writer = Idle /\ sent = 0
    BY InitSPSCInv, EmptySeq DEF Init
  <2>2. TakenOut = 0 /\ Published = 0
    BY <2>1, IdleFits DEF TakenOut, Published
  <2>3. Held = Run(0, 0) /\ Drained = Run(0, 0)
    <3>1. FifoInv /\ Published - TakenOut = 0
      BY <2>1, <2>2, FifoHolds DEF CopiedFirst
    <3> QED BY <3>1, <2>2 DEF FifoInv
  <2>4. Run(0, 0) = <<>>
    <3>1. Run(0, 0) \in Seq(Nat) /\ Len(Run(0, 0)) = 0
      BY RunValues
    <3> QED BY <3>1, EmptySeq
  <2> QED BY <2>2, <2>3, <2>4 DEF Shared!Init, CopiedFirst
<1>2. SPSCInv /\ SPSCInv' /\ CopiedFirst /\ [Next]_vars => CopiedFirst'
  BY CountsMove DEF CopiedFirst
<1>3. SPSCInv /\ CopiedFirst => FifoInv
  BY FifoHolds
<1>4. SPSCInv /\ SPSCInv' /\ [Next]_vars /\ FifoInv /\ FifoInv' => [Shared!Next]_(Shared!sharedVars)
  BY QueueSteps
<1>5. Spec => []SPSCInv
  BY SPSCInvHolds
<1>6. Spec => []CopiedFirst
  BY <1>1, <1>2, <1>5, PTL DEF Spec
<1> QED BY <1>1, <1>3, <1>4, <1>5, <1>6, PTL DEF Spec, Shared!Spec
=============================================================================
