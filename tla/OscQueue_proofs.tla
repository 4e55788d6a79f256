--------------------------- MODULE OscQueue_proofs ---------------------------
(***************************************************************************)
(* Proofs about the controllers and the OSC controller among them, for any *)
(* set of controllers and any number of commands.                          *)
(***************************************************************************)
EXTENDS OscQueue, FiniteSetTheorems, SequenceTheorems, WellFoundedInduction, TLAPS

-----------------------------------------------------------------------------
(* What stays of a list *)

LEMMA StayType ==
  ASSUME NEW list, NEW gone, NEW i \in Nat
  PROVE  /\ Stay(list, gone, i) \in Nat
         /\ IsFiniteSet({j \in 1..i : list[j] \notin gone})
<1>1. IsFiniteSet(1..i)
  BY FS_Interval
<1>2. {j \in 1..i : list[j] \notin gone} \subseteq 1..i
  OBVIOUS
<1>3. QED
  BY <1>1, <1>2, FS_Subset, FS_CardinalityType DEF Stay

\* One more place, one more stays or none.
LEMMA StayStep ==
  ASSUME NEW list, NEW gone, NEW i \in Nat
  PROVE  Stay(list, gone, i + 1)
           = IF list[i + 1] \in gone THEN Stay(list, gone, i) ELSE Stay(list, gone, i) + 1
<1> DEFINE Up(n) == {j \in 1..n : list[j] \notin gone}
<1>1. CASE list[i + 1] \in gone
  <2>1. Up(i + 1) = Up(i)
    BY <1>1
  <2>2. QED
    BY <1>1, <2>1 DEF Stay
<1>2. CASE list[i + 1] \notin gone
  <2>1. Up(i + 1) = Up(i) \union {i + 1} /\ i + 1 \notin Up(i)
    BY <1>2
  <2>2. IsFiniteSet(Up(i))
    BY StayType
  <2>3. Cardinality(Up(i) \union {i + 1}) = Cardinality(Up(i)) + 1
    BY <2>1, <2>2, FS_AddElement
  <2>4. QED
    BY <1>2, <2>1, <2>3 DEF Stay
<1>3. QED
  BY <1>1, <1>2

LEMMA StayNone ==
  ASSUME NEW list, NEW gone PROVE Stay(list, gone, 0) = 0
<1>1. {j \in 1..0 : list[j] \notin gone} = {}
  OBVIOUS
<1>2. QED
  BY <1>1, FS_EmptySet DEF Stay

\* The later of two places has more before it, if it stays.
LEMMA StayGrows ==
  ASSUME NEW list, NEW gone, NEW i \in Nat, NEW k \in Nat, i < k
  PROVE  /\ Stay(list, gone, i) <= Stay(list, gone, k)
         /\ list[k] \notin gone => Stay(list, gone, i) < Stay(list, gone, k)
<1> DEFINE Up(n) == {j \in 1..n : list[j] \notin gone}
<1>1. Up(i) \subseteq Up(k) /\ IsFiniteSet(Up(k))
  <2>1. IsFiniteSet(Up(k))
    BY StayType
  <2>2. Up(i) \subseteq Up(k)
    OBVIOUS
  <2>3. QED
    BY <2>1, <2>2
<1>2. list[k] \notin gone => k \in Up(k) /\ k \notin Up(i)
  OBVIOUS
<1>3. Cardinality(Up(i)) <= Cardinality(Up(k))
  BY <1>1, FS_Subset
<1>4. ASSUME list[k] \notin gone PROVE Cardinality(Up(i)) < Cardinality(Up(k))
  <2>1. Up(i) # Up(k)
    BY <1>2, <1>4
  <2>2. Cardinality(Up(i)) \in Nat /\ Cardinality(Up(k)) \in Nat
    BY StayType DEF Stay
  <2>3. Cardinality(Up(i)) # Cardinality(Up(k))
    BY <1>1, <2>1, FS_Subset
  <2>4. QED
    BY <1>3, <2>2, <2>3
<1>5. QED
  BY <1>3, <1>4 DEF Stay

\* Every count up to the last is reached at a place that stays.
LEMMA StayReaches ==
  ASSUME NEW list, NEW gone, NEW n \in Nat, NEW c \in 1..Stay(list, gone, n)
  PROVE  \E i \in 1..n : list[i] \notin gone /\ Stay(list, gone, i) = c
<1> DEFINE R == OpToRel(<, Nat)
           T == {i \in 0..n : Stay(list, gone, i) >= c}
<1>1. T \subseteq Nat /\ T # {}
  BY StayType
<1>2. IsWellFoundedOn(R, Nat)
  BY NatLessThanWellFounded
<1>3. PICK i \in T : \A y \in T : ~(<<y, i>> \in R)
  BY <1>1, <1>2, WFMin, Zenon
<1>4. \A x, y \in Nat : x > y => <<y, x>> \in R
  BY DEF OpToRel
<1> HIDE DEF R
<1>5. \A y \in 0..n : y < i => Stay(list, gone, y) < c
  <2>1. \A y \in 0..n : y < i => y \notin T
    BY <1>1, <1>3, <1>4
  <2>2. ASSUME NEW y \in 0..n PROVE Stay(list, gone, y) \in Nat
    <3>1. y \in Nat
      OBVIOUS
    <3>2. QED
      BY <3>1, StayType
  <2>3. QED
    BY <2>1, <2>2
<1>6. i \in 0..n /\ Stay(list, gone, i) >= c /\ i # 0
  BY StayNone, StayType
<1>7. i - 1 \in Nat /\ (i - 1) + 1 = i /\ i - 1 < i /\ i \in 1..n
  BY <1>6
<1>8. Stay(list, gone, i - 1) < c
  BY <1>5, <1>7
<1>9. Stay(list, gone, i)
        = IF list[i] \in gone THEN Stay(list, gone, i - 1) ELSE Stay(list, gone, i - 1) + 1
  BY <1>7, StayStep
<1>10. Stay(list, gone, i) \in Nat /\ Stay(list, gone, i - 1) \in Nat
  BY <1>7, <1>6, StayType, i \in Nat
<1>11. list[i] \notin gone /\ Stay(list, gone, i) = c
  BY <1>6, <1>8, <1>9, <1>10
<1>12. QED
  BY <1>7, <1>11

\* The place in the list of the k-th that stays.
PlaceOf(list, gone, k) ==
  CHOOSE i \in 1..Len(list) : list[i] \notin gone /\ Stay(list, gone, i) = k

LEMMA KeptPlaces ==
  ASSUME NEW S, NEW list \in Seq(S), NEW gone
  PROVE  /\ Kept(list, gone) \in Seq(S)
         /\ Len(Kept(list, gone)) = Stay(list, gone, Len(list))
         /\ \A k \in 1..Len(Kept(list, gone)) :
              LET i == PlaceOf(list, gone, k) IN
              /\ i \in 1..Len(list) /\ list[i] \notin gone
              /\ Kept(list, gone)[k] = list[i] /\ Stay(list, gone, i) = k
<1> DEFINE n == Stay(list, gone, Len(list))
<1>1. Len(list) \in Nat /\ n \in Nat
  BY LenProperties, StayType
<1>2. \A i \in 1..Len(list) : list[i] \in S
  BY ElementOfSeq
<1>3. ASSUME NEW k \in 1..n
      PROVE  LET i == PlaceOf(list, gone, k) IN
             /\ i \in 1..Len(list) /\ list[i] \notin gone /\ Stay(list, gone, i) = k
             /\ Kept(list, gone)[k] = list[i]
  <2>1. \E i \in 1..Len(list) : list[i] \notin gone /\ Stay(list, gone, i) = k
    BY <1>1, StayReaches
  <2>2. Kept(list, gone)[k] = list[PlaceOf(list, gone, k)]
    BY DEF Kept, PlaceOf
  <2>3. QED
    BY <2>1, <2>2 DEF PlaceOf
<1>4. Kept(list, gone) = [k \in 1..n |-> Kept(list, gone)[k]]
  BY DEF Kept
<1> HIDE DEF n
<1>5. \A k \in 1..n : Kept(list, gone)[k] \in S
  BY <1>2, <1>3
<1>6. Kept(list, gone) \in Seq(S) /\ Len(Kept(list, gone)) = n
  <2> DEFINE kept == Kept(list, gone)
  <2>1. [k \in 1..n |-> kept[k]] \in Seq(S) /\ Len([k \in 1..n |-> kept[k]]) = n
    <3> HIDE DEF kept
    <3>1. \A k \in 1..n : kept[k] \in S
      BY <1>5 DEF kept
    <3>2. QED
      BY <1>1, <3>1, IsASeq, LenProperties
  <2>2. QED
    BY <1>4, <2>1
<1>7. QED
  BY <1>3, <1>6 DEF n

\* What is left are those that were there and not taken away.
LEMMA KeptContains ==
  ASSUME NEW S, NEW list \in Seq(S), NEW gone, NEW x
  PROVE  Contains(Kept(list, gone), x) <=> Contains(list, x) /\ x \notin gone
<1>1. ASSUME NEW i \in 1..Len(list), list[i] \notin gone
      PROVE  \E k \in 1..Len(Kept(list, gone)) : Kept(list, gone)[k] = list[i]
  <2> DEFINE k == Stay(list, gone, i)
  <2>1. i \in Nat /\ Len(list) \in Nat /\ (i < Len(list) \/ i = Len(list))
    BY LenProperties
  <2>2. k \in Nat /\ k <= Stay(list, gone, Len(list)) /\ Stay(list, gone, Len(list)) \in Nat
    <3>1. k \in Nat /\ Stay(list, gone, Len(list)) \in Nat
      BY <2>1, StayType
    <3>2. i < Len(list) => k <= Stay(list, gone, Len(list))
      BY <2>1, StayGrows
    <3>3. i = Len(list) => k = Stay(list, gone, Len(list))
      OBVIOUS
    <3> HIDE DEF k
    <3>4. QED
      BY <2>1, <3>1, <3>2, <3>3
  <2>3. k > 0
    <3>1. Stay(list, gone, 0) < k
      BY <1>1, <2>1, StayGrows
    <3>2. QED
      BY <3>1, StayNone
  <2>4. k \in 1..Len(Kept(list, gone))
    BY <2>2, <2>3, KeptPlaces
  <2>5. PlaceOf(list, gone, k) = i
    <3> DEFINE p == PlaceOf(list, gone, k)
    <3>1. p \in 1..Len(list) /\ list[p] \notin gone /\ Stay(list, gone, p) = k
      BY <2>4, KeptPlaces
    <3>2. \A a, b \in Nat : a < b /\ list[b] \notin gone =>
                              Stay(list, gone, a) < Stay(list, gone, b)
      BY StayGrows
    <3> HIDE DEF p
    <3>3. p \in Nat
      BY <3>1
    <3>4. k < k \/ p = i
      BY <1>1, <2>1, <3>1, <3>2, <3>3
    <3> HIDE DEF k
    <3>5. QED
      BY <2>2, <3>4 DEF p
  <2>6. Kept(list, gone)[k] = list[i]
    BY <2>4, <2>5, KeptPlaces
  <2>7. QED
    BY <2>4, <2>6
<1>2. ASSUME NEW k \in 1..Len(Kept(list, gone))
      PROVE  \E i \in 1..Len(list) : list[i] \notin gone /\ Kept(list, gone)[k] = list[i]
  BY KeptPlaces
<1>3. QED
  BY <1>1, <1>2 DEF Contains

\* x stands before y.
Before(list, x, y) ==
  \E i, k \in 1..Len(list) : i < k /\ list[i] = x /\ list[k] = y

\* Nobody is on the list twice.
Distinct(list) == \A i, k \in 1..Len(list) : list[i] = list[k] => i = k

\* What is left keeps its order.
LEMMA KeptOrder ==
  ASSUME NEW S, NEW list \in Seq(S), NEW gone
  PROVE  /\ \A x, y : Before(Kept(list, gone), x, y) => Before(list, x, y)
         /\ Distinct(list) => Distinct(Kept(list, gone))
<1> DEFINE At(k) == PlaceOf(list, gone, k)
           n == Len(Kept(list, gone))
<1>1. \A k \in 1..n : /\ At(k) \in 1..Len(list) /\ list[At(k)] \notin gone
                      /\ Kept(list, gone)[k] = list[At(k)] /\ Stay(list, gone, At(k)) = k
  BY KeptPlaces
<1>2. \A a, b \in Nat : a < b => Stay(list, gone, a) <= Stay(list, gone, b)
  BY StayGrows
<1>3. Len(list) \in Nat
  BY LenProperties
<1> HIDE DEF At, n
<1>4. \A i, k \in 1..n : i < k => At(i) < At(k)
  <2> SUFFICES ASSUME NEW i \in 1..n, NEW k \in 1..n, i < k, ~(At(i) < At(k)) PROVE FALSE
    OBVIOUS
  <2>1. At(i) \in Nat /\ At(k) \in Nat
    BY <1>1, <1>3
  <2>2. At(k) < At(i) \/ At(k) = At(i)
    BY <2>1
  <2>3. k <= i
    BY <1>1, <1>2, <2>1, <2>2
  <2>4. QED
    BY <2>3
<1>5. ASSUME NEW x, NEW y, Before(Kept(list, gone), x, y) PROVE Before(list, x, y)
  <2>1. PICK i \in 1..n, k \in 1..n : i < k /\ Kept(list, gone)[i] = x /\ Kept(list, gone)[k] = y
    BY <1>5 DEF Before, n
  <2>2. At(i) < At(k) /\ At(i) \in 1..Len(list) /\ At(k) \in 1..Len(list)
        /\ list[At(i)] = x /\ list[At(k)] = y
    BY <1>1, <1>4, <2>1
  <2>3. QED
    BY <2>2 DEF Before
<1>6. ASSUME Distinct(list) PROVE Distinct(Kept(list, gone))
  <2> SUFFICES ASSUME NEW i \in 1..n, NEW k \in 1..n, Kept(list, gone)[i] = Kept(list, gone)[k]
               PROVE  i = k
    BY DEF Distinct, n
  <2>1. At(i) = At(k)
    BY <1>1, <1>6 DEF Distinct
  <2>2. QED
    BY <1>1, <2>1
<1>7. QED
  BY <1>5, <1>6

-----------------------------------------------------------------------------
(* The order of the list *)

LEMMA OneOfTwoIsFirst ==
  ASSUME NEW S, NEW list \in Seq(S), NEW x, NEW y,
         Contains(list, x), Contains(list, y), x # y
  PROVE  Before(list, x, y) \/ Before(list, y, x)
<1>1. PICK i \in 1..Len(list) : list[i] = x
  BY DEF Contains
<1>2. PICK k \in 1..Len(list) : list[k] = y
  BY DEF Contains
<1>3. i < k \/ k < i
  BY <1>1, <1>2, LenProperties
<1>4. QED
  BY <1>1, <1>2, <1>3 DEF Before

LEMMA BeforeIsOrder ==
  ASSUME NEW S, NEW list \in Seq(S), Distinct(list)
  PROVE  /\ \A x, y : ~(Before(list, x, y) /\ Before(list, y, x))
         /\ \A x : ~Before(list, x, x)
         /\ \A x, y, z : Before(list, x, y) /\ Before(list, y, z) => Before(list, x, z)
         /\ \A x, y : Before(list, x, y) => Contains(list, x) /\ Contains(list, y)
<1>1. Len(list) \in Nat
  BY LenProperties
<1>2. ASSUME NEW x, NEW y, Before(list, x, y), Before(list, y, x) PROVE FALSE
  BY <1>1, <1>2 DEF Before, Distinct
<1>3. ASSUME NEW x, NEW y, NEW z, Before(list, x, y), Before(list, y, z)
      PROVE  Before(list, x, z)
  <2>1. PICK i \in 1..Len(list), j \in 1..Len(list) : i < j /\ list[i] = x /\ list[j] = y
    BY <1>3 DEF Before
  <2>2. PICK l \in 1..Len(list), k \in 1..Len(list) : l < k /\ list[l] = y /\ list[k] = z
    BY <1>3 DEF Before
  <2>3. l = j
    BY <2>1, <2>2 DEF Distinct
  <2>4. i < k
    BY <1>1, <2>1, <2>2, <2>3
  <2>5. QED
    BY <2>1, <2>2, <2>4 DEF Before
<1>4. \A x, y : Before(list, x, y) => Contains(list, x) /\ Contains(list, y)
  BY DEF Before, Contains
<1>5. QED
  BY <1>2, <1>3, <1>4

LEMMA AppendOrder ==
  ASSUME NEW S, NEW list \in Seq(S), NEW c \in S, Distinct(list), ~Contains(list, c)
  PROVE  LET more == Append(list, c) IN
         /\ more \in Seq(S) /\ Distinct(more)
         /\ \A x : Contains(more, x) <=> Contains(list, x) \/ x = c
         /\ \A x, y : Before(more, x, y) => Before(list, x, y) \/ y = c
         /\ \A y : ~Before(more, c, y)
<1> DEFINE more == Append(list, c)
           n == Len(list)
<1>1. /\ n \in Nat /\ more \in Seq(S) /\ Len(more) = n + 1
      /\ \A i \in 1..n : more[i] = list[i]
      /\ more[n + 1] = c
  BY AppendProperties, LenProperties
<1>2. \A i \in 1..n : list[i] # c
  BY DEF Contains
<1> HIDE DEF more
<1>3. \A i \in 1..Len(more) : i \in 1..n \/ i = n + 1
  BY <1>1
<1> HIDE DEF n
<1>4. Distinct(more)
  BY <1>1, <1>2, <1>3 DEF Distinct, n
<1>5. \A x : Contains(more, x) <=> Contains(list, x) \/ x = c
  <2>1. \A i \in 1..n : i \in 1..Len(more)
    BY <1>1
  <2>2. n + 1 \in 1..Len(more)
    BY <1>1
  <2>3. QED
    BY <1>1, <1>3, <2>1, <2>2 DEF Contains, n
<1>6. ASSUME NEW x, NEW y, Before(more, x, y) PROVE x # c /\ (Before(list, x, y) \/ y = c)
  <2>1. PICK i \in 1..Len(more), k \in 1..Len(more) : i < k /\ more[i] = x /\ more[k] = y
    BY <1>6 DEF Before
  <2>2. i \in 1..n
    BY <1>1, <2>1
  <2>3. QED
    BY <1>1, <1>2, <1>3, <2>1, <2>2 DEF Before, n
<1>7. QED
  BY <1>1, <1>4, <1>5, <1>6 DEF more

LEMMA StartIsFirst ==
  ASSUME NEW S, controllers \in Seq(S), controllers # <<>>, Distinct(controllers)
  PROVE  /\ Start = controllers[1] /\ Contains(controllers, Start)
         /\ \A x : ~Before(controllers, x, Start)
<1>1. Len(controllers) \in Nat /\ 1 \in 1..Len(controllers)
  BY EmptySeq, LenProperties
<1>2. Start = controllers[1]
  BY DEF Start
<1>3. QED
  BY <1>1, <1>2 DEF Contains, Before, Distinct

\* The walk's next is the first of those behind, NULL if there are none.
LEMMA NextIsBehind ==
  ASSUME NEW S, controllers \in Seq(S), Distinct(controllers), None \notin S,
         NEW c, Contains(controllers, c)
  PROVE  /\ Next_(c) # None => /\ Contains(controllers, Next_(c))
                               /\ Before(controllers, c, Next_(c))
         /\ \A x : Contains(controllers, x) =>
              \/ x = c
              \/ Before(controllers, x, c)
              \/ Next_(c) # None /\ (x = Next_(c) \/ Before(controllers, Next_(c), x))
<1> DEFINE n == Len(controllers)
<1>1. n \in Nat /\ DOMAIN controllers = 1..n /\ \A i \in 1..n : controllers[i] \in S
  BY ElementOfSeq, LenProperties
<1>2. PICK p \in 1..n : controllers[p] = c
  BY DEF Contains
<1>3. n \in 1..n /\ controllers # <<>> /\ Last(controllers) = controllers[n]
  BY <1>1, <1>2 DEF Last
<1>4. (CHOOSE i \in DOMAIN controllers : controllers[i] = c) = p
  BY <1>1, <1>2 DEF Distinct
<1>5. Listed(c)
  BY DEF Listed
<1> HIDE DEF n
<1>6. CASE p = n
  <2>1. Next_(c) = None
    BY <1>2, <1>3, <1>6 DEF Next_
  <2>2. ASSUME NEW x, Contains(controllers, x), x # c PROVE Before(controllers, x, c)
    <3>1. PICK i \in 1..n : controllers[i] = x
      BY <2>2 DEF Contains, n
    <3>2. i < p
      BY <1>1, <1>2, <1>6, <2>2, <3>1
    <3>3. QED
      BY <1>2, <3>1, <3>2 DEF Before, n
  <2>3. QED
    BY <2>1, <2>2
<1>7. CASE p # n
  <2>1. p + 1 \in 1..n /\ p < p + 1
    BY <1>1, <1>2, <1>7
  <2>2. c # Last(controllers)
    BY <1>2, <1>3, <1>7 DEF Distinct, n
  <2>3. Next_(c) = controllers[1 + p]
    BY <1>4, <1>5, <2>2 DEF Next_
  <2>4. 1 + p = p + 1
    BY <1>1, <1>2
  <2>5. Next_(c) = controllers[p + 1] /\ Next_(c) # None
    BY <1>1, <2>1, <2>3, <2>4
  <2>6. Contains(controllers, Next_(c)) /\ Before(controllers, c, Next_(c))
    BY <1>2, <2>1, <2>5 DEF Contains, Before, n
  <2>7. ASSUME NEW x, Contains(controllers, x), x # c, x # Next_(c)
        PROVE  Before(controllers, x, c) \/ Before(controllers, Next_(c), x)
    <3>1. PICK i \in 1..n : controllers[i] = x
      BY <2>7 DEF Contains, n
    <3>2. i < p \/ p + 1 < i
      BY <1>1, <1>2, <2>5, <2>7, <3>1
    <3>3. QED
      BY <1>2, <2>1, <2>5, <3>1, <3>2 DEF Before, n
  <2>8. QED
    BY <2>5, <2>6, <2>7
<1>8. QED
  BY <1>6, <1>7

-----------------------------------------------------------------------------
(* The inductive invariant of the controllers *)

\* Nobody is listed twice, or listed and not alive; the GUI has constructed
\* what it works on.
ListInv ==
  /\ controllers \in Seq(Ctrls) /\ Distinct(controllers)
  /\ life \in [Ctrls -> {"none", "alive", "deleted"}]
  /\ \A c \in Ctrls : Contains(controllers, c) => life[c] = "alive"
  /\ gpc # "idle" => garg \in Ctrls /\ life[garg] # "none"

\* The walk's controller: the first one before the lock, a listed one under it.
WalkInv ==
  /\ epc \in {"loading", "idle", "begun", "walk", "poll"}
  /\ ctrl \in Ctrls \union {None}
  /\ epc \in {"loading", "idle"} => ctrl = None
  /\ epc = "begun" => controllers # <<>> /\ ctrl = Start
  /\ epc = "poll" => ctrl # None
  /\ EngineHolds /\ ctrl # None => Contains(controllers, ctrl)

\* Of those that were there at the lock, the ones before the walk's controller
\* have been polled once, those behind it not yet.
PolledSoFar(d) ==
  /\ Contains(controllers, d) /\ active[d]
  /\ (ctrl = None \/ Before(controllers, d, ctrl) \/ (d = ctrl /\ epc = "poll"))
       => polls[d] = 1
  /\ (ctrl # None /\ (Before(controllers, ctrl, d) \/ (d = ctrl /\ epc = "walk")))
       => polls[d] = 0

SteadyInv ==
  /\ active \in [Ctrls -> BOOLEAN] /\ polls \in [Ctrls -> 0..2] /\ steady \subseteq Ctrls
  /\ EngineHolds => \A d \in steady : PolledSoFar(d)

CtrlInv == ListInv /\ WalkInv /\ SteadyInv

\* Commands are numbered as they came; what is pending, but for the one being
\* dispatched, follows what was dispatched.
QueueInv ==
  /\ received \in Nat /\ pending \in Seq(Nat) /\ dispatched \in Seq(Nat)
  /\ dpc \in {"none", "begin", "call", "over"}
  /\ dpc = "call" => pending # <<>>
  /\ received + Taken = Len(dispatched) + Len(pending)
  /\ \A i \in 1..Len(dispatched) : dispatched[i] = i
  /\ \A i \in 1..Len(pending) : pending[i] = Len(dispatched) - Taken + i

OscInv == IF hurt = "no" THEN /\ CtrlInv
                              /\ dpc # "none" => InPoll
                              /\ life[Osc] # "deleted" => QueueInv
          ELSE PolledOnce

LEMMA InvIsPolledOnce ==
  ASSUME CtrlInv PROVE PolledOnce
<1> USE DEF CtrlInv
<1>1. ASSUME NEW d \in steady, EngineHolds PROVE polls[d] <= 1
  <2>1. PolledSoFar(d)
    BY <1>1 DEF SteadyInv
  <2>2. polls[d] \in {0, 1}
    <3>1. CASE ctrl = None
      BY <2>1, <3>1 DEF PolledSoFar
    <3>2. CASE ctrl # None /\ d # ctrl
      <4>1. Before(controllers, d, ctrl) \/ Before(controllers, ctrl, d)
        BY <1>1, <2>1, <3>2, OneOfTwoIsFirst DEF PolledSoFar, WalkInv, ListInv
      <4>2. QED
        BY <2>1, <3>2, <4>1 DEF PolledSoFar
    <3>3. CASE ctrl # None /\ d = ctrl
      BY <1>1, <2>1, <3>3 DEF PolledSoFar, EngineHolds
    <3>4. QED
      BY <3>1, <3>2, <3>3
  <2>3. QED
    BY <2>2
<1>2. ASSUME epc = "walk", ctrl = None, NEW d \in steady PROVE polls[d] = 1
  BY <1>2 DEF SteadyInv, PolledSoFar, EngineHolds
<1>3. QED
  BY <1>1, <1>2 DEF PolledOnce

\* A list with some fewer, in the same order.
Thinner(less, list) ==
  /\ less \in Seq(Ctrls) /\ Distinct(less)
  /\ \A x : Contains(less, x) => Contains(list, x)
  /\ \A x, y : Before(less, x, y) => Before(list, x, y)

LEMMA KeptIsThinner ==
  ASSUME NEW gone, ListInv PROVE Thinner(Kept(controllers, gone), controllers)
<1>1. /\ Kept(controllers, gone) \in Seq(Ctrls)
      /\ \A x : Contains(Kept(controllers, gone), x)
                  <=> Contains(controllers, x) /\ x \notin gone
  BY KeptPlaces, KeptContains DEF ListInv
<1>2. /\ Distinct(Kept(controllers, gone))
      /\ \A x, y : Before(Kept(controllers, gone), x, y) => Before(controllers, x, y)
  BY KeptOrder DEF ListInv
<1>3. QED
  BY <1>1, <1>2 DEF Thinner

\* The first one stays first when others are taken away.
LEMMA StartStays ==
  ASSUME ListInv, Thinner(controllers', controllers), controllers # <<>>,
         Contains(controllers', Start)
  PROVE  controllers' # <<>> /\ Start' = Start
<1>1. controllers' \in Seq(Ctrls) /\ controllers' # <<>>
  <2>1. controllers' \in Seq(Ctrls)
    BY DEF Thinner
  <2>2. ~Contains(<<>>, Start)
    BY DEF Contains
  <2>3. QED
    BY <2>1, <2>2
<1> DEFINE s == controllers'[1]
           new == controllers'
<1>2. Start' = s
  BY <1>1 DEF Start
<1>3. Contains(new, s) /\ \A x : ~Before(new, x, s)
  <2>1. Len(new) \in Nat /\ 1 \in 1..Len(new) /\ new \in Seq(Ctrls)
    BY <1>1, EmptySeq, LenProperties
  <2>2. Distinct(new)
    BY DEF Thinner
  <2>3. QED
    BY <2>1, <2>2 DEF Contains, Before, Distinct
<1>4. \A x : ~Before(controllers, x, Start)
  BY StartIsFirst DEF ListInv
<1>5. \A x, y : Before(new, x, y) => Before(controllers, x, y)
  BY DEF Thinner
<1>6. Contains(new, Start) /\ new \in Seq(Ctrls)
  BY <1>1
<1> DEFINE old == Start
<1> HIDE DEF s, new, old
<1>7. s = old
  <2>1. s # old => Before(new, s, old) \/ Before(new, old, s)
    BY <1>3, <1>6, OneOfTwoIsFirst DEF old
  <2>2. QED
    BY <1>3, <1>4, <1>5, <2>1 DEF old
<1>8. QED
  BY <1>1, <1>2, <1>7 DEF old

\* Whatever takes some away, neither the one the engine is at nor one that is
\* to be polled, and leaves the engine alone.
LEMMA ThinKeeps ==
  ASSUME CtrlInv, Thinner(controllers', controllers), UNCHANGED <<epc, ctrl, polls>>,
         (epc \in {"begun", "walk", "poll"} /\ ctrl # None) => Contains(controllers', ctrl),
         life' \in [Ctrls -> {"none", "alive", "deleted"}],
         \A c \in Ctrls : Contains(controllers', c) => life'[c] = "alive",
         gpc' # "idle" => garg' \in Ctrls /\ life'[garg'] # "none",
         active' \in [Ctrls -> BOOLEAN], steady' \subseteq steady,
         EngineHolds => \A d \in steady' : Contains(controllers', d) /\ active'[d]
  PROVE  CtrlInv'
<1> USE DEF CtrlInv
<1>1. ListInv'
  BY DEF ListInv, Thinner
<1>2. WalkInv'
  <2>1. epc = "begun" => controllers' # <<>> /\ ctrl = Start'
    <3>1. epc = "begun" => controllers # <<>> /\ ctrl = Start /\ Start # None
      <4>1. controllers # <<>> => Start \in Ctrls
        BY EmptySeq, ElementOfSeq, LenProperties DEF Start, ListInv
      <4>2. QED
        BY <4>1, CtrlsAssumption DEF WalkInv
    <3>2. QED
      BY <3>1, StartStays
  <2>2. QED
    BY <2>1 DEF WalkInv, EngineHolds
<1>3. SteadyInv'
  <2>1. /\ active' \in [Ctrls -> BOOLEAN] /\ polls' \in [Ctrls -> 0..2]
        /\ steady' \subseteq Ctrls
    BY DEF SteadyInv
  <2>2. ASSUME EngineHolds', NEW d \in steady' PROVE PolledSoFar(d)'
    <3>1. PolledSoFar(d) /\ EngineHolds
      BY <2>2 DEF SteadyInv, EngineHolds
    <3>2. \A x, y : Before(controllers', x, y) => Before(controllers, x, y)
      BY DEF Thinner
    <3>3. QED
      BY <3>1, <3>2 DEF PolledSoFar
  <2>3. QED
    BY <2>1, <2>2 DEF SteadyInv
<1>4. QED
  BY <1>1, <1>2, <1>3

\* The same list: other variables change.
LEMMA SameIsThinner ==
  ASSUME ListInv PROVE Thinner(controllers, controllers)
  BY DEF ListInv, Thinner

\* Linklist::append by the script or, when the engine does not hold the lock, by
\* the GUI.
LEMMA AppendKeeps ==
  ASSUME CtrlInv, NEW c \in Ctrls, NEW less,
         Thinner(less, controllers), ~Contains(less, c),
         \A x : Contains(controllers, x) => Contains(less, x) \/ x = c,
         controllers' = Append(less, c), life[c] = "alive",
         UNCHANGED <<epc, ctrl, polls, life>>,
         gpc' # "idle" => garg' \in Ctrls /\ life'[garg'] # "none",
         active' \in [Ctrls -> BOOLEAN], \A d \in Ctrls : active[d] => active'[d],
         epc = "begun" => less = controllers,
         epc # "walk",
         steady' \subseteq steady,
         epc = "poll" => steady' \subseteq steady \ ({c} \union Behind(c))
  PROVE  CtrlInv'
<1> USE DEF CtrlInv
<1>1. /\ controllers' \in Seq(Ctrls) /\ Distinct(controllers')
      /\ \A x : Contains(controllers', x) <=> Contains(less, x) \/ x = c
      /\ \A x, y : Before(controllers', x, y) => Before(less, x, y) \/ y = c
      /\ \A y : ~Before(controllers', c, y)
  <2>1. less \in Seq(Ctrls) /\ Distinct(less)
    BY DEF Thinner
  <2>2. QED
    BY <2>1, AppendOrder
<1>2. /\ \A x : Contains(less, x) => Contains(controllers, x)
      /\ \A x, y : Before(less, x, y) => Before(controllers, x, y)
  BY DEF Thinner
<1>3. ListInv'
  BY <1>1, <1>2 DEF ListInv
<1>4. WalkInv'
  <2>1. epc = "begun" => controllers' # <<>> /\ ctrl = Start'
    <3> SUFFICES ASSUME epc = "begun" PROVE controllers' # <<>> /\ Start' = Start
      BY DEF WalkInv
    <3>1. controllers \in Seq(Ctrls) /\ controllers # <<>> /\ controllers' = Append(controllers, c)
      BY DEF ListInv, WalkInv
    <3>2. Len(controllers) \in Nat /\ 1 \in 1..Len(controllers)
      BY <3>1, EmptySeq, LenProperties
    <3>3. controllers'[1] = controllers[1] /\ Len(controllers') # 0
      BY <3>1, <3>2, AppendProperties
    <3>4. controllers' # <<>>
      BY <3>3
    <3>5. QED
      BY <3>1, <3>3, <3>4 DEF Start
  <2>2. EngineHolds /\ ctrl # None => Contains(controllers', ctrl)
    BY <1>1 DEF WalkInv
  <2>3. QED
    BY <2>1, <2>2 DEF WalkInv, EngineHolds
<1>5. SteadyInv'
  <2>1. /\ active' \in [Ctrls -> BOOLEAN] /\ polls' \in [Ctrls -> 0..2]
        /\ steady' \subseteq Ctrls
    BY DEF SteadyInv
  <2>2. ASSUME EngineHolds', NEW d \in steady' PROVE PolledSoFar(d)'
    <3>1. /\ PolledSoFar(d) /\ epc = "poll" /\ ctrl # None /\ Contains(controllers, ctrl)
          /\ d \in Ctrls
      BY <2>1, <2>2 DEF SteadyInv, WalkInv, EngineHolds
    <3>2. d # c /\ d \notin Behind(c) /\ EngineHolds
      BY <2>2, <3>1 DEF EngineHolds
    <3>3. Contains(controllers', d) /\ active'[d]
      BY <1>1, <3>1, <3>2 DEF PolledSoFar
    <3>4. Before(controllers', ctrl, d) => ctrl # c /\ Before(controllers, ctrl, d)
      BY <1>1, <1>2, <3>2
    <3>5. Before(controllers', d, ctrl) => polls[d] = 1
      <4>1. CASE ctrl = c
        <5>1. polls[d] # 0
          BY <2>2, <3>2, <4>1 DEF Behind
        <5>2. polls[d] <= 1 /\ polls[d] \in 0..2
          BY <2>2, <3>1, <3>2, InvIsPolledOnce DEF PolledOnce, SteadyInv
        <5>3. QED
          BY <5>1, <5>2
      <4>2. CASE ctrl # c
        BY <1>1, <1>2, <3>1, <4>2 DEF PolledSoFar
      <4>3. QED
        BY <4>1, <4>2
    <3>6. QED
      BY <3>1, <3>3, <3>4, <3>5 DEF PolledSoFar
  <2>3. QED
    BY <2>1, <2>2 DEF SteadyInv
<1>6. QED
  BY <1>3, <1>4, <1>5

-----------------------------------------------------------------------------
(* The engine's steps keep it *)

LEMMA EngineKeeps ==
  ASSUME CtrlInv, BeginFrame \/ Lock \/ Poll \/ Unlock PROVE CtrlInv'
<1> USE DEF CtrlInv
<1>1. UNCHANGED <<controllers, life, active, gpc, garg>>
  BY DEF BeginFrame, Lock, Poll, Unlock, guiVars
<1>2. ListInv'
  BY <1>1 DEF ListInv
<1>3. CASE BeginFrame
  <2>1. Start \in Ctrls \union {None} /\ (controllers = <<>> => Start = None)
    BY EmptySeq, ElementOfSeq, LenProperties DEF Start, ListInv
  <2>2. WalkInv'
    BY <1>1, <1>3, <2>1 DEF BeginFrame, WalkInv, EngineHolds, Start
  <2>3. SteadyInv'
    BY <1>1, <1>3 DEF BeginFrame, SteadyInv, EngineHolds
  <2>4. QED
    BY <1>2, <2>2, <2>3
<1>4. CASE Lock
  <2>1. /\ epc = "begun" /\ epc' = "walk" /\ ctrl' = ctrl
        /\ polls' = [c \in Ctrls |-> 0]
        /\ steady' = {c \in Ctrls : Contains(controllers, c) /\ active[c]}
    BY <1>4 DEF Lock, Listed
  <2>2. /\ controllers \in Seq(Ctrls) /\ controllers # <<>> /\ Distinct(controllers)
        /\ ctrl = Start /\ Contains(controllers, Start)
        /\ \A x : ~Before(controllers, x, Start)
    BY <2>1, StartIsFirst DEF ListInv, WalkInv
  <2>3. WalkInv'
    BY <1>1, <2>1, <2>2 DEF WalkInv, EngineHolds
  <2>4. ctrl # None
    <3>1. Start \in Ctrls
      BY <2>2, EmptySeq, ElementOfSeq, LenProperties DEF Start
    <3>2. QED
      BY <2>2, <3>1, CtrlsAssumption
  <2>5. ASSUME NEW d \in steady' PROVE PolledSoFar(d)'
    BY <1>1, <2>1, <2>2, <2>4, <2>5 DEF PolledSoFar
  <2>6. /\ active' \in [Ctrls -> BOOLEAN] /\ polls' \in [Ctrls -> 0..2]
        /\ steady' \subseteq Ctrls
    BY <1>1, <2>1 DEF SteadyInv
  <2>7. QED
    BY <1>2, <2>3, <2>5, <2>6 DEF SteadyInv
<1>5. CASE Poll
  <2>1. /\ epc = "walk" /\ epc' = "poll" /\ ctrl # None /\ ctrl' = ctrl /\ steady' = steady
        /\ ctrl \in Ctrls /\ polls \in [Ctrls -> 0..2]
        /\ polls' = [polls EXCEPT ![ctrl] = IF @ = 2 THEN 2 ELSE @ + 1]
    BY <1>5 DEF Poll, WalkInv, SteadyInv
  <2>2. WalkInv'
    BY <1>1, <2>1 DEF WalkInv, EngineHolds
  <2>3. polls' \in [Ctrls -> 0..2]
    BY <2>1
  <2>4. \A d \in Ctrls : polls'[d] = IF d # ctrl THEN polls[d]
                                     ELSE IF polls[d] = 2 THEN 2 ELSE polls[d] + 1
    BY <2>1
  <2>5. /\ \A x, y : ~(Before(controllers, x, y) /\ Before(controllers, y, x))
        /\ \A x : ~Before(controllers, x, x)
    BY BeforeIsOrder DEF ListInv
  <2>6. ASSUME NEW d \in steady' PROVE PolledSoFar(d)'
    <3>1. PolledSoFar(d) /\ d \in Ctrls
      BY <2>1, <2>6 DEF SteadyInv, EngineHolds
    <3>2. CASE d = ctrl
      <4>1. polls[d] = 0
        BY <2>1, <3>1, <3>2 DEF PolledSoFar
      <4>2. polls'[d] = 1
        BY <2>4, <3>1, <3>2, <4>1
      <4>3. QED
        BY <1>1, <2>1, <2>5, <3>1, <3>2, <4>2 DEF PolledSoFar
    <3>3. CASE d # ctrl
      BY <1>1, <2>1, <2>4, <3>1, <3>3 DEF PolledSoFar
    <3>4. QED
      BY <3>2, <3>3
  <2>7. QED
    BY <1>1, <1>2, <2>1, <2>2, <2>3, <2>6 DEF SteadyInv
<1>6. CASE Unlock
  BY <1>1, <1>2, <1>6 DEF Unlock, WalkInv, SteadyInv, EngineHolds, engineVars
<1>7. QED
  BY <1>3, <1>4, <1>5, <1>6

LEMMA AdvanceKeeps ==
  ASSUME CtrlInv, Advance PROVE CtrlInv'
<1> USE DEF CtrlInv
<1> DEFINE n == Next_(ctrl)
<1>1. /\ UNCHANGED <<controllers, life, active, gpc, garg, polls, steady>>
      /\ ctrl' = n /\ epc' = "walk" /\ ctrl # None /\ EngineHolds
      /\ epc = "poll" \/ (epc = "walk" /\ ~active[ctrl])
      /\ ctrl \in Ctrls
  BY DEF Advance, guiVars, WalkInv, EngineHolds
<1>2. /\ controllers \in Seq(Ctrls) /\ Distinct(controllers) /\ None \notin Ctrls
      /\ Contains(controllers, ctrl)
  BY <1>1, CtrlsAssumption DEF ListInv, WalkInv
<1>3. /\ n # None => Contains(controllers, n) /\ Before(controllers, ctrl, n)
      /\ \A x : Contains(controllers, x) =>
           x = ctrl \/ Before(controllers, x, ctrl) \/ (n # None /\ (x = n \/ Before(controllers, n, x)))
  BY <1>2, NextIsBehind
<1>4. /\ \A x, y : ~(Before(controllers, x, y) /\ Before(controllers, y, x))
      /\ \A x : ~Before(controllers, x, x)
      /\ \A x, y, z : Before(controllers, x, y) /\ Before(controllers, y, z)
                        => Before(controllers, x, z)
  BY <1>2, BeforeIsOrder
<1> HIDE DEF n
<1>5. ListInv'
  BY <1>1 DEF ListInv
<1>6. WalkInv'
  <2>1. n \in Ctrls \union {None}
    <3>1. \A x : Contains(controllers, x) => x \in Ctrls
      BY <1>2, ElementOfSeq DEF Contains
    <3>2. QED
      BY <1>3, <3>1
  <2>2. QED
    BY <1>1, <1>3, <2>1 DEF WalkInv, EngineHolds
<1>7. ASSUME NEW d \in steady PROVE PolledSoFar(d)'
  <2>1. PolledSoFar(d)
    BY <1>1, <1>7 DEF SteadyInv
  <2>2. d = ctrl => polls[d] = 1
    BY <1>1, <2>1 DEF PolledSoFar
  <2>3. Before(controllers, d, ctrl) => polls[d] = 1
    BY <2>1 DEF PolledSoFar
  <2>4. Before(controllers, ctrl, d) => polls[d] = 0
    BY <1>1, <2>1 DEF PolledSoFar
  <2>5. (n = None \/ Before(controllers, d, n)) => polls[d] = 1
    BY <1>3, <1>4, <2>1, <2>2, <2>3 DEF PolledSoFar
  <2>6. (n # None /\ (Before(controllers, n, d) \/ d = n)) => polls[d] = 0
    BY <1>3, <1>4, <2>4
  <2>7. QED
    BY <1>1, <2>1, <2>5, <2>6 DEF PolledSoFar
<1>8. SteadyInv'
  BY <1>1, <1>7 DEF SteadyInv
<1>9. QED
  BY <1>5, <1>6, <1>8

\* What changes nothing of the list or the walk.
LEMMA OthersKeep ==
  ASSUME CtrlInv, StartEngine \/ QuitEvent \/ Quit \/ UNCHANGED vars PROVE CtrlInv'
<1>1. /\ UNCHANGED <<controllers, life, active, ctrl, gpc, garg, polls, steady>>
      /\ epc' = epc \/ (epc = "loading" /\ epc' = "idle")
  BY DEF StartEngine, QuitEvent, Quit, vars, guiVars
<1>2. ListInv' /\ WalkInv'
  BY <1>1 DEF CtrlInv, ListInv, WalkInv, EngineHolds, Start
<1>3. SteadyInv'
  BY <1>1 DEF CtrlInv, SteadyInv, EngineHolds, PolledSoFar
<1>4. QED
  BY <1>2, <1>3 DEF CtrlInv

-----------------------------------------------------------------------------
(* So does what scripts and the GUI do to the list, as long as nobody is hurt *)

\* The list loses some, who may be deleted by it.
LEMMA LosingKeeps ==
  ASSUME CtrlInv, NEW gone, controllers' = Kept(controllers, gone),
         UNCHANGED <<epc, ctrl, polls>>,
         epc \in {"begun", "walk", "poll"} => ctrl \notin gone,
         life' \in [Ctrls -> {"none", "alive", "deleted"}],
         \A c \in Ctrls : c \notin gone => life'[c] = life[c],
         \A c \in Ctrls : life[c] # "none" => life'[c] # "none",
         gpc' # "idle" => garg' \in Ctrls /\ life[garg'] # "none",
         active' \in [Ctrls -> BOOLEAN], steady' \subseteq steady,
         EngineHolds => \A d \in steady' : d \notin gone /\ active'[d] = active[d]
  PROVE  CtrlInv'
<1>1. ListInv /\ Thinner(controllers', controllers)
  BY KeptIsThinner DEF CtrlInv
<1>2. \A x : Contains(controllers', x) <=> Contains(controllers, x) /\ x \notin gone
  BY <1>1, KeptContains DEF ListInv
<1>3. (epc \in {"begun", "walk", "poll"} /\ ctrl # None) => Contains(controllers, ctrl)
  BY StartIsFirst DEF CtrlInv, ListInv, WalkInv, EngineHolds
<1>4. \A c \in Ctrls : Contains(controllers', c) => life'[c] = "alive"
  BY <1>2 DEF CtrlInv, ListInv
<1>5. EngineHolds => \A d \in steady' : Contains(controllers', d) /\ active'[d]
  <2>1. EngineHolds => \A d \in steady' : Contains(controllers, d) /\ active[d]
    BY DEF CtrlInv, SteadyInv, PolledSoFar
  <2>2. QED
    BY <1>2, <2>1
<1>6. (epc \in {"begun", "walk", "poll"} /\ ctrl # None) => Contains(controllers', ctrl)
  BY <1>2, <1>3
<1>7. QED
  BY <1>1, <1>4, <1>5, <1>6, ThinKeeps

\* The list stays, other things change.
LEMMA ListStaysKeeps ==
  ASSUME CtrlInv, UNCHANGED <<controllers, epc, ctrl, polls>>,
         life' \in [Ctrls -> {"none", "alive", "deleted"}],
         \A c \in Ctrls : life[c] = "alive" => life'[c] = "alive",
         gpc' # "idle" => garg' \in Ctrls /\ life'[garg'] # "none",
         active' \in [Ctrls -> BOOLEAN], steady' \subseteq steady,
         \A d \in steady' : active[d] => active'[d]
  PROVE  CtrlInv'
<1>1. ListInv /\ Thinner(controllers', controllers)
  BY SameIsThinner DEF CtrlInv
<1>2. (epc \in {"begun", "walk", "poll"} /\ ctrl # None) => Contains(controllers', ctrl)
  BY StartIsFirst DEF CtrlInv, ListInv, WalkInv, EngineHolds
<1>3. EngineHolds => \A d \in steady' : Contains(controllers', d) /\ active'[d]
  BY DEF CtrlInv, SteadyInv, PolledSoFar
<1>4. \A c \in Ctrls : Contains(controllers', c) => life'[c] = "alive"
  BY DEF CtrlInv, ListInv
<1>5. QED
  BY <1>1, <1>2, <1>3, <1>4, ThinKeeps

LEMMA ResetKeeps ==
  ASSUME CtrlInv, Reset, UNCHANGED <<epc, ctrl, gpc, garg>>,
         epc \in {"begun", "walk", "poll"} => ctrl \notin Doomed
  PROVE  CtrlInv'
<1>1. /\ controllers' = Kept(controllers, Doomed)
      /\ life' = [c \in Ctrls |-> IF c \in Doomed THEN "deleted" ELSE life[c]]
      /\ active' = [c \in Ctrls |-> IF c \in Singletons /\ Listed(c) THEN FALSE ELSE active[c]]
      /\ steady' = {c \in steady : ~Listed(c)} /\ polls' = polls
  BY DEF Reset, Delete
<1>2. /\ life \in [Ctrls -> {"none", "alive", "deleted"}] /\ active \in [Ctrls -> BOOLEAN]
      /\ steady \subseteq Ctrls
      /\ gpc' # "idle" => garg' \in Ctrls /\ life[garg'] # "none"
  BY DEF CtrlInv, ListInv, SteadyInv
<1>3. /\ life' \in [Ctrls -> {"none", "alive", "deleted"}]
      /\ \A c \in Ctrls : c \notin Doomed => life'[c] = life[c]
      /\ \A c \in Ctrls : life[c] # "none" => life'[c] # "none"
  BY <1>1, <1>2
<1>4. active' \in [Ctrls -> BOOLEAN]
  BY <1>1, <1>2
<1>5. EngineHolds => steady' = {}
  BY <1>1 DEF CtrlInv, SteadyInv, PolledSoFar, Listed
<1>6. steady' \subseteq steady
  BY <1>1
<1>7. QED
  BY <1>1, <1>2, <1>3, <1>4, <1>5, <1>6, LosingKeeps

LEMMA ScriptKeeps ==
  ASSUME CtrlInv, Script, hurt' = "no" PROVE CtrlInv'
<1>1. UNCHANGED <<epc, ctrl, gpc, garg>> /\ epc \in {"loading", "poll"}
  BY DEF Script, ScriptRuns, engineVars, guiVars
<1>2. /\ life \in [Ctrls -> {"none", "alive", "deleted"}] /\ active \in [Ctrls -> BOOLEAN]
      /\ steady \subseteq Ctrls /\ ListInv
      /\ gpc # "idle" => garg \in Ctrls /\ life[garg] # "none"
      /\ epc = "loading" => ctrl = None
  BY DEF CtrlInv, ListInv, SteadyInv, WalkInv
<1>3. ASSUME NEW c \in Ctrls, Construct(c) PROVE CtrlInv'
  <2>1. /\ UNCHANGED <<controllers, active, polls, steady>> /\ life[c] = "none"
        /\ life' = [life EXCEPT ![c] = "alive"]
    BY <1>3 DEF Construct
  <2>2. /\ life' \in [Ctrls -> {"none", "alive", "deleted"}]
        /\ \A d \in Ctrls : life[d] # "none" => life'[d] = life[d]
    BY <1>2, <2>1
  <2>3. QED
    BY <1>1, <1>2, <2>1, <2>2, ListStaysKeeps
<1>4. ASSUME NEW c \in Ctrls, RegisterController(c) PROVE CtrlInv'
  <2>1. /\ life[c] = "alive" /\ UNCHANGED <<life, polls>>
        /\ controllers' = Append(Kept(controllers, {c}), c)
        /\ active' = [active EXCEPT ![c] = TRUE]
        /\ steady' = steady \ ({c} \union Behind(c))
    <3>1. life[c] # "deleted"
      BY <1>4 DEF RegisterController, UseDeleted
    <3>2. QED
      BY <1>2, <1>4, <3>1 DEF RegisterController, AppendEntry, Without
  <2>2. /\ Thinner(Kept(controllers, {c}), controllers)
        /\ ~Contains(Kept(controllers, {c}), c)
        /\ \A x : Contains(controllers, x) => Contains(Kept(controllers, {c}), x) \/ x = c
    BY <1>2, KeptIsThinner, KeptContains DEF ListInv
  <2>3. active' \in [Ctrls -> BOOLEAN] /\ \A d \in Ctrls : active[d] => active'[d]
    BY <1>2, <2>1
  <2>4. steady' \subseteq steady
    BY <2>1
  <2>5. gpc' # "idle" => garg' \in Ctrls /\ life'[garg'] # "none"
    BY <1>1, <1>2, <2>1
  <2> DEFINE less == Kept(controllers, {c})
  <2> HIDE DEF less
  <2>6. /\ Thinner(less, controllers) /\ ~Contains(less, c) /\ controllers' = Append(less, c)
        /\ \A x : Contains(controllers, x) => Contains(less, x) \/ x = c
    BY <2>1, <2>2 DEF less
  <2>7. epc # "begun" /\ epc # "walk" /\ UNCHANGED <<epc, ctrl, polls, life>>
    BY <1>1, <2>1
  <2>8. QED
    BY <2>1, <2>3, <2>4, <2>5, <2>6, <2>7, AppendKeeps
<1>5. ASSUME NEW c \in Ctrls, RemController(c) PROVE CtrlInv'
  <2>1. /\ Delete({c}) /\ InItsPoll({c})
        /\ active' = [active EXCEPT ![c] = FALSE] /\ steady' = steady \ {c} /\ polls' = polls
    BY <1>5 DEF RemController, UseDeleted
  <2>2. /\ controllers' = Kept(controllers, {c})
        /\ life' = [d \in Ctrls |-> IF d \in {c} THEN "deleted" ELSE life[d]]
    BY <2>1 DEF Delete
  <2>3. epc = "poll" => ctrl \notin {c}
    BY <2>1 DEF InItsPoll
  <2>4. /\ life' \in [Ctrls -> {"none", "alive", "deleted"}]
        /\ \A d \in Ctrls : d \notin {c} => life'[d] = life[d]
        /\ \A d \in Ctrls : life[d] # "none" => life'[d] # "none"
    BY <1>2, <2>2
  <2>5. /\ active' \in [Ctrls -> BOOLEAN]
        /\ \A d \in steady' : d \notin {c} /\ active'[d] = active[d]
    BY <1>2, <2>1
  <2>6. QED
    BY <1>1, <1>2, <2>1, <2>2, <2>3, <2>4, <2>5, LosingKeeps
<1>6. ASSUME NEW c \in Ctrls, NEW b \in BOOLEAN, Activate(c, b) PROVE CtrlInv'
  <2>1. /\ active' = [active EXCEPT ![c] = b]
        /\ steady' = IF b THEN steady ELSE steady \ {c}
        /\ UNCHANGED <<controllers, life, polls>>
    BY <1>6 DEF Activate, UseDeleted
  <2>2. active' \in [Ctrls -> BOOLEAN] /\ steady' \subseteq steady
    BY <1>2, <2>1
  <2>3. \A d \in steady' : active[d] => active'[d]
    <3>1. CASE b
      BY <1>2, <2>1, <3>1
    <3>2. CASE ~b
      BY <1>2, <2>1, <3>2
    <3>3. QED
      BY <3>1, <3>2
  <2>4. QED
    BY <1>1, <1>2, <2>1, <2>2, <2>3, ListStaysKeeps
<1>7. CASE Reset /\ InItsPoll(Doomed)
  <2>1. epc = "poll" => ctrl \notin Doomed
    BY <1>7 DEF InItsPoll
  <2>2. QED
    BY <1>1, <1>7, <2>1, ResetKeeps
<1>8. QED
  BY <1>3, <1>4, <1>5, <1>6, <1>7 DEF Script

LEMMA GuiKeeps ==
  ASSUME CtrlInv, Gui, hurt' = "no" PROVE CtrlInv'
<1>1. UNCHANGED <<epc, ctrl, polls>>
  BY DEF Gui, GuiDeactivate, GuiActivate, Unlink, GuiDelete, GuiAppend, GuiReset, UseDeleted,
         Reset, engineVars
<1>2. /\ life \in [Ctrls -> {"none", "alive", "deleted"}] /\ active \in [Ctrls -> BOOLEAN]
      /\ steady \subseteq Ctrls /\ ListInv
      /\ gpc # "idle" => garg \in Ctrls /\ life[garg] # "none"
      /\ epc \in {"loading", "idle"} => ctrl = None
      /\ epc \in {"loading", "idle", "begun", "walk", "poll"}
  BY DEF CtrlInv, ListInv, SteadyInv, WalkInv
<1>3. ASSUME NEW c \in Ctrls, GuiDeactivate(c) \/ GuiActivate(c) PROVE CtrlInv'
  <2>1. /\ UNCHANGED <<controllers, life>> /\ life[c] = "alive" /\ garg' = c
        /\ \/ active' = [active EXCEPT ![c] = FALSE] /\ steady' = steady \ {c}
           \/ active' = [active EXCEPT ![c] = TRUE] /\ steady' = steady
    BY <1>3 DEF GuiDeactivate, GuiActivate, GuiBegins
  <2>2. /\ active' \in [Ctrls -> BOOLEAN] /\ steady' \subseteq steady
        /\ \A d \in steady' : active[d] => active'[d]
    <3>1. CASE active' = [active EXCEPT ![c] = FALSE] /\ steady' = steady \ {c}
      BY <1>2, <3>1
    <3>2. CASE active' = [active EXCEPT ![c] = TRUE] /\ steady' = steady
      BY <1>2, <3>2
    <3>3. QED
      BY <2>1, <3>1, <3>2
  <2>3. QED
    BY <1>1, <1>2, <2>1, <2>2, ListStaysKeeps
<1>4. CASE Unlink
  <2>1. /\ gpc = "unlink" /\ ~EngineHolds /\ controllers' = Kept(controllers, {garg})
        /\ BeforeTheLock({garg}) /\ UNCHANGED <<life, active, garg, steady>>
    BY <1>4 DEF Unlink, UseDeleted, Without
  <2>2. epc \in {"begun", "walk", "poll"} => ctrl \notin {garg}
    BY <1>2, <2>1 DEF BeforeTheLock, EngineHolds
  <2>3. QED
    BY <1>1, <1>2, <2>1, <2>2, LosingKeeps
<1>5. CASE GuiDelete
  <2>1. /\ gpc = "delete" /\ gpc' = "idle" /\ Delete({garg}) /\ ~Listed(garg)
        /\ active' = active /\ steady' = steady \ {garg}
    BY <1>5 DEF GuiDelete, UseDeleted, GuiReturns
  <2>2. /\ controllers' = Kept(controllers, {garg})
        /\ life' = [d \in Ctrls |-> IF d \in {garg} THEN "deleted" ELSE life[d]]
    BY <2>1 DEF Delete
  <2>3. /\ life' \in [Ctrls -> {"none", "alive", "deleted"}]
        /\ \A d \in Ctrls : d \notin {garg} => life'[d] = life[d]
        /\ \A d \in Ctrls : life[d] # "none" => life'[d] # "none"
    BY <1>2, <2>2
  <2>4. epc \in {"begun", "walk", "poll"} => ctrl \notin {garg}
    <3>1. (epc \in {"begun", "walk", "poll"} /\ ctrl # None) => Contains(controllers, ctrl)
      BY StartIsFirst DEF CtrlInv, ListInv, WalkInv, EngineHolds
    <3>2. garg # None
      BY <1>2, <2>1, CtrlsAssumption
    <3>3. QED
      BY <2>1, <3>1, <3>2 DEF Listed
  <2>5. QED
    BY <1>1, <1>2, <2>1, <2>2, <2>3, <2>4, LosingKeeps
<1>6. CASE GuiAppend
  <2>1. gpc = "append" /\ ~EngineHolds /\ life[garg] # "deleted" /\ garg \in Ctrls
        /\ UNCHANGED <<life, active, steady>>
    BY <1>2, <1>6 DEF GuiAppend, UseDeleted
  <2>2. CASE Listed(garg)
    <3>1. /\ controllers' = Kept(controllers, {garg}) /\ BeforeTheLock({garg})
          /\ UNCHANGED <<gpc, garg>>
      BY <1>6, <2>1, <2>2 DEF GuiAppend, Without, guiVars
    <3>2. epc \in {"begun", "walk", "poll"} => ctrl \notin {garg}
      BY <1>2, <2>1, <3>1 DEF BeforeTheLock, EngineHolds
    <3>3. QED
      BY <1>1, <1>2, <2>1, <3>1, <3>2, LosingKeeps
  <2>3. CASE ~Listed(garg)
    <3>1. controllers' = Append(controllers, garg) /\ gpc' = "idle"
      BY <1>6, <2>1, <2>3 DEF GuiAppend, GuiReturns
    <3>2. life[garg] = "alive" /\ epc # "walk" /\ epc # "poll"
      BY <1>2, <2>1 DEF EngineHolds
    <3>3. Thinner(controllers, controllers) /\ ~Contains(controllers, garg)
      BY <1>2, <2>3, SameIsThinner DEF Listed
    <3>4. QED
      BY <1>1, <1>2, <2>1, <3>1, <3>2, <3>3, AppendKeeps
  <2>4. QED
    BY <2>2, <2>3
<1>7. CASE GuiReset
  <2>1. Reset /\ ~EngineHolds /\ BeforeTheLock(Doomed) /\ UNCHANGED <<gpc, garg>>
    BY <1>7 DEF GuiReset, guiVars
  <2>2. epc \in {"begun", "walk", "poll"} => ctrl \notin Doomed
    BY <1>2, <2>1 DEF BeforeTheLock, EngineHolds
  <2>3. QED
    BY <1>1, <2>1, <2>2, ResetKeeps
<1>8. QED
  BY <1>3, <1>4, <1>5, <1>6, <1>7 DEF Gui

\* What deletes nothing of the list can hurt somebody, and polls nobody.
LEMMA PolledOnceKeeps ==
  ASSUME PolledOnce, UNCHANGED <<epc, ctrl, polls>>, steady' \subseteq steady
  PROVE  PolledOnce'
  BY DEF PolledOnce, EngineHolds

LEMMA CallsLeaveTheWalk ==
  ASSUME Script \/ Gui
  PROVE  UNCHANGED <<epc, ctrl, polls>> /\ steady' \subseteq steady
<1>1. ASSUME Reset PROVE polls' = polls /\ steady' \subseteq steady
  BY <1>1 DEF Reset
<1>2. ASSUME NEW c, RegisterController(c) \/ RemController(c)
      PROVE  polls' = polls /\ steady' \subseteq steady
  BY <1>2 DEF RegisterController, RemController, UseDeleted, AppendEntry
<1>3. ASSUME NEW c, Construct(c) \/ \E b \in BOOLEAN : Activate(c, b)
      PROVE  polls' = polls /\ steady' \subseteq steady
  BY <1>3 DEF Construct, Activate, UseDeleted
<1>4. CASE Script
  BY <1>1, <1>2, <1>3, <1>4 DEF Script, engineVars
<1>5. CASE Gui
  BY <1>1, <1>5 DEF Gui, GuiDeactivate, GuiActivate, Unlink, GuiDelete, GuiAppend, GuiReset,
                    UseDeleted, engineVars
<1>6. QED
  BY <1>4, <1>5

\* Nobody lives again.
LEMMA DeletedStays ==
  ASSUME CtrlInv, Script \/ Gui, NEW d \in Ctrls, life[d] = "deleted"
  PROVE  life'[d] = "deleted"
<1>1. life \in [Ctrls -> {"none", "alive", "deleted"}]
  BY DEF CtrlInv, ListInv
<1>2. ASSUME NEW gone, Delete(gone) PROVE life'[d] = "deleted"
  BY <1>1, <1>2 DEF Delete
<1>3. ASSUME NEW c \in Ctrls, Construct(c) PROVE life'[d] = "deleted"
  BY <1>1, <1>3 DEF Construct
<1>4. ASSUME NEW c \in Ctrls, RegisterController(c) \/ RemController(c) PROVE life'[d] = "deleted"
  BY <1>2, <1>4 DEF RegisterController, RemController, UseDeleted
<1>5. ASSUME NEW c \in Ctrls, \E b \in BOOLEAN : Activate(c, b) PROVE life'[d] = "deleted"
  BY <1>5 DEF Activate, UseDeleted
<1>6. CASE Script
  BY <1>2, <1>3, <1>4, <1>5, <1>6 DEF Script, Reset
<1>7. CASE Gui
  BY <1>2, <1>7 DEF Gui, GuiDeactivate, GuiActivate, Unlink, GuiDelete, GuiAppend, GuiReset,
                    UseDeleted, Reset
<1>8. QED
  BY <1>6, <1>7

-----------------------------------------------------------------------------
(* The commands *)

LEMMA LinkKeeps ==
  ASSUME QueueInv, Link PROVE QueueInv'
<1>1. /\ received' = received + 1 /\ pending' = Append(pending, received')
      /\ UNCHANGED <<dpc, dispatched>> /\ Taken' = Taken /\ Taken \in {0, 1}
  BY DEF Link, Taken
<1>2. /\ received' \in Nat /\ pending' \in Seq(Nat)
      /\ Len(pending') = Len(pending) + 1 /\ pending'[Len(pending) + 1] = received'
      /\ \A i \in 1..Len(pending) : pending'[i] = pending[i]
      /\ Len(pending) \in Nat /\ Len(dispatched) \in Nat
  BY <1>1, AppendProperties, LenProperties DEF QueueInv
<1>3. received + Taken = Len(dispatched) + Len(pending) /\ received \in Nat
  BY DEF QueueInv
<1>4. \A i \in 1..Len(pending') : pending'[i] = Len(dispatched) - Taken + i
  <2>1. \A i \in 1..Len(pending) : pending[i] = Len(dispatched) - Taken + i
    BY DEF QueueInv
  <2>2. received' = Len(dispatched) - Taken + (Len(pending) + 1)
    BY <1>1, <1>2, <1>3
  <2>3. \A i \in 1..Len(pending') : i \in 1..Len(pending) \/ i = Len(pending) + 1
    BY <1>2
  <2>4. QED
    BY <1>2, <2>1, <2>2, <2>3
<1>5. pending' # <<>>
  BY <1>2, EmptySeq
<1>6. received' + Taken = Len(dispatched) + Len(pending')
  BY <1>1, <1>2, <1>3
<1>7. QED
  BY <1>1, <1>2, <1>4, <1>5, <1>6 DEF QueueInv

LEMMA DispatchBeginKeeps ==
  ASSUME QueueInv, DispatchBegin PROVE QueueInv'
<1>1. /\ UNCHANGED <<received, pending>> /\ dpc = "begin"
      /\ \/ dpc' = "over" /\ dispatched' = dispatched
         \/ dpc' = "call" /\ pending # <<>> /\ dispatched' = Append(dispatched, Head(pending))
  BY DEF DispatchBegin, serverVars
<1>2. CASE dpc' = "over" /\ dispatched' = dispatched
  BY <1>1, <1>2 DEF QueueInv, Taken
<1>3. CASE dpc' = "call" /\ pending # <<>> /\ dispatched' = Append(dispatched, Head(pending))
  <2>1. Taken = 0 /\ Taken' = 1
    BY <1>1, <1>3 DEF Taken
  <2>2. /\ pending \in Seq(Nat) /\ Len(pending) \in Nat /\ Len(dispatched) \in Nat
        /\ 1 \in 1..Len(pending) /\ Head(pending) = pending[1] /\ pending[1] \in Nat
    BY <1>3, EmptySeq, HeadTailProperties, ElementOfSeq, LenProperties DEF QueueInv
  <2>3. pending[1] = Len(dispatched) + 1
    BY <2>1, <2>2 DEF QueueInv
  <2>4. /\ dispatched' \in Seq(Nat) /\ Len(dispatched') = Len(dispatched) + 1
        /\ \A i \in 1..Len(dispatched) : dispatched'[i] = dispatched[i]
        /\ dispatched'[Len(dispatched) + 1] = Len(dispatched) + 1
    BY <1>3, <2>2, <2>3, AppendProperties DEF QueueInv
  <2>5. \A i \in 1..Len(dispatched') : dispatched'[i] = i
    <3>1. \A i \in 1..Len(dispatched') : i \in 1..Len(dispatched) \/ i = Len(dispatched) + 1
      BY <2>2, <2>4
    <3>2. QED
      BY <2>4, <3>1 DEF QueueInv
  <2>6. Len(dispatched') - Taken' = Len(dispatched) - Taken
    BY <2>1, <2>2, <2>4
  <2>7. received + Taken' = Len(dispatched') + Len(pending)
    BY <2>1, <2>2, <2>4 DEF QueueInv
  <2>8. QED
    BY <1>1, <1>3, <2>4, <2>5, <2>6, <2>7 DEF QueueInv
<1>4. QED
  BY <1>1, <1>2, <1>3

LEMMA DispatchNextKeeps ==
  ASSUME QueueInv, DispatchNext, hurt' = "no" PROVE QueueInv'
<1>1. /\ pending' = Tail(pending) /\ dpc = "call" /\ dpc' = "begin"
      /\ UNCHANGED <<received, dispatched>>
  BY DEF DispatchNext, serverVars
<1>2. Taken = 1 /\ Taken' = 0
  BY <1>1 DEF Taken
<1>3. /\ pending \in Seq(Nat) /\ pending # <<>> /\ Len(pending) \in Nat /\ Len(dispatched) \in Nat
  BY <1>1, LenProperties DEF QueueInv
<1>4. /\ pending' \in Seq(Nat) /\ Len(pending') = Len(pending) - 1 /\ Len(pending) # 0
      /\ \A i \in 1..Len(pending') : pending'[i] = pending[i + 1] /\ i + 1 \in 1..Len(pending)
  BY <1>1, <1>3, HeadTailProperties, EmptySeq
<1>5. \A i \in 1..Len(pending') : pending'[i] = Len(dispatched) - 0 + i
  <2>1. \A i \in 1..Len(pending) : pending[i] = Len(dispatched) - 1 + i
    BY <1>2 DEF QueueInv
  <2>2. QED
    BY <1>3, <1>4, <2>1
<1>6. received + 0 = Len(dispatched) + Len(pending')
  BY <1>2, <1>3, <1>4 DEF QueueInv
<1>7. QED
  BY <1>1, <1>2, <1>4, <1>5, <1>6 DEF QueueInv

\* Which is what is promised.
LEMMA QueueIsInOrder ==
  ASSUME QueueInv
  PROVE  dispatched \o SubSeq(pending, 1 + Taken, Len(pending)) = [i \in 1 .. received |-> i]
<1> DEFINE rest == SubSeq(pending, 1 + Taken, Len(pending))
           all  == dispatched \o rest
<1>1. /\ Taken \in {0, 1} /\ received \in Nat /\ Len(pending) \in Nat /\ Len(dispatched) \in Nat
      /\ received + Taken = Len(dispatched) + Len(pending)
      /\ Taken = 1 => Len(pending) # 0
  BY LenProperties, EmptySeq DEF QueueInv, Taken
<1>2. /\ rest \in Seq(Nat) /\ Len(rest) = Len(pending) - Taken
      /\ \A i \in 1..Len(rest) : rest[i] = pending[Taken + i] /\ Taken + i \in 1..Len(pending)
  <2> DEFINE m == 1 + Taken
             n == Len(pending)
  <2>1. pending \in Seq(Nat)
    BY DEF QueueInv
  <2>2. m \in Int /\ n \in Int /\ \A i \in m..n : pending[i] \in Nat
    <3>1. \A i \in m..n : i \in 1..Len(pending)
      BY <1>1
    <3>2. QED
      BY <1>1, <2>1, <3>1, ElementOfSeq
  <2>3. /\ SubSeq(pending, m, n) \in Seq(Nat)
        /\ Len(SubSeq(pending, m, n)) = IF m <= n THEN n - m + 1 ELSE 0
        /\ \A i \in 1 .. n - m + 1 : SubSeq(pending, m, n)[i] = pending[m + i - 1]
    <3> HIDE DEF m, n
    <3>1. QED
      BY <2>2, SubSeqProperties
  <2>4. rest = SubSeq(pending, m, n)
    OBVIOUS
  <2> HIDE DEF rest
  <2>5. rest \in Seq(Nat) /\ Len(rest) = n - Taken
    BY <1>1, <2>3, <2>4
  <2>6. \A i \in 1..Len(rest) : /\ i \in 1 .. n - m + 1
                                /\ m + i - 1 = Taken + i /\ Taken + i \in 1..n
    BY <1>1, <2>5
  <2>7. QED
    BY <2>3, <2>4, <2>5, <2>6
<1>3. \A i \in 1..Len(rest) : rest[i] = Len(dispatched) + i
  <2>1. \A i \in 1..Len(pending) : pending[i] = Len(dispatched) - Taken + i
    BY DEF QueueInv
  <2> HIDE DEF rest
  <2>2. QED
    BY <1>1, <1>2, <2>1
<1>4. /\ all \in Seq(Nat) /\ Len(all) = Len(dispatched) + Len(rest)
      /\ \A i \in 1..Len(all) : all[i] = IF i <= Len(dispatched) THEN dispatched[i]
                                         ELSE rest[i - Len(dispatched)]
  <2>1. dispatched \in Seq(Nat) /\ rest \in Seq(Nat)
    BY <1>2 DEF QueueInv
  <2> HIDE DEF rest
  <2>2. all \in Seq(Nat)
    BY <2>1
  <2>3. QED
    BY <2>1, <2>2, ConcatProperties
<1> HIDE DEF rest
<1>5. Len(all) = received /\ Len(rest) \in Nat
  BY <1>1, <1>2, <1>4
<1>6. \A i \in 1..Len(dispatched) : dispatched[i] = i
  BY DEF QueueInv
<1> HIDE DEF all
<1>7. \A i \in 1..Len(all) : all[i] = i
  <2> SUFFICES ASSUME NEW i \in 1..Len(all) PROVE all[i] = i
    OBVIOUS
  <2>1. CASE i <= Len(dispatched)
    <3>1. i \in 1..Len(dispatched)
      BY <1>1, <1>5, <2>1
    <3>2. all[i] = dispatched[i]
      BY <1>4, <2>1
    <3>3. QED
      BY <1>6, <3>1, <3>2
  <2>2. CASE ~(i <= Len(dispatched))
    <3>1. i - Len(dispatched) \in 1..Len(rest) /\ Len(dispatched) + (i - Len(dispatched)) = i
      BY <1>1, <1>4, <1>5, <2>2
    <3>2. QED
      BY <1>3, <1>4, <2>2, <3>1
  <2>3. QED
    BY <2>1, <2>2
<1>8. all = [i \in 1..received |-> i]
  BY <1>4, <1>5, <1>7, LenProperties
<1>9. QED
  BY <1>8 DEF all, rest

-----------------------------------------------------------------------------
(* All of it *)

LEMMA InitOscInv ==
  ASSUME OscInit PROVE OscInv
<1>1. ListInv
  <2>1. <<>> \in Seq(Ctrls) /\ Len(<<>>) = 0
    BY EmptySeq
  <2>2. Distinct(<<>>) /\ \A x : ~Contains(<<>>, x)
    BY <2>1 DEF Distinct, Contains
  <2>3. QED
    BY <2>1, <2>2 DEF OscInit, Init, ListInv
<1>2. WalkInv /\ SteadyInv
  BY DEF OscInit, Init, WalkInv, SteadyInv, EngineHolds
<1>3. QueueInv
  BY EmptySeq DEF OscInit, QueueInv, Taken
<1>4. QED
  BY <1>1, <1>2, <1>3 DEF OscInv, CtrlInv, OscInit, Init

LEMMA ServerKeeps ==
  ASSUME OscInv, hurt = "no", Server PROVE OscInv'
<1>1. UNCHANGED <<vars, dpc>>
  BY DEF Server, Link, Belong, Count
<1>2. CtrlInv /\ CtrlInv' /\ UNCHANGED <<life, hurt, epc, ctrl>>
  BY <1>1, OthersKeep DEF OscInv, vars
<1>3. QueueInv => QueueInv'
  <2>1. CASE Link
    BY <2>1, LinkKeeps
  <2>2. CASE Belong \/ Count
    BY <2>2 DEF Belong, Count, QueueInv, Taken
  <2>3. QED
    BY <2>1, <2>2 DEF Server
<1>4. QED
  BY <1>1, <1>2, <1>3 DEF OscInv, InPoll

LEMMA OscEngineKeeps ==
  ASSUME OscInv, hurt = "no", OscEngine PROVE OscInv'
<1> DEFINE Rest == /\ dpc' # "none" => InPoll'
                   /\ life'[Osc] # "deleted" => QueueInv'
<1>1. /\ PolledOnce /\ CtrlInv /\ (dpc # "none" => InPoll)
      /\ life[Osc] # "deleted" => QueueInv
  BY InvIsPolledOnce DEF OscInv
<1>2. ASSUME CtrlInv', Rest, hurt' = hurt PROVE OscInv'
  BY <1>2 DEF OscInv
<1>3. CASE EngineElse
  <2>1. /\ BeginFrame \/ Lock \/ Poll \/ Unlock
        /\ UNCHANGED <<received, pending, dpc, dispatched>>
    BY <1>3 DEF EngineElse, oscVars, serverVars
  <2>2. life' = life /\ hurt' = hurt /\ epc # "poll"
    BY <2>1 DEF BeginFrame, Lock, Poll, Unlock
  <2>3. Rest
    BY <1>1, <2>1, <2>2 DEF QueueInv, Taken, InPoll
  <2>4. QED
    BY <1>1, <1>2, <2>1, <2>2, <2>3, EngineKeeps
<1>4. CASE PollLooks
  <2>1. UNCHANGED <<vars, received, pending, dispatched>> /\ InPoll /\ dpc = "none"
        /\ dpc' \in {"begin", "over"}
    BY <1>4 DEF PollLooks, serverVars
  <2>2. CtrlInv' /\ UNCHANGED <<life, hurt, epc, ctrl>>
    BY <1>1, <2>1, OthersKeep DEF vars
  <2>3. Rest
    BY <1>1, <2>1, <2>2 DEF QueueInv, Taken, InPoll
  <2>4. QED
    BY <1>2, <2>2, <2>3
<1>5. CASE DispatchBegin
  <2>1. UNCHANGED vars /\ dpc # "none"
    BY <1>5 DEF DispatchBegin
  <2>2. CtrlInv' /\ UNCHANGED <<life, hurt, epc, ctrl>>
    BY <1>1, <2>1, OthersKeep DEF vars
  <2>3. Rest
    BY <1>1, <1>5, <2>1, <2>2, DispatchBeginKeeps DEF InPoll
  <2>4. QED
    BY <1>2, <2>2, <2>3
<1>6. CASE DispatchNext
  <2>1. CASE hurt' = "no"
    <3>1. UNCHANGED vars /\ dpc # "none"
      BY <1>6, <2>1 DEF DispatchNext
    <3>2. CtrlInv' /\ UNCHANGED <<life, hurt, epc, ctrl>>
      BY <1>1, <3>1, OthersKeep DEF vars
    <3>3. Rest
      BY <1>1, <1>6, <2>1, <3>1, <3>2, DispatchNextKeeps DEF InPoll
    <3>4. QED
      BY <1>2, <3>2, <3>3
  <2>2. CASE hurt' # "no"
    <3>1. UNCHANGED <<epc, ctrl, polls>> /\ steady' = steady
      BY <1>6 DEF DispatchNext, vars, engineVars
    <3>2. QED
      BY <1>1, <2>2, <3>1, PolledOnceKeeps DEF OscInv
  <2>3. QED
    BY <2>1, <2>2
<1>7. CASE OscAdvance
  <2>1. /\ Advance /\ (InPoll => dpc = "over") /\ dpc' = "none"
        /\ UNCHANGED <<received, pending, dispatched, life, hurt>>
    BY <1>7 DEF OscAdvance, Advance, serverVars
  <2>2. dpc # "call"
    BY <1>1, <2>1
  <2>3. Rest
    BY <1>1, <2>1, <2>2 DEF QueueInv, Taken
  <2>4. QED
    BY <1>1, <1>2, <2>1, <2>3, AdvanceKeeps
<1>8. QED
  BY <1>3, <1>4, <1>5, <1>6, <1>7 DEF OscEngine, Dispatch

LEMMA CallsKeep ==
  ASSUME OscInv, hurt = "no", ScriptElse \/ GuiElse PROVE OscInv'
<1>1. /\ PolledOnce /\ CtrlInv /\ (dpc # "none" => InPoll)
      /\ life[Osc] # "deleted" => QueueInv
  BY InvIsPolledOnce DEF OscInv
<1>2. (Script \/ Gui \/ Quit) /\ Follows
  BY DEF ScriptElse, GuiElse
<1>3. UNCHANGED <<epc, ctrl, polls>> /\ steady' \subseteq steady
  BY <1>2, CallsLeaveTheWalk DEF Quit
<1>4. PolledOnce'
  BY <1>1, <1>3, PolledOnceKeeps
<1>5. hurt' = "no" => CtrlInv'
  BY <1>1, <1>2, ScriptKeeps, GuiKeeps, OthersKeep
<1>6. life'[Osc] # "deleted" => life[Osc] # "deleted" /\ QueueInv'
  <2> SUFFICES ASSUME life'[Osc] # "deleted" PROVE life[Osc] # "deleted" /\ QueueInv'
    OBVIOUS
  <2>1. life[Osc] # "deleted"
    BY <1>1, <1>2, DeletedStays, OscAssumption DEF Quit
  <2>2. UNCHANGED <<received, pending, dpc, dispatched>>
    BY <1>2 DEF Follows, DeletesOsc
  <2>3. QED
    BY <1>1, <2>1, <2>2 DEF QueueInv, Taken
<1>7. dpc' = dpc
  BY <1>2 DEF Follows
<1>8. QED
  BY <1>1, <1>3, <1>4, <1>5, <1>6, <1>7 DEF OscInv, InPoll

LEMMA OtherStepsKeep ==
  ASSUME OscInv, hurt = "no", OscStart \/ OscStop \/ OtherElse \/ UNCHANGED allVars
  PROVE  OscInv'
<1>1. /\ PolledOnce /\ CtrlInv /\ (dpc # "none" => InPoll)
      /\ life[Osc] # "deleted" => QueueInv
  BY InvIsPolledOnce DEF OscInv
<1>2. /\ UNCHANGED vars \/ QuitEvent \/ StartEngine
      /\ UNCHANGED <<received, pending, dpc, dispatched>>
  BY DEF OscStart, OscStop, OtherElse, oscVars, serverVars, allVars
<1>3. /\ UNCHANGED <<life, hurt, ctrl, polls, steady>>
      /\ epc' = epc \/ (epc # "poll" /\ epc' = "idle")
  BY <1>2 DEF vars, QuitEvent, StartEngine
<1>4. CtrlInv'
  BY <1>1, <1>2, OthersKeep
<1>5. (dpc' # "none" => InPoll') /\ (life[Osc] # "deleted" => QueueInv')
  BY <1>1, <1>2, <1>3 DEF InPoll, QueueInv, Taken
<1>6. QED
  BY <1>3, <1>4, <1>5 DEF OscInv

\* A program in which somebody was hurt does nothing more in the model.
LEMMA StepOscInv ==
  ASSUME OscInv, [OscNext]_allVars PROVE OscInv'
<1>1. CASE OscNext
  BY <1>1, ServerKeeps, OscEngineKeeps, CallsKeep, OtherStepsKeep DEF OscNext
<1>2. CASE UNCHANGED allVars
  <2>1. CASE hurt = "no"
    BY <1>2, <2>1, OtherStepsKeep
  <2>2. CASE hurt # "no"
    BY <1>2, <2>2 DEF OscInv, PolledOnce, EngineHolds, allVars, vars
  <2>3. QED
    BY <2>1, <2>2
<1>3. QED
  BY <1>1, <1>2

THEOREM ControllersInv == OscSpec => []OscInv
  BY InitOscInv, StepOscInv, PTL DEF OscSpec

\* Context::handle_controllers walks on controllers that exist and are on the
\* list, whatever scripts and the GUI do to the rest of it.
THEOREM TheWalkIsOnTheLiving == OscSpec => []WalksOnTheLiving
<1>1. OscInv => WalksOnTheLiving
  <2> SUFFICES ASSUME CtrlInv PROVE WalksOnTheLiving
    BY DEF OscInv, WalksOnTheLiving
  <2>1. (epc = "begun" /\ ctrl # None) => Contains(controllers, ctrl)
    BY StartIsFirst DEF CtrlInv, ListInv, WalkInv
  <2>2. QED
    BY <2>1 DEF CtrlInv, ListInv, WalkInv, WalksOnTheLiving, EngineHolds, Listed
<1>2. QED
  BY <1>1, ControllersInv, PTL

\* A frame polls once whoever was there, active, when it took the lock, and
\* stays: the list is walked in its order, and what changes it keeps the order.
THEOREM EachIsPolledOnce == OscSpec => []PolledOnce
<1>1. OscInv => PolledOnce
  BY InvIsPolledOnce DEF OscInv
<1>2. QED
  BY <1>1, ControllersInv, PTL

\* OscController::dispatch: commands are handed to JSCall, and taken off, in the
\* order of their messages, each once (no function of the script is called then),
\* while the server's thread appends and scripts start, stop and register.
THEOREM CommandsDispatchedInOrder == OscSpec => []CommandsInOrder
<1>1. OscInv => CommandsInOrder
  BY QueueIsInOrder DEF OscInv, CommandsInOrder
<1>2. QED
  BY <1>1, ControllersInv, PTL
=============================================================================
