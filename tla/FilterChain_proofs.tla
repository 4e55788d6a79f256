-------------------------- MODULE FilterChain_proofs --------------------------
(***************************************************************************)
(* Proofs about Linklist and FilterChain, for any number of entries, lists *)
(* and filters: each call on the pointers is the call of the same name on  *)
(* sequences, and so the links stay whole, a frame goes through the whole  *)
(* chain, and no setting is lost.                                          *)
(***************************************************************************)
EXTENDS FilterChain, SequenceTheorems, WellFoundedInduction, TLAPS

-----------------------------------------------------------------------------
(* Sequences *)

\* What stands at place i of s: nothing before the beginning and behind the end.
At(s, i) == IF i \in 1..Len(s) THEN s[i] ELSE NULL

LEMMA AtType ==
  ASSUME NEW s \in Seq(Entries)
  PROVE  /\ Len(s) \in Nat
         /\ \A i \in 1..Len(s) : At(s, i) = s[i] /\ s[i] \in Entries
         /\ \A i : At(s, i) \in Entries \cup {NULL}
         /\ \A i : (At(s, i) # NULL) <=> i \in 1..Len(s)
<1>1. Len(s) \in Nat /\ \A i \in 1..Len(s) : s[i] \in Entries
  BY LenProperties, ElementOfSeq
<1>2. QED
  BY <1>1, LinklistAssumption DEF At

\* t is s without its place i; t is s with e put before its place k.
Removed(t, s, i) ==
  /\ t \in Seq(Entries) /\ Len(t) = Len(s) - 1
  /\ \A k \in Nat : At(t, k) = IF k < i THEN At(s, k) ELSE At(s, k + 1)

Inserted(t, s, k, e) ==
  /\ t \in Seq(Entries) /\ Len(t) = Len(s) + 1
  /\ \A i \in Nat : At(t, i) = IF i < k THEN At(s, i) ELSE IF i = k THEN e ELSE At(s, i - 1)

LEMMA RemovedValues ==
  ASSUME NEW s \in Seq(Entries), NEW i \in 1..Len(s)
  PROVE  Removed(Abstract!RemoveAt(s, i), s, i)
<1> DEFINE a == SubSeq(s, 1, i - 1)
           z == SubSeq(s, i + 1, Len(s))
           t == a \o z
<1>1. Len(s) \in Nat /\ \A k \in 1..Len(s) : s[k] \in Entries
  BY LenProperties, ElementOfSeq
<1>2. /\ a \in Seq(Entries) /\ Len(a) = i - 1 /\ \A k \in 1..i - 1 : a[k] = s[k]
  BY <1>1, SubSeqProperties
<1>3. /\ z \in Seq(Entries) /\ Len(z) = Len(s) - i
      /\ \A k \in 1..Len(s) - i : z[k] = s[i + k]
  BY <1>1, SubSeqProperties
<1>4. Abstract!RemoveAt(s, i) = t
  BY DEF Abstract!RemoveAt
<1> HIDE DEF a, z
<1>5. /\ t \in Seq(Entries) /\ Len(t) = Len(a) + Len(z)
      /\ \A k \in 1..Len(a) + Len(z) : t[k] = IF k <= Len(a) THEN a[k] ELSE z[k - Len(a)]
  BY <1>2, <1>3, ConcatProperties
<1> HIDE DEF t
<1>6. Len(t) = Len(s) - 1
  BY <1>1, <1>2, <1>3, <1>5
<1>7. ASSUME NEW k \in Nat PROVE At(t, k) = IF k < i THEN At(s, k) ELSE At(s, k + 1)
  <2>1. CASE k < i
    <3>1. k \in 1..Len(t) <=> k \in 1..Len(s)
      BY <1>1, <1>6, <2>1
    <3>2. ASSUME k \in 1..Len(s) PROVE t[k] = s[k]
      <4>1. k \in 1..Len(a) + Len(z) /\ k <= Len(a) /\ k \in 1..i - 1
        BY <1>1, <1>2, <1>3, <2>1, <3>2
      <4>2. QED
        BY <1>2, <1>5, <4>1
    <3>3. QED
      BY <2>1, <3>1, <3>2 DEF At
  <2>2. CASE ~(k < i)
    <3>1. k \in 1..Len(t) <=> k + 1 \in 1..Len(s)
      BY <1>1, <1>6, <2>2
    <3>2. ASSUME k \in 1..Len(t) PROVE t[k] = s[k + 1]
      <4>1. k - Len(a) \in 1..Len(s) - i /\ i + (k - Len(a)) = k + 1 /\ ~(k <= Len(a))
        BY <1>1, <1>2, <1>6, <2>2, <3>2
      <4>2. z[k - Len(a)] = s[k + 1]
        BY <1>3, <4>1
      <4>3. QED
        BY <1>5, <3>2, <4>1, <4>2
    <3>3. QED
      BY <2>2, <3>1, <3>2 DEF At
  <2>3. QED
    BY <2>1, <2>2
<1>8. QED
  BY <1>4, <1>5, <1>6, <1>7 DEF Removed

LEMMA InsertedValues ==
  ASSUME NEW s \in Seq(Entries), NEW e \in Entries, NEW k \in 1..Len(s) + 1
  PROVE  Inserted(Abstract!InsertAt(s, k, e), s, k, e)
<1> DEFINE a == SubSeq(s, 1, k - 1)
           z == SubSeq(s, k, Len(s))
           m == a \o <<e>>
           t == m \o z
<1>1. Len(s) \in Nat /\ \A i \in 1..Len(s) : s[i] \in Entries
  BY LenProperties, ElementOfSeq
<1>2. /\ a \in Seq(Entries) /\ Len(a) = k - 1 /\ \A i \in 1..k - 1 : a[i] = s[i]
  BY <1>1, SubSeqProperties
<1>3. /\ z \in Seq(Entries) /\ Len(z) = Len(s) - k + 1
      /\ \A i \in 1..Len(s) - k + 1 : z[i] = s[k + i - 1]
  BY <1>1, SubSeqProperties
<1>4. <<e>> \in Seq(Entries) /\ Len(<<e>>) = 1 /\ <<e>>[1] = e
  OBVIOUS
<1>5. Abstract!InsertAt(s, k, e) = t
  BY DEF Abstract!InsertAt
<1> HIDE DEF a, z
<1>6. /\ m \in Seq(Entries) /\ Len(m) = k
      /\ \A i \in 1..k : m[i] = IF i < k THEN a[i] ELSE e
  <2>1. /\ m \in Seq(Entries) /\ Len(m) = Len(a) + 1
        /\ \A i \in 1..Len(a) + 1 : m[i] = IF i <= Len(a) THEN a[i] ELSE <<e>>[i - Len(a)]
    BY <1>2, <1>4, ConcatProperties
  <2>2. Len(a) + 1 = k /\ \A i \in 1..k : (i <= Len(a) <=> i < k) /\ (~(i < k) => i - Len(a) = 1)
    BY <1>2
  <2> HIDE DEF m
  <2>3. QED
    BY <1>4, <2>1, <2>2
<1> HIDE DEF m
<1>7. /\ t \in Seq(Entries) /\ Len(t) = Len(m) + Len(z)
      /\ \A i \in 1..Len(m) + Len(z) : t[i] = IF i <= Len(m) THEN m[i] ELSE z[i - Len(m)]
  BY <1>3, <1>6, ConcatProperties
<1> HIDE DEF t
<1>8. Len(t) = Len(s) + 1
  BY <1>1, <1>3, <1>6, <1>7
<1>9. ASSUME NEW i \in Nat
      PROVE  At(t, i) = IF i < k THEN At(s, i) ELSE IF i = k THEN e ELSE At(s, i - 1)
  <2>1. CASE i < k
    <3>1. i \in 1..Len(t) <=> i \in 1..Len(s)
      BY <1>1, <1>8, <2>1
    <3>2. ASSUME i \in 1..Len(s) PROVE t[i] = s[i]
      <4>1. i \in 1..Len(m) + Len(z) /\ i <= Len(m) /\ i \in 1..k /\ i \in 1..k - 1
        BY <1>1, <1>3, <1>6, <2>1, <3>2
      <4>2. t[i] = m[i] /\ m[i] = a[i] /\ a[i] = s[i]
        BY <1>2, <1>6, <1>7, <2>1, <4>1
      <4>3. QED
        BY <4>2
    <3>3. QED
      BY <2>1, <3>1, <3>2 DEF At
  <2>2. CASE i = k
    BY <1>1, <1>3, <1>6, <1>7, <1>8, <2>2 DEF At
  <2>3. CASE i > k
    <3>1. i \in 1..Len(t) <=> i - 1 \in 1..Len(s)
      BY <1>1, <1>8, <2>3
    <3>2. ASSUME i \in 1..Len(t) PROVE t[i] = s[i - 1]
      <4>1. i - Len(m) \in 1..Len(s) - k + 1 /\ k + (i - Len(m)) - 1 = i - 1 /\ ~(i <= Len(m))
        BY <1>1, <1>6, <1>8, <2>3, <3>2
      <4>2. z[i - Len(m)] = s[i - 1]
        BY <1>3, <4>1
      <4>3. QED
        BY <1>7, <3>2, <4>1, <4>2
    <3>3. QED
      BY <2>3, <3>1, <3>2 DEF At
  <2>4. QED
    BY <2>1, <2>2, <2>3
<1>10. QED
  BY <1>5, <1>7, <1>8, <1>9 DEF Inserted

-----------------------------------------------------------------------------
(* The pointers *)

Ptr == Entries \cup {NULL}
Heaps == [next : [Entries -> Ptr], prev : [Entries -> Ptr],
          first : [Lists -> Ptr], last : [Lists -> Ptr]]

\* The pointers of list l spell s, in both directions.
Spells(h, l, s) ==
  /\ h.first[l] = At(s, 1) /\ h.last[l] = At(s, Len(s))
  /\ \A i \in 1..Len(s) : /\ h.next[At(s, i)] = At(s, i + 1)
                          /\ h.prev[At(s, i)] = At(s, i - 1)

Distinct(s) == \A i, k \in 1..Len(s) : At(s, i) = At(s, k) => i = k

LEMMA JoinValues ==
  ASSUME NEW h \in Heaps, NEW l \in Lists, NEW a \in Ptr, NEW b \in Ptr
  PROVE  LET j == Join(h, l, a, b) IN
         /\ j \in Heaps
         /\ \A x \in Entries : /\ j.next[x] = IF x = a THEN b ELSE h.next[x]
                               /\ j.prev[x] = IF x = b THEN a ELSE h.prev[x]
         /\ \A m \in Lists : /\ j.first[m] = IF a = NULL /\ m = l THEN b ELSE h.first[m]
                             /\ j.last[m] = IF b = NULL /\ m = l THEN a ELSE h.last[m]
<1> DEFINE f == IF a = NULL THEN [h EXCEPT !.first[l] = b] ELSE [h EXCEPT !.next[a] = b]
           j == IF b = NULL THEN [f EXCEPT !.last[l] = a] ELSE [f EXCEPT !.prev[b] = a]
<1>1. a # NULL => a \in Entries
  BY DEF Ptr
<1>2. b # NULL => b \in Entries
  BY DEF Ptr
<1>3. /\ f \in Heaps /\ f.prev = h.prev /\ f.last = h.last
      /\ \A x \in Entries : f.next[x] = IF x = a THEN b ELSE h.next[x]
      /\ \A m \in Lists : f.first[m] = IF a = NULL /\ m = l THEN b ELSE h.first[m]
  <2>1. CASE a = NULL
    BY <2>1, LinklistAssumption DEF Heaps
  <2>2. CASE a # NULL
    BY <1>1, <2>2 DEF Heaps
  <2>3. QED
    BY <2>1, <2>2
<1> HIDE DEF f
<1>4. /\ j \in Heaps /\ j.next = f.next /\ j.first = f.first
      /\ \A x \in Entries : j.prev[x] = IF x = b THEN a ELSE f.prev[x]
      /\ \A m \in Lists : j.last[m] = IF b = NULL /\ m = l THEN a ELSE f.last[m]
  <2>1. CASE b = NULL
    BY <1>3, <2>1, LinklistAssumption DEF Heaps
  <2>2. CASE b # NULL
    BY <1>2, <1>3, <2>2 DEF Heaps
  <2>3. QED
    BY <2>1, <2>2
<1> HIDE DEF j
<1>5. Join(h, l, a, b) = j
  BY DEF Join, f, j
<1>6. QED
  BY <1>3, <1>4, <1>5

LEMMA BetweenValues ==
  ASSUME NEW h \in Heaps, NEW l \in Lists, NEW a \in Ptr, NEW e \in Entries, NEW b \in Ptr,
         e # a, e # b
  PROVE  LET j == Between(h, l, a, e, b) IN
         /\ j \in Heaps
         /\ \A x \in Entries :
              /\ j.next[x] = IF x = e THEN b ELSE IF x = a THEN e ELSE h.next[x]
              /\ j.prev[x] = IF x = e THEN a ELSE IF x = b THEN e ELSE h.prev[x]
         /\ \A m \in Lists : /\ j.first[m] = IF a = NULL /\ m = l THEN e ELSE h.first[m]
                             /\ j.last[m] = IF b = NULL /\ m = l THEN e ELSE h.last[m]
<1> DEFINE f == Join(h, l, a, e)
           j == Join(f, l, e, b)
<1>1. e \in Ptr /\ e # NULL
  BY LinklistAssumption DEF Ptr
<1>2. /\ f \in Heaps
      /\ \A x \in Entries : /\ f.next[x] = IF x = a THEN e ELSE h.next[x]
                            /\ f.prev[x] = IF x = e THEN a ELSE h.prev[x]
      /\ \A m \in Lists : /\ f.first[m] = IF a = NULL /\ m = l THEN e ELSE h.first[m]
                          /\ f.last[m] = h.last[m]
  BY <1>1, JoinValues
<1> HIDE DEF f
<1>3. /\ j \in Heaps
      /\ \A x \in Entries : /\ j.next[x] = IF x = e THEN b ELSE f.next[x]
                            /\ j.prev[x] = IF x = b THEN e ELSE f.prev[x]
      /\ \A m \in Lists : /\ j.first[m] = f.first[m]
                          /\ j.last[m] = IF b = NULL /\ m = l THEN e ELSE f.last[m]
  BY <1>1, <1>2, JoinValues
<1> HIDE DEF j
<1>4. Between(h, l, a, e, b) = j
  BY DEF Between, f, j
<1>5. QED
  BY <1>2, <1>3, <1>4

LEMMA AtDistinct ==
  ASSUME NEW s \in Seq(Entries), Distinct(s)
  PROVE  \A p \in 1..Len(s) : \A q : At(s, p) = At(s, q) => p = q
<1>1. ASSUME NEW p \in 1..Len(s), NEW q, At(s, p) = At(s, q) PROVE p = q
  <2>1. q \in 1..Len(s)
    BY <1>1, AtType
  <2>2. QED
    BY <1>1, <2>1 DEF Distinct
<1>2. QED
  BY <1>1

\* Whoever makes the neighbours of place i neighbours of each other takes that
\* place out.
LEMMA JoinRemoves ==
  ASSUME NEW h \in Heaps, NEW l \in Lists, NEW s \in Seq(Entries), Spells(h, l, s), Distinct(s),
         NEW i \in 1..Len(s), NEW t, Removed(t, s, i)
  PROVE  /\ Spells(Join(h, l, At(s, i - 1), At(s, i + 1)), l, t)
         /\ Distinct(t)
         /\ \A k \in 1..Len(t) : At(t, k) # At(s, i)
<1> DEFINE n == Len(s)
           a == At(s, i - 1)
           b == At(s, i + 1)
           j == Join(h, l, a, b)
<1>0. Len(t) = n - 1
  BY DEF Removed
<1>1. /\ n \in Nat /\ i \in Nat /\ 1 <= i /\ i <= n
      /\ a \in Ptr /\ b \in Ptr
      /\ (a = NULL) <=> i = 1
      /\ (b = NULL) <=> i = n
  <2>1. n \in Nat
    BY AtType
  <2>2. (i - 1 \in 1..n <=> i # 1) /\ (i + 1 \in 1..n <=> i # n)
    BY <2>1
  <2>3. QED
    BY <2>1, <2>2, AtType DEF Ptr
<1>2. /\ \A x \in Entries : /\ j.next[x] = IF x = a THEN b ELSE h.next[x]
                            /\ j.prev[x] = IF x = b THEN a ELSE h.prev[x]
      /\ j.first[l] = IF a = NULL THEN b ELSE h.first[l]
      /\ j.last[l] = IF b = NULL THEN a ELSE h.last[l]
  BY <1>1, JoinValues
<1>3. /\ \A p \in 1..n : \A q : At(s, p) = At(s, q) => p = q
      /\ \A p \in 1..n : At(s, p) \in Entries
  BY AtDistinct, AtType
<1>4. /\ h.first[l] = At(s, 1) /\ h.last[l] = At(s, n)
      /\ \A p \in 1..n : h.next[At(s, p)] = At(s, p + 1) /\ h.prev[At(s, p)] = At(s, p - 1)
  BY DEF Spells
<1> HIDE DEF j
<1>5. j.first[l] = At(t, 1)
  <2>1. At(t, 1) = IF 1 < i THEN At(s, 1) ELSE At(s, 2)
    BY DEF Removed
  <2>2. QED
    BY <1>1, <1>2, <1>4, <2>1
<1>6. j.last[l] = At(t, Len(t))
  <2>1. n - 1 \in Nat /\ (n - 1) + 1 = n /\ (n - 1 < i <=> i = n)
    BY <1>1
  <2>2. At(t, n - 1) = IF n - 1 < i THEN At(s, n - 1) ELSE At(s, n)
    BY <2>1 DEF Removed
  <2>3. QED
    BY <1>0, <1>1, <1>2, <1>4, <2>1, <2>2
<1>7. ASSUME NEW k \in 1..n - 1
      PROVE  j.next[At(t, k)] = At(t, k + 1) /\ j.prev[At(t, k)] = At(t, k - 1)
  <2>1. /\ k \in Nat /\ k + 1 \in Nat /\ k - 1 \in Nat
        /\ k \in 1..n /\ k + 1 \in 1..n /\ (k + 1) + 1 = k + 2 /\ (k + 1) - 1 = k
        /\ (k - 1) + 1 = k
    BY <1>1
  <2>2. /\ At(t, k) = IF k < i THEN At(s, k) ELSE At(s, k + 1)
        /\ At(t, k + 1) = IF k + 1 < i THEN At(s, k + 1) ELSE At(s, k + 2)
        /\ At(t, k - 1) = IF k - 1 < i THEN At(s, k - 1) ELSE At(s, k)
    BY <2>1 DEF Removed
  <2>3. CASE k < i
    <3>1. At(t, k) = At(s, k) /\ At(s, k) \in Entries
      BY <1>3, <2>1, <2>2, <2>3
    <3>2. (At(s, k) = a <=> k = i - 1) /\ (At(s, k) # b)
      BY <1>1, <1>3, <2>1, <2>3
    <3>3. j.next[At(s, k)] = IF k = i - 1 THEN b ELSE At(s, k + 1)
      BY <1>2, <1>4, <2>1, <3>1, <3>2
    <3>4. j.prev[At(s, k)] = At(s, k - 1)
      BY <1>2, <1>4, <2>1, <3>1, <3>2
    <3>5. k - 1 < i /\ (k + 1 < i <=> k # i - 1) /\ (k = i - 1 => k + 2 = i + 1)
      BY <1>1, <2>1, <2>3
    <3>6. QED
      BY <2>2, <3>1, <3>3, <3>4, <3>5
  <2>4. CASE ~(k < i)
    <3>1. At(t, k) = At(s, k + 1) /\ At(s, k + 1) \in Entries
      BY <1>3, <2>1, <2>2, <2>4
    <3>2. (At(s, k + 1) = b <=> k = i) /\ (At(s, k + 1) # a)
      BY <1>1, <1>3, <2>1, <2>4
    <3>3. j.next[At(s, k + 1)] = At(s, k + 2)
      BY <1>2, <1>4, <2>1, <3>1, <3>2
    <3>4. j.prev[At(s, k + 1)] = IF k = i THEN a ELSE At(s, k)
      BY <1>2, <1>4, <2>1, <3>1, <3>2
    <3>5. ~(k + 1 < i) /\ (k - 1 < i <=> k = i)
      BY <1>1, <2>1, <2>4
    <3>6. QED
      BY <2>2, <3>1, <3>3, <3>4, <3>5
  <2>5. QED
    BY <2>3, <2>4
<1>8. ASSUME NEW k \in 1..n - 1
      PROVE  \E p \in 1..n : /\ At(t, k) = At(s, p) /\ p # i
                             /\ p = IF k < i THEN k ELSE k + 1
  <2>1. k \in Nat /\ k \in 1..n /\ k + 1 \in 1..n /\ (k < i => k # i) /\ (~(k < i) => k + 1 # i)
    BY <1>1
  <2>2. At(t, k) = IF k < i THEN At(s, k) ELSE At(s, k + 1)
    BY <2>1 DEF Removed
  <2>3. QED
    BY <2>1, <2>2
<1>9. Distinct(t)
  <2>1. ASSUME NEW k \in 1..n - 1, NEW m \in 1..n - 1, At(t, k) = At(t, m) PROVE k = m
    <3>1. (IF k < i THEN k ELSE k + 1) = (IF m < i THEN m ELSE m + 1)
      BY <1>3, <1>8, <2>1
    <3>2. QED
      BY <1>1, <3>1
  <2>2. QED
    BY <1>0, <2>1 DEF Distinct
<1>10. \A k \in 1..Len(t) : At(t, k) # At(s, i)
  BY <1>0, <1>3, <1>8
<1>11. QED
  BY <1>0, <1>5, <1>6, <1>7, <1>9, <1>10 DEF Spells, j

\* Whoever puts e between two neighbours puts it into the sequence.
LEMMA BetweenInserts ==
  ASSUME NEW h \in Heaps, NEW l \in Lists, NEW s \in Seq(Entries), Spells(h, l, s), Distinct(s),
         NEW e \in Entries, \A i \in 1..Len(s) : At(s, i) # e,
         NEW k \in 1..Len(s) + 1, NEW t, Inserted(t, s, k, e)
  PROVE  /\ Spells(Between(h, l, At(s, k - 1), e, At(s, k)), l, t)
         /\ Distinct(t)
<1> DEFINE n == Len(s)
           a == At(s, k - 1)
           b == At(s, k)
           j == Between(h, l, a, e, b)
<1>0. Len(t) = n + 1
  BY DEF Inserted
<1>1. /\ n \in Nat /\ k \in Nat /\ 1 <= k /\ k <= n + 1
      /\ a \in Ptr /\ b \in Ptr /\ e # NULL
      /\ (a = NULL) <=> k = 1
      /\ (b = NULL) <=> k = n + 1
  <2>1. n \in Nat
    BY AtType
  <2>2. (k - 1 \in 1..n <=> k # 1) /\ (k \in 1..n <=> k # n + 1)
    BY <2>1
  <2>3. QED
    BY <2>1, <2>2, AtType, LinklistAssumption DEF Ptr
<1>2. \A q : At(s, q) # e
  BY <1>1, AtType
<1>3. /\ \A x \in Entries :
           /\ j.next[x] = IF x = e THEN b ELSE IF x = a THEN e ELSE h.next[x]
           /\ j.prev[x] = IF x = e THEN a ELSE IF x = b THEN e ELSE h.prev[x]
      /\ j.first[l] = IF a = NULL THEN e ELSE h.first[l]
      /\ j.last[l] = IF b = NULL THEN e ELSE h.last[l]
  BY <1>1, <1>2, BetweenValues
<1>4. /\ \A p \in 1..n : \A q : At(s, p) = At(s, q) => p = q
      /\ \A p \in 1..n : At(s, p) \in Entries
  BY AtDistinct, AtType
<1>5. /\ h.first[l] = At(s, 1) /\ h.last[l] = At(s, n)
      /\ \A p \in 1..n : h.next[At(s, p)] = At(s, p + 1) /\ h.prev[At(s, p)] = At(s, p - 1)
  BY DEF Spells
<1> HIDE DEF j
<1>6. j.first[l] = At(t, 1)
  <2>1. At(t, 1) = IF 1 < k THEN At(s, 1) ELSE IF 1 = k THEN e ELSE At(s, 0)
    BY DEF Inserted
  <2>2. QED
    BY <1>1, <1>3, <1>5, <2>1
<1>7. j.last[l] = At(t, n + 1)
  <2>1. n + 1 \in Nat /\ (n + 1) - 1 = n /\ ~(n + 1 < k)
    BY <1>1
  <2>2. At(t, n + 1) = IF n + 1 = k THEN e ELSE At(s, n)
    BY <2>1 DEF Inserted
  <2>3. QED
    BY <1>1, <1>3, <1>5, <2>2
<1>8. ASSUME NEW i \in 1..n + 1
      PROVE  j.next[At(t, i)] = At(t, i + 1) /\ j.prev[At(t, i)] = At(t, i - 1)
  <2>1. /\ i \in Nat /\ i + 1 \in Nat /\ i - 1 \in Nat /\ (i + 1) - 1 = i
        /\ (i - 1) + 1 = i
    BY <1>1
  <2>2. /\ At(t, i) = IF i < k THEN At(s, i) ELSE IF i = k THEN e ELSE At(s, i - 1)
        /\ At(t, i + 1) = IF i + 1 < k THEN At(s, i + 1) ELSE IF i + 1 = k THEN e ELSE At(s, i)
        /\ At(t, i - 1) = IF i - 1 < k THEN At(s, i - 1)
                          ELSE IF i - 1 = k THEN e ELSE At(s, (i - 1) - 1)
    BY <2>1 DEF Inserted
  <2>3. CASE i < k
    <3>1. i \in 1..n /\ i - 1 < k /\ i + 1 <= k
      BY <1>1, <2>1, <2>3
    <3>2. At(t, i) = At(s, i) /\ At(s, i) \in Entries /\ At(s, i) # e
      BY <1>2, <1>4, <2>2, <2>3, <3>1
    <3>3. (At(s, i) = a <=> i + 1 = k) /\ (At(s, i) # b)
      BY <1>1, <1>4, <2>1, <2>3, <3>1
    <3>4. j.next[At(s, i)] = IF i + 1 = k THEN e ELSE At(s, i + 1)
      BY <1>3, <1>5, <3>1, <3>2, <3>3
    <3>5. j.prev[At(s, i)] = At(s, i - 1)
      BY <1>3, <1>5, <3>1, <3>2, <3>3
    <3>6. i + 1 < k <=> i + 1 # k
      BY <1>1, <2>1, <3>1
    <3>7. QED
      BY <2>2, <3>1, <3>2, <3>4, <3>5, <3>6
  <2>4. CASE i = k
    <3>1. At(t, i) = e /\ i - 1 < k /\ ~(i + 1 < k) /\ i + 1 # k
      BY <1>1, <2>1, <2>2, <2>4
    <3>2. j.next[e] = b /\ j.prev[e] = a
      BY <1>3
    <3>3. QED
      BY <2>2, <2>4, <3>1, <3>2
  <2>5. CASE i > k
    <3>1. i - 1 \in 1..n /\ ~(i < k) /\ i # k /\ ~(i + 1 < k) /\ i + 1 # k
      BY <1>1, <2>1, <2>5
    <3>2. At(t, i) = At(s, i - 1) /\ At(s, i - 1) \in Entries /\ At(s, i - 1) # e
      BY <1>2, <1>4, <2>2, <3>1
    <3>3. (At(s, i - 1) = b <=> i - 1 = k) /\ (At(s, i - 1) # a)
      BY <1>1, <1>4, <2>1, <2>5, <3>1
    <3>4. j.next[At(s, i - 1)] = At(s, i)
      BY <1>3, <1>5, <2>1, <3>1, <3>2, <3>3
    <3>5. j.prev[At(s, i - 1)] = IF i - 1 = k THEN e ELSE At(s, (i - 1) - 1)
      BY <1>3, <1>5, <3>1, <3>2, <3>3
    <3>6. ~(i - 1 < k)
      BY <1>1, <2>1, <2>5
    <3>7. QED
      BY <2>2, <3>1, <3>2, <3>4, <3>5, <3>6
  <2>6. QED
    BY <1>1, <2>1, <2>3, <2>4, <2>5
<1>9. ASSUME NEW i \in 1..n + 1, i # k
      PROVE  \E p \in 1..n : At(t, i) = At(s, p) /\ p = IF i < k THEN i ELSE i - 1
  <2>1. i \in Nat /\ (i < k => i \in 1..n) /\ (~(i < k) => i - 1 \in 1..n)
    BY <1>1, <1>9
  <2>2. At(t, i) = IF i < k THEN At(s, i) ELSE At(s, i - 1)
    BY <1>9, <2>1 DEF Inserted
  <2>3. QED
    BY <2>1, <2>2
<1>10. At(t, k) = e
  BY <1>1 DEF Inserted
<1>11. Distinct(t)
  <2>1. ASSUME NEW i \in 1..n + 1, NEW m \in 1..n + 1, At(t, i) = At(t, m) PROVE i = m
    <3>1. (i = k) <=> (m = k)
      BY <1>2, <1>9, <1>10, <2>1
    <3>2. CASE i # k
      <4>1. (IF i < k THEN i ELSE i - 1) = (IF m < k THEN m ELSE m - 1)
        BY <1>4, <1>9, <2>1, <3>1, <3>2
      <4>2. QED
        BY <1>1, <3>1, <3>2, <4>1
    <3>3. QED
      BY <3>1, <3>2
  <2>2. QED
    BY <1>0, <2>1 DEF Distinct
<1>12. QED
  BY <1>0, <1>6, <1>7, <1>8, <1>11 DEF Spells, j

\* The other lists are left as they are.
LEMMA ElsewhereJoin ==
  ASSUME NEW h \in Heaps, NEW l \in Lists, NEW a \in Ptr, NEW b \in Ptr,
         NEW m \in Lists, m # l, NEW u \in Seq(Entries), Spells(h, m, u),
         \A i \in 1..Len(u) : At(u, i) # a /\ At(u, i) # b
  PROVE  Spells(Join(h, l, a, b), m, u)
<1> DEFINE j == Join(h, l, a, b)
<1>1. /\ \A x \in Entries : x # a => j.next[x] = h.next[x]
      /\ \A x \in Entries : x # b => j.prev[x] = h.prev[x]
      /\ j.first[m] = h.first[m] /\ j.last[m] = h.last[m]
  BY JoinValues
<1>2. \A i \in 1..Len(u) : At(u, i) \in Entries
  BY AtType
<1> HIDE DEF j
<1>3. Spells(j, m, u)
  BY <1>1, <1>2 DEF Spells
<1>4. QED
  BY <1>3 DEF j

LEMMA ElsewhereBetween ==
  ASSUME NEW h \in Heaps, NEW l \in Lists, NEW a \in Ptr, NEW e \in Entries, NEW b \in Ptr,
         e # a, e # b,
         NEW m \in Lists, m # l, NEW u \in Seq(Entries), Spells(h, m, u),
         \A i \in 1..Len(u) : At(u, i) # a /\ At(u, i) # b /\ At(u, i) # e
  PROVE  Spells(Between(h, l, a, e, b), m, u)
<1> DEFINE j == Between(h, l, a, e, b)
<1>1. /\ \A x \in Entries : x # a /\ x # e => j.next[x] = h.next[x]
      /\ \A x \in Entries : x # b /\ x # e => j.prev[x] = h.prev[x]
      /\ j.first[m] = h.first[m] /\ j.last[m] = h.last[m]
  BY BetweenValues
<1>2. \A i \in 1..Len(u) : At(u, i) \in Entries
  BY AtType
<1> HIDE DEF j
<1>3. Spells(j, m, u)
  BY <1>1, <1>2 DEF Spells
<1>4. QED
  BY <1>3 DEF j

-----------------------------------------------------------------------------
(* Walks *)

Front(s, len) == [i \in 1..len |-> At(s, i)]
Rear(s, len)  == [i \in 1..len |-> At(s, Len(s) + 1 - i)]

\* A walk along pointers that spell s meets s, and then nothing.
LEMMA WalkIs ==
  ASSUME NEW s \in Seq(Entries), NEW start, start = At(s, 1),
         NEW step, \A i \in 1..Len(s) : step[At(s, i)] = At(s, i + 1),
         NEW len \in Nat
  PROVE  Walk(start, step, len) = Front(s, len)
<1> DEFINE G(g) == [i \in Nat |-> IF i <= 1 THEN start
                                  ELSE IF g[i - 1] = NULL THEN NULL ELSE step[g[i - 1]]]
           node == CHOOSE g : g = G(g)
           v == [i \in Nat |-> At(s, IF i <= 1 THEN 1 ELSE i)]
<1>1. v = G(v)
  <2>1. ASSUME NEW i \in Nat PROVE v[i] = G(v)[i]
    <3>1. CASE i <= 1
      BY <3>1
    <3>2. CASE i > 1
      <4>1. /\ i - 1 \in Nat /\ v[i - 1] = At(s, i - 1) /\ v[i] = At(s, i)
            /\ (i - 1) + 1 = i
        BY <3>2
      <4>2. CASE i - 1 \in 1..Len(s)
        <5>1. At(s, i - 1) # NULL /\ step[At(s, i - 1)] = At(s, i)
          BY <4>1, <4>2, AtType
        <5>2. QED
          BY <3>2, <4>1, <5>1
      <4>3. CASE i - 1 \notin 1..Len(s)
        <5>1. i \notin 1..Len(s)
          BY <3>2, <4>3, LenProperties
        <5>2. At(s, i - 1) = NULL /\ At(s, i) = NULL
          BY <4>3, <5>1 DEF At
        <5>3. QED
          BY <3>2, <4>1, <5>2
      <4>4. QED
        BY <4>2, <4>3
    <3>3. QED
      BY <3>1, <3>2
  <2>2. QED
    BY <2>1
<1>2. node = G(node)
  BY <1>1
<1>3. Walk(start, step, len) = [i \in 1..len |-> node[i]]
  BY DEF Walk
<1> HIDE DEF node, v
<1>4. ASSUME NEW i \in Nat, i = 0 \/ node[i - 1] = v[i - 1] PROVE node[i] = v[i]
  <2>1. /\ node[i] = IF i <= 1 THEN start
                     ELSE IF node[i - 1] = NULL THEN NULL ELSE step[node[i - 1]]
        /\ v[i] = IF i <= 1 THEN start ELSE IF v[i - 1] = NULL THEN NULL ELSE step[v[i - 1]]
    BY <1>1, <1>2
  <2>2. QED
    BY <1>4, <2>1
<1>5. \A i \in Nat : node[i] = v[i]
  <2> DEFINE R == OpToRel(<, Nat)
             T == {i \in Nat : node[i] # v[i]}
  <2>1. IsWellFoundedOn(R, Nat)
    BY NatLessThanWellFounded
  <2>2. \A x, y \in Nat : x < y => <<x, y>> \in R
    BY DEF OpToRel
  <2> HIDE DEF R
  <2>3. SUFFICES ASSUME T # {} PROVE FALSE
    OBVIOUS
  <2>4. T \subseteq Nat
    OBVIOUS
  <2>5. PICK i \in T : \A y \in T : ~(<<y, i>> \in R)
    BY <2>1, <2>3, <2>4, WFMin, Zenon
  <2>6. i \in Nat /\ (i = 0 \/ (i - 1 \in Nat /\ i - 1 < i))
    OBVIOUS
  <2>7. i = 0 \/ node[i - 1] = v[i - 1]
    BY <2>2, <2>5, <2>6
  <2>8. QED
    BY <1>4, <2>5, <2>6, <2>7
<1>6. \A i \in 1..len : node[i] = At(s, i)
  BY <1>5 DEF v
<1>7. [i \in 1..len |-> node[i]] = Front(s, len)
  BY <1>6 DEF Front
<1>8. QED
  BY <1>3, <1>7

LEMMA BackIs ==
  ASSUME NEW h, NEW l, NEW s \in Seq(Entries), Spells(h, l, s), NEW len \in Nat
  PROVE  Walk(h.last[l], h.prev, len) = Rear(s, len)
<1> DEFINE n == Len(s)
           r == [i \in 1..n |-> At(s, n + 1 - i)]
<1>1. n \in Nat
  BY AtType
<1>2. \A i \in 1..n : n + 1 - i \in 1..n
  BY <1>1
<1>3. \A i \in 1..n : At(s, n + 1 - i) \in Entries
  BY <1>2, AtType
<1>4. r \in Seq(Entries) /\ Len(r) = n
  BY <1>1, <1>3, IsASeq, LenProperties
<1>5. ASSUME NEW i \in Int PROVE At(r, i) = At(s, n + 1 - i)
  <2>1. (i \in 1..n) <=> (n + 1 - i \in 1..n)
    BY <1>1
  <2>2. QED
    BY <1>4, <2>1, AtType DEF At
<1>6. /\ h.last[l] = At(s, n)
      /\ \A p \in 1..n : h.prev[At(s, p)] = At(s, p - 1)
  BY DEF Spells
<1> HIDE DEF r
<1>7. h.last[l] = At(r, 1)
  BY <1>1, <1>5, <1>6
<1>8. ASSUME NEW i \in 1..Len(r) PROVE h.prev[At(r, i)] = At(r, i + 1)
  <2>1. /\ i \in Int /\ i + 1 \in Int /\ n + 1 - i \in 1..n
        /\ n + 1 - (i + 1) = (n + 1 - i) - 1
    BY <1>1, <1>4
  <2>2. At(r, i) = At(s, n + 1 - i) /\ At(r, i + 1) = At(s, (n + 1 - i) - 1)
    BY <1>5, <2>1
  <2>3. QED
    BY <1>6, <2>1, <2>2
<1>9. Walk(h.last[l], h.prev, len) = Front(r, len)
  BY <1>4, <1>7, <1>8, WalkIs
<1>10. \A i \in 1..len : At(r, i) = At(s, n + 1 - i)
  BY <1>5
<1>11. Front(r, len) = Rear(s, len)
  BY <1>10 DEF Front, Rear
<1>12. QED
  BY <1>9, <1>11

LEMMA ForthIs ==
  ASSUME NEW h, NEW l, NEW s \in Seq(Entries), Spells(h, l, s), NEW len \in Nat
  PROVE  Walk(h.first[l], h.next, len) = Front(s, len)
<1>1. h.first[l] = At(s, 1) /\ \A i \in 1..Len(s) : h.next[At(s, i)] = At(s, i + 1)
  BY DEF Spells
<1>2. QED
  BY <1>1, WalkIs

\* pick() finds the entry at the position, from whichever end it starts.
LEMMA PickIs ==
  ASSUME NEW h, NEW l, NEW s \in Seq(Entries), Spells(h, l, s), NEW pos \in Int
  PROVE  Pick(h, Len(s), l, pos) = At(s, pos)
<1> DEFINE n == Len(s)
<1>1. n \in Nat
  BY AtType
<1>2. CASE pos < 1 \/ n < pos
  <2>1. pos \notin 1..n
    BY <1>1, <1>2
  <2>2. QED
    BY <1>2, <2>1 DEF Pick, At
<1>3. CASE ~(pos < 1 \/ n < pos)
  <2>1. /\ pos \in Nat /\ pos \in 1..pos
        /\ n - pos + 1 \in Nat /\ n - pos + 1 \in 1..n - pos + 1
        /\ n + 1 - (n - pos + 1) = pos
    BY <1>1, <1>3
  <2>2. Walk(h.first[l], h.next, pos) = Front(s, pos) /\ Front(s, pos)[pos] = At(s, pos)
    <3>1. Front(s, pos)[pos] = At(s, pos)
      BY <2>1 DEF Front
    <3>2. QED
      BY <2>1, <3>1, ForthIs
  <2>3. LET m == n - pos + 1 IN
        Walk(h.last[l], h.prev, m) = Rear(s, m) /\ Rear(s, m)[m] = At(s, pos)
    <3>1. Rear(s, n - pos + 1)[n - pos + 1] = At(s, pos)
      BY <2>1 DEF Rear
    <3>2. QED
      BY <2>1, <3>1, BackIs
  <2>4. QED
    BY <1>3, <2>2, <2>3 DEF Pick
<1>4. QED
  BY <1>2, <1>3

-----------------------------------------------------------------------------
(* All lists *)

Holds(s, x) == \E i \in 1..Len(s) : At(s, i) = x

LEMMA RemovedMembers ==
  ASSUME NEW s \in Seq(Entries), Distinct(s), NEW i \in 1..Len(s), NEW t, Removed(t, s, i),
         NEW x
  PROVE  Holds(t, x) <=> Holds(s, x) /\ x # At(s, i)
<1> DEFINE n == Len(s)
<1>1. n \in Nat /\ i \in Nat /\ Len(t) = n - 1
  BY AtType DEF Removed
<1>2. \A k \in Nat : At(t, k) = IF k < i THEN At(s, k) ELSE At(s, k + 1)
  BY DEF Removed
<1>3. \A p \in 1..n : At(s, p) = At(s, i) => p = i
  BY AtDistinct
<1>4. ASSUME NEW k \in 1..n - 1
      PROVE  \E p \in 1..n : At(t, k) = At(s, p) /\ p # i
  <2>1. k \in Nat /\ k \in 1..n /\ k + 1 \in 1..n /\ (k < i => k # i) /\ (~(k < i) => k + 1 # i)
    BY <1>1, <1>4
  <2>2. At(t, k) = IF k < i THEN At(s, k) ELSE At(s, k + 1)
    BY <1>2, <2>1
  <2>3. QED
    BY <2>1, <2>2
<1>5. ASSUME NEW p \in 1..n, p # i
      PROVE  \E k \in 1..n - 1 : At(t, k) = At(s, p)
  <2>1. /\ p \in Nat /\ (p < i => p \in 1..n - 1)
        /\ ~(p < i) => p - 1 \in Nat /\ p - 1 \in 1..n - 1 /\ ~(p - 1 < i) /\ (p - 1) + 1 = p
    BY <1>1, <1>5
  <2>2. CASE p < i
    BY <1>2, <2>1, <2>2
  <2>3. CASE ~(p < i)
    BY <1>2, <2>1, <2>3
  <2>4. QED
    BY <2>2, <2>3
<1>6. ASSUME Holds(t, x) PROVE Holds(s, x) /\ x # At(s, i)
  BY <1>1, <1>3, <1>4, <1>6 DEF Holds
<1>7. ASSUME Holds(s, x), x # At(s, i) PROVE Holds(t, x)
  BY <1>1, <1>5, <1>7 DEF Holds
<1>8. QED
  BY <1>6, <1>7

LEMMA InsertedMembers ==
  ASSUME NEW s \in Seq(Entries), NEW k \in 1..Len(s) + 1, NEW e, NEW t, Inserted(t, s, k, e),
         NEW x
  PROVE  Holds(t, x) <=> Holds(s, x) \/ x = e
<1> DEFINE n == Len(s)
<1>1. n \in Nat /\ k \in Nat /\ Len(t) = n + 1
  BY AtType DEF Inserted
<1>2. \A i \in Nat : At(t, i) = IF i < k THEN At(s, i) ELSE IF i = k THEN e ELSE At(s, i - 1)
  BY DEF Inserted
<1>3. ASSUME NEW i \in 1..n + 1
      PROVE  At(t, i) = e \/ \E p \in 1..n : At(t, i) = At(s, p)
  <2>1. /\ i \in Nat /\ (i < k => i \in 1..n)
        /\ ~(i < k) /\ i # k => i - 1 \in 1..n
    BY <1>1, <1>3
  <2>2. At(t, i) = IF i < k THEN At(s, i) ELSE IF i = k THEN e ELSE At(s, i - 1)
    BY <1>2, <2>1
  <2>3. QED
    BY <2>1, <2>2
<1>4. ASSUME NEW p \in 1..n PROVE \E i \in 1..n + 1 : At(t, i) = At(s, p)
  <2>1. /\ p \in Nat /\ p + 1 \in Nat /\ p \in 1..n + 1 /\ p + 1 \in 1..n + 1
        /\ ~(p < k) => ~(p + 1 < k) /\ p + 1 # k /\ (p + 1) - 1 = p
    BY <1>1, <1>4
  <2>2. CASE p < k
    BY <1>2, <2>1, <2>2
  <2>3. CASE ~(p < k)
    <3>1. At(t, p + 1) = At(s, (p + 1) - 1)
      BY <1>2, <2>1, <2>3
    <3>2. QED
      BY <2>1, <2>3, <3>1
  <2>4. QED
    BY <2>2, <2>3
<1>5. At(t, k) = e /\ k \in 1..n + 1
  BY <1>1, <1>2
<1>6. ASSUME Holds(t, x) PROVE Holds(s, x) \/ x = e
  BY <1>1, <1>3, <1>6 DEF Holds
<1>7. ASSUME Holds(s, x) PROVE Holds(t, x)
  BY <1>1, <1>4, <1>7 DEF Holds
<1>8. ASSUME x = e PROVE Holds(t, x)
  BY <1>1, <1>5, <1>8 DEF Holds
<1>9. QED
  BY <1>6, <1>7, <1>8

\* The pointers, the entries' own list and the lengths are those of the
\* sequences c.
Links(h, li, le, c) ==
  /\ h \in Heaps /\ li \in [Entries -> Lists \cup {NULL}]
  /\ c \in [Lists -> Seq(Entries)] /\ le = [l \in Lists |-> Len(c[l])]
  /\ \A l \in Lists : Spells(h, l, c[l]) /\ Distinct(c[l])
  /\ \A e \in Entries, l \in Lists : li[e] = l <=> Holds(c[l], e)

\* Without(e) and Place(e, l, k) of EntryLists.
IndexIn(c, l, e) == CHOOSE i \in DOMAIN c[l] : c[l][i] = e
Taken(c, e) == [l \in Lists |-> IF \E i \in DOMAIN c[l] : c[l][i] = e
                               THEN Abstract!RemoveAt(c[l], IndexIn(c, l, e)) ELSE c[l]]
Placed(c, e, l, k) == [Taken(c, e) EXCEPT ![l] = Abstract!InsertAt(@, k, e)]

LEMMA HoldsIs ==
  ASSUME NEW s \in Seq(Entries), NEW e \in Entries
  PROVE  /\ Holds(s, e) <=> \E i \in DOMAIN s : s[i] = e
         /\ DOMAIN s = 1..Len(s) /\ \A i \in 1..Len(s) : At(s, i) = s[i]
<1>1. DOMAIN s = 1..Len(s) /\ \A i \in 1..Len(s) : At(s, i) = s[i]
  BY LenProperties, AtType
<1>2. QED
  BY <1>1 DEF Holds

\* Two lists have no entry in common.
LEMMA Apart ==
  ASSUME NEW h, NEW li, NEW le, NEW c, Links(h, li, le, c),
         NEW l \in Lists, NEW m \in Lists, l # m, NEW i \in 1..Len(c[l])
  PROVE  \A q : At(c[l], i) # At(c[m], q)
<1>1. c[l] \in Seq(Entries) /\ c[m] \in Seq(Entries)
  BY DEF Links
<1>2. At(c[l], i) \in Entries /\ At(c[l], i) # NULL
  BY <1>1, AtType, LinklistAssumption
<1>3. li[At(c[l], i)] = l
  BY <1>2 DEF Links, Holds
<1>4. ASSUME NEW q, At(c[l], i) = At(c[m], q) PROVE FALSE
  <2>1. q \in 1..Len(c[m])
    BY <1>1, <1>2, <1>4, AtType
  <2>2. li[At(c[l], i)] = m
    BY <1>2, <1>4, <2>1 DEF Links, Holds
  <2>3. QED
    BY <1>3, <2>2
<1>5. QED
  BY <1>4

LEMMA TakenFree ==
  ASSUME NEW h, NEW li, NEW le, NEW c, Links(h, li, le, c),
         NEW e \in Entries, li[e] = NULL
  PROVE  Taken(c, e) = c
<1>1. ASSUME NEW l \in Lists PROVE ~\E i \in DOMAIN c[l] : c[l][i] = e
  <2>1. c[l] \in Seq(Entries) /\ ~Holds(c[l], e)
    BY LinklistAssumption DEF Links
  <2>2. QED
    BY <2>1, HoldsIs
<1>2. c = [l \in Lists |-> c[l]]
  BY DEF Links
<1>3. Taken(c, e) = [l \in Lists |-> c[l]]
  BY <1>1 DEF Taken
<1>4. QED
  BY <1>2, <1>3

LEMMA TakenFrom ==
  ASSUME NEW h, NEW li, NEW le, NEW c, Links(h, li, le, c),
         NEW e \in Entries, NEW l \in Lists, li[e] = l
  PROVE  LET i == IndexIn(c, l, e) IN
         /\ i \in 1..Len(c[l]) /\ At(c[l], i) = e
         /\ Removed(Taken(c, e)[l], c[l], i)
         /\ Taken(c, e) = [c EXCEPT ![l] = Taken(c, e)[l]]
         /\ h.prev[e] = At(c[l], i - 1) /\ h.next[e] = At(c[l], i + 1)
<1> DEFINE i == IndexIn(c, l, e)
<1>1. c[l] \in Seq(Entries) /\ Holds(c[l], e) /\ Distinct(c[l]) /\ Spells(h, l, c[l])
  BY DEF Links
<1>2. /\ \E k \in DOMAIN c[l] : c[l][k] = e
      /\ DOMAIN c[l] = 1..Len(c[l]) /\ \A k \in 1..Len(c[l]) : At(c[l], k) = c[l][k]
  BY <1>1, HoldsIs
<1>3. i \in DOMAIN c[l] /\ c[l][i] = e
  BY <1>2 DEF IndexIn
<1>4. i \in 1..Len(c[l]) /\ At(c[l], i) = e
  BY <1>2, <1>3
<1> HIDE DEF i
<1>6. Taken(c, e)[l] = Abstract!RemoveAt(c[l], i)
  BY <1>2 DEF Taken, i
<1>7. Removed(Taken(c, e)[l], c[l], i)
  BY <1>1, <1>4, <1>6, RemovedValues
<1>8. Taken(c, e) = [c EXCEPT ![l] = Taken(c, e)[l]]
  <2>1. ASSUME NEW m \in Lists, m # l PROVE Taken(c, e)[m] = c[m]
    <3>1. li[e] # m /\ c[m] \in Seq(Entries)
      BY <2>1 DEF Links
    <3>2. ~\E k \in DOMAIN c[m] : c[m][k] = e
      BY <3>1, HoldsIs DEF Links
    <3>3. QED
      BY <3>2 DEF Taken
  <2>2. DOMAIN c = Lists /\ c = [m \in Lists |-> c[m]]
    BY DEF Links
  <2>3. Taken(c, e) = [m \in Lists |-> Taken(c, e)[m]]
    BY DEF Taken
  <2>4. QED
    BY <2>1, <2>2, <2>3
<1>9. h.prev[e] = At(c[l], i - 1) /\ h.next[e] = At(c[l], i + 1)
  BY <1>1, <1>4 DEF Spells
<1>10. QED
  BY <1>4, <1>7, <1>8, <1>9 DEF i

\* The neighbours of e joined, e is in no list.
LEMMA JoinLinks ==
  ASSUME NEW h, NEW li, NEW le, NEW c, Links(h, li, le, c),
         NEW e \in Entries, NEW l \in Lists, li[e] = l
  PROVE  Links(Join(h, l, h.prev[e], h.next[e]), [li EXCEPT ![e] = NULL],
               [m \in Lists |-> le[m] - (IF m = l THEN 1 ELSE 0)], Taken(c, e))
<1> DEFINE i == IndexIn(c, l, e)
           s == c[l]
           t == Taken(c, e)[l]
           a == At(s, i - 1)
           b == At(s, i + 1)
           j == Join(h, l, a, b)
           c2 == Taken(c, e)
           li2 == [li EXCEPT ![e] = NULL]
<1>1. /\ i \in 1..Len(s) /\ At(s, i) = e /\ Removed(t, s, i)
      /\ c2 = [c EXCEPT ![l] = t]
      /\ h.prev[e] = a /\ h.next[e] = b
  BY TakenFrom
<1>2. /\ h \in Heaps /\ li \in [Entries -> Lists \cup {NULL}] /\ c \in [Lists -> Seq(Entries)]
      /\ \A m \in Lists : le[m] = Len(c[m]) /\ c[m] \in Seq(Entries)
      /\ \A m \in Lists : Spells(h, m, c[m]) /\ Distinct(c[m])
      /\ \A x \in Entries, m \in Lists : li[x] = m <=> Holds(c[m], x)
  BY DEF Links
<1> HIDE DEF i, t, c2
<1>3. Spells(j, l, t) /\ Distinct(t)
  BY <1>1, <1>2, JoinRemoves
<1>4. t \in Seq(Entries) /\ Len(t) = Len(s) - 1
  BY <1>1 DEF Removed
<1>5. a \in Ptr /\ b \in Ptr
  BY <1>2, AtType DEF Ptr
<1>6. j \in Heaps
  BY <1>2, <1>5, JoinValues
<1>7. ASSUME NEW m \in Lists PROVE Spells(j, m, c2[m]) /\ Distinct(c2[m])
  <2>1. CASE m = l
    BY <1>1, <1>2, <1>3, <2>1
  <2>2. CASE m # l
    <3>1. c2[m] = c[m]
      BY <1>1, <1>2, <2>2
    <3>2. \A k \in 1..Len(c[m]) : At(c[m], k) # a /\ At(c[m], k) # b
      BY <2>2, Apart
    <3>3. Spells(j, m, c[m])
      BY <1>2, <1>5, <2>2, <3>2, ElsewhereJoin
    <3>4. QED
      BY <1>2, <3>1, <3>3
  <2>3. QED
    BY <2>1, <2>2
<1>8. ASSUME NEW x \in Entries, NEW m \in Lists PROVE li2[x] = m <=> Holds(c2[m], x)
  <2>1. li2[x] = IF x = e THEN NULL ELSE li[x]
    BY <1>2
  <2>2. m # NULL
    BY LinklistAssumption
  <2>3. CASE m = l
    <3>1. c2[m] = t
      BY <1>1, <1>2, <2>3
    <3>2. Holds(t, x) <=> Holds(s, x) /\ x # e
      BY <1>1, <1>2, RemovedMembers
    <3>3. QED
      BY <1>2, <2>1, <2>2, <2>3, <3>1, <3>2
  <2>4. CASE m # l
    <3>1. c2[m] = c[m]
      BY <1>1, <1>2, <2>4
    <3>2. QED
      BY <1>2, <2>1, <2>2, <2>4, <3>1
  <2>5. QED
    BY <2>3, <2>4
<1>9. c2 \in [Lists -> Seq(Entries)]
  BY <1>1, <1>2, <1>4
<1>10. [m \in Lists |-> le[m] - (IF m = l THEN 1 ELSE 0)] = [m \in Lists |-> Len(c2[m])]
  <2>1. ASSUME NEW m \in Lists
        PROVE  le[m] - (IF m = l THEN 1 ELSE 0) = Len(c2[m])
    <3>1. Len(c[m]) \in Nat
      BY <1>2, LenProperties
    <3>2. c2[m] = IF m = l THEN t ELSE c[m]
      BY <1>1, <1>2
    <3>3. QED
      BY <1>2, <1>4, <3>1, <3>2
  <2>2. QED
    BY <2>1
<1>11. li2 \in [Entries -> Lists \cup {NULL}]
  BY <1>2
<1> HIDE DEF li2, j
<1>12. Links(j, li2, [m \in Lists |-> le[m] - (IF m = l THEN 1 ELSE 0)], c2)
  BY <1>6, <1>7, <1>8, <1>9, <1>10, <1>11 DEF Links
<1>13. QED
  BY <1>1, <1>12 DEF li2, j, c2

\* The pointers of an entry that is in no list do not matter.
LEMMA NulledLinks ==
  ASSUME NEW h, NEW li, NEW le, NEW c, Links(h, li, le, c), NEW e \in Entries, li[e] = NULL
  PROVE  Links([h EXCEPT !.next[e] = NULL, !.prev[e] = NULL], li, le, c)
<1> DEFINE j == [h EXCEPT !.next[e] = NULL, !.prev[e] = NULL]
<1>1. /\ j \in Heaps /\ j.first = h.first /\ j.last = h.last
      /\ \A x \in Entries : x # e => j.next[x] = h.next[x] /\ j.prev[x] = h.prev[x]
  <2>1. h \in Heaps
    BY DEF Links
  <2>2. QED
    BY <2>1 DEF Heaps, Ptr
<1> HIDE DEF j
<1>2. ASSUME NEW l \in Lists PROVE Spells(j, l, c[l])
  <2>1. c[l] \in Seq(Entries) /\ Spells(h, l, c[l]) /\ ~Holds(c[l], e)
    BY LinklistAssumption DEF Links
  <2>2. \A i \in 1..Len(c[l]) : At(c[l], i) \in Entries /\ At(c[l], i) # e
    BY <2>1, AtType DEF Holds
  <2>3. QED
    BY <1>1, <2>1, <2>2 DEF Spells
<1>3. QED
  BY <1>1, <1>2 DEF Links, j

\* Put between two neighbours, e is in their list.
LEMMA BetweenLinks ==
  ASSUME NEW h, NEW li, NEW le, NEW c, Links(h, li, le, c), NEW e \in Entries, li[e] = NULL,
         NEW l \in Lists, NEW k \in 1..Len(c[l]) + 1
  PROVE  Links(Between(h, l, At(c[l], k - 1), e, At(c[l], k)), [li EXCEPT ![e] = l],
               [m \in Lists |-> le[m] + (IF m = l THEN 1 ELSE 0)],
               [c EXCEPT ![l] = Abstract!InsertAt(@, k, e)])
<1> DEFINE s == c[l]
           t == Abstract!InsertAt(s, k, e)
           a == At(s, k - 1)
           b == At(s, k)
           j == Between(h, l, a, e, b)
           c2 == [c EXCEPT ![l] = t]
           li2 == [li EXCEPT ![e] = l]
<1>1. /\ h \in Heaps /\ li \in [Entries -> Lists \cup {NULL}] /\ c \in [Lists -> Seq(Entries)]
      /\ \A m \in Lists : le[m] = Len(c[m]) /\ c[m] \in Seq(Entries)
      /\ \A m \in Lists : Spells(h, m, c[m]) /\ Distinct(c[m])
      /\ \A x \in Entries, m \in Lists : li[x] = m <=> Holds(c[m], x)
  BY DEF Links
<1>2. Inserted(t, s, k, e)
  BY <1>1, InsertedValues
<1>3. ASSUME NEW m \in Lists PROVE \A i : At(c[m], i) # e
  <2>1. ~Holds(c[m], e)
    BY <1>1, LinklistAssumption
  <2>2. QED
    BY <1>1, <2>1, AtType, LinklistAssumption DEF Holds
<1> HIDE DEF t
<1>4. Spells(j, l, t) /\ Distinct(t)
  BY <1>1, <1>2, <1>3, BetweenInserts
<1>5. t \in Seq(Entries) /\ Len(t) = Len(s) + 1
  BY <1>2 DEF Inserted
<1>6. a \in Ptr /\ b \in Ptr /\ e # a /\ e # b
  BY <1>1, <1>3, AtType DEF Ptr
<1>7. j \in Heaps
  BY <1>1, <1>6, BetweenValues
<1>8. \A m \in Lists : c2[m] = IF m = l THEN t ELSE c[m]
  BY <1>1
<1> HIDE DEF c2
<1>9. ASSUME NEW m \in Lists PROVE Spells(j, m, c2[m]) /\ Distinct(c2[m])
  <2>1. CASE m = l
    BY <1>4, <1>8, <2>1
  <2>2. CASE m # l
    <3>1. \A i \in 1..Len(c[m]) : At(c[m], i) # a /\ At(c[m], i) # b /\ At(c[m], i) # e
      BY <1>3, <2>2, Apart
    <3>2. Spells(j, m, c[m])
      BY <1>1, <1>6, <2>2, <3>1, ElsewhereBetween
    <3>3. QED
      BY <1>1, <1>8, <2>2, <3>2
  <2>3. QED
    BY <2>1, <2>2
<1>10. ASSUME NEW x \in Entries, NEW m \in Lists PROVE li2[x] = m <=> Holds(c2[m], x)
  <2>1. li2[x] = IF x = e THEN l ELSE li[x]
    BY <1>1
  <2>2. CASE m = l
    <3>1. Holds(t, x) <=> Holds(s, x) \/ x = e
      BY <1>1, <1>2, InsertedMembers
    <3>2. QED
      BY <1>1, <1>8, <2>1, <2>2, <3>1
  <2>3. CASE m # l
    <3>1. ~Holds(c[m], e)
      BY <1>1, LinklistAssumption
    <3>2. QED
      BY <1>1, <1>8, <2>1, <2>3, <3>1
  <2>4. QED
    BY <2>2, <2>3
<1>11. c2 \in [Lists -> Seq(Entries)]
  BY <1>1, <1>5 DEF c2
<1>12. [m \in Lists |-> le[m] + (IF m = l THEN 1 ELSE 0)] = [m \in Lists |-> Len(c2[m])]
  <2>1. ASSUME NEW m \in Lists
        PROVE  le[m] + (IF m = l THEN 1 ELSE 0) = Len(c2[m])
    <3>1. Len(c[m]) \in Nat
      BY <1>1, LenProperties
    <3>2. QED
      BY <1>1, <1>5, <1>8, <3>1
  <2>2. QED
    BY <2>1
<1>13. li2 \in [Entries -> Lists \cup {NULL}]
  BY <1>1
<1> HIDE DEF li2, j
<1>14. Links(j, li2, [m \in Lists |-> le[m] + (IF m = l THEN 1 ELSE 0)], c2)
  BY <1>7, <1>9, <1>10, <1>11, <1>12, <1>13 DEF Links
<1>15. QED
  BY <1>14 DEF li2, j, c2, t

-----------------------------------------------------------------------------
(* The calls *)

Linked(c) == Links(Heap, list, length, c)
OutOf(h, c, e) == Links(h, [list EXCEPT ![e] = NULL], Lengths(e, NULL), Taken(c, e))

LEMMA LinkTypes ==
  ASSUME NEW c, Linked(c)
  PROVE  /\ list \in [Entries -> Lists \cup {NULL}]
         /\ length = [m \in Lists |-> length[m]]
         /\ Heap \in Heaps
         /\ \A m \in Lists : /\ c[m] \in Seq(Entries) /\ length[m] = Len(c[m]) /\ length[m] \in Nat
                             /\ Spells(Heap, m, c[m]) /\ Distinct(c[m])
<1>1. \A m \in Lists : length[m] = Len(c[m]) /\ c[m] \in Seq(Entries)
  BY DEF Linked, Links
<1>2. QED
  BY <1>1, LenProperties DEF Linked, Links

LEMMA JoinOut ==
  ASSUME NEW c, Linked(c), NEW e \in Entries, list[e] # NULL
  PROVE  OutOf(Join(Heap, list[e], prev[e], next[e]), c, e)
<1> DEFINE l == list[e]
           le2 == [m \in Lists |-> length[m] - (IF m = l THEN 1 ELSE 0)]
<1>1. l \in Lists
  BY LinkTypes
<1>2. Links(Join(Heap, l, Heap.prev[e], Heap.next[e]), [list EXCEPT ![e] = NULL], le2,
            Taken(c, e))
  BY <1>1, JoinLinks DEF Linked
<1>3. le2 = Lengths(e, NULL)
  BY <1>1, LinkTypes, LinklistAssumption DEF Lengths
<1>4. Heap.prev = prev /\ Heap.next = next
  BY DEF Heap
<1>5. QED
  BY <1>2, <1>3, <1>4 DEF OutOf

LEMMA UnlinkedLinks ==
  ASSUME NEW c, Linked(c), NEW e \in Entries
  PROVE  OutOf(Unlinked(Heap, e), c, e)
<1>1. CASE list[e] = NULL
  <2>1. [list EXCEPT ![e] = NULL] = list /\ Lengths(e, NULL) = length
    BY <1>1, LinkTypes, LinklistAssumption DEF Lengths
  <2>2. Taken(c, e) = c
    BY <1>1, TakenFree DEF Linked
  <2>3. QED
    BY <1>1, <2>1, <2>2 DEF Linked, OutOf, Unlinked
<1>2. CASE list[e] # NULL
  <2> DEFINE j == Join(Heap, list[e], prev[e], next[e])
             li == [list EXCEPT ![e] = NULL]
  <2>1. Links(j, li, Lengths(e, NULL), Taken(c, e))
    BY <1>2, JoinOut DEF OutOf
  <2>2. li[e] = NULL
    BY LinkTypes
  <2>3. Heap.prev = prev /\ Heap.next = next
    BY DEF Heap
  <2> HIDE DEF j, li
  <2>4. Links([j EXCEPT !.next[e] = NULL, !.prev[e] = NULL], li, Lengths(e, NULL), Taken(c, e))
    BY <2>1, <2>2, NulledLinks
  <2>5. QED
    BY <1>2, <2>3, <2>4 DEF OutOf, Unlinked, j, li
<1>3. QED
  BY <1>1, <1>2

LEMMA SetLinksHeap ==
  ASSUME NEW h \in Heaps, SetLinks(h) PROVE Heap' = h
  BY DEF SetLinks, Heap, Heaps

LEMMA EnterLinks ==
  ASSUME NEW c, Linked(c), NEW e \in Entries, NEW l \in Lists,
         NEW k \in 1..Len(Taken(c, e)[l]) + 1,
         Enter(e, l, At(Taken(c, e)[l], k - 1), At(Taken(c, e)[l], k))
  PROVE  Links(Heap', list', length', Placed(c, e, l, k))
<1> DEFINE h == Unlinked(Heap, e)
           t == Taken(c, e)
           j == Between(h, l, At(t[l], k - 1), e, At(t[l], k))
           li == [list EXCEPT ![e] = NULL]
           le == [m \in Lists |-> Lengths(e, NULL)[m] + (IF m = l THEN 1 ELSE 0)]
<1>1. /\ list \in [Entries -> Lists \cup {NULL}]
      /\ \A m \in Lists : length[m] \in Nat
  BY LinkTypes
<1>2. Links(h, li, Lengths(e, NULL), t) /\ li[e] = NULL
  BY <1>1, UnlinkedLinks DEF OutOf
<1> HIDE DEF h, t, li
<1>3. k \in 1..Len(t[l]) + 1
  BY DEF t
<1>4. Links(j, [li EXCEPT ![e] = l], le, [t EXCEPT ![l] = Abstract!InsertAt(@, k, e)])
  BY <1>2, <1>3, BetweenLinks
<1>5. [li EXCEPT ![e] = l] = list' /\ le = length'
  <2>1. list' = [list EXCEPT ![e] = l] /\ length' = Lengths(e, l)
    BY DEF Enter
  <2>2. ASSUME NEW m \in Lists PROVE le[m] = Lengths(e, l)[m]
    BY <1>1, LinklistAssumption DEF Lengths
  <2>3. le = Lengths(e, l)
    BY <2>2 DEF Lengths
  <2>4. [li EXCEPT ![e] = l] = [list EXCEPT ![e] = l]
    BY <1>1 DEF li
  <2>5. QED
    BY <2>1, <2>3, <2>4
<1>6. Heap' = j
  <2>1. SetLinks(j)
    BY DEF Enter, h, t
  <2>2. j \in Heaps
    BY <1>4 DEF Links
  <2>3. QED
    BY <2>1, <2>2, SetLinksHeap
<1>7. QED
  BY <1>4, <1>5, <1>6 DEF Placed, t

\* An entry that is moved in its list.
LEMMA MoveLinks ==
  ASSUME NEW c, Linked(c), NEW e \in Entries, list[e] \in Lists,
         NEW h, OutOf(h, c, e),
         NEW k \in 1..Len(Taken(c, e)[list[e]]) + 1,
         LET t == Taken(c, e)[list[e]] IN
           SetLinks(Between(h, list[e], At(t, k - 1), e, At(t, k))),
         UNCHANGED <<list, length>>
  PROVE  Links(Heap', list', length', Placed(c, e, list[e], k))
<1> DEFINE l == list[e]
           t == Taken(c, e)
           j == Between(h, l, At(t[l], k - 1), e, At(t[l], k))
           li == [list EXCEPT ![e] = NULL]
           le == [m \in Lists |-> Lengths(e, NULL)[m] + (IF m = l THEN 1 ELSE 0)]
<1>1. /\ list \in [Entries -> Lists \cup {NULL}]
      /\ \A m \in Lists : length[m] \in Nat
      /\ length = [m \in Lists |-> length[m]]
  BY LinkTypes
<1>2. Links(h, li, Lengths(e, NULL), t) /\ li[e] = NULL
  BY <1>1 DEF OutOf
<1>3. SetLinks(j) /\ list' = list /\ length' = length
  OBVIOUS
<1>4. [li EXCEPT ![e] = l] = list
  BY <1>1
<1>5. le = length
  <2>1. ASSUME NEW m \in Lists PROVE le[m] = length[m]
    BY <1>1, LinklistAssumption DEF Lengths
  <2>2. QED
    BY <1>1, <2>1
<1> HIDE DEF t, li, l
<1>6. k \in 1..Len(t[l]) + 1 /\ l \in Lists
  BY DEF t, l
<1>7. Links(j, [li EXCEPT ![e] = l], le, [t EXCEPT ![l] = Abstract!InsertAt(@, k, e)])
  BY <1>2, <1>6, BetweenLinks
<1>8. Heap' = j
  <2>1. j \in Heaps
    BY <1>7 DEF Links
  <2>2. QED
    BY <1>3, <2>1, SetLinksHeap
<1>9. QED
  BY <1>3, <1>4, <1>5, <1>7, <1>8 DEF Placed, t, l

\* What a call leaves is whole, and spells c.
After(c) == Links(Heap', list', length', c)

\* Place(e, l, k), if a and b are the neighbours at place k once e is taken out.
LEMMA EnterIs ==
  ASSUME NEW c, Linked(c), NEW e \in Entries, NEW l \in Lists,
         NEW k \in 1..Len(Taken(c, e)[l]) + 1, NEW a, NEW b, Enter(e, l, a, b),
         a = At(Taken(c, e)[l], k - 1), b = At(Taken(c, e)[l], k)
  PROVE  After(Placed(c, e, l, k))
  BY EnterLinks DEF After

LEMMA AppendIs ==
  ASSUME NEW c, Linked(c), NEW e \in Entries, NEW l \in Lists, AppendEntry(e, l)
  PROVE  After(Placed(c, e, l, Len(Taken(c, e)[l]) + 1))
<1> DEFINE h == Unlinked(Heap, e)
           t == Taken(c, e)[l]
           n == Len(t)
<1>1. t \in Seq(Entries) /\ Spells(h, l, t)
  BY UnlinkedLinks DEF OutOf, Links
<1> HIDE DEF t
<1>2. n \in Nat
  BY <1>1, AtType
<1>3. n + 1 \in 1..n + 1 /\ (n + 1) - 1 = n /\ n + 1 \notin 1..n
  BY <1>2
<1>4. h.last[l] = At(t, (n + 1) - 1) /\ NULL = At(t, n + 1)
  BY <1>1, <1>3 DEF Spells, At
<1>5. Enter(e, l, h.last[l], NULL)
  BY DEF AppendEntry
<1>6. QED
  BY <1>3, <1>4, <1>5, EnterIs DEF t

LEMMA PrependIs ==
  ASSUME NEW c, Linked(c), NEW e \in Entries, NEW l \in Lists, Prepend(e, l)
  PROVE  list[e] = NULL /\ After(Placed(c, e, l, 1))
<1> DEFINE t == Taken(c, e)[l]
<1>1. list[e] = NULL /\ Enter(e, l, NULL, first[l])
  BY DEF Prepend
<1>2. t = c[l]
  BY <1>1, TakenFree DEF Linked
<1>3. t \in Seq(Entries) /\ Spells(Heap, l, t) /\ Heap.first = first
  BY <1>2, LinkTypes DEF Heap
<1> HIDE DEF t
<1>4. 1 \in 1..Len(t) + 1 /\ 1 - 1 \notin 1..Len(t)
  BY <1>3, AtType
<1>5. NULL = At(t, 1 - 1) /\ first[l] = At(t, 1)
  BY <1>3, <1>4 DEF Spells, At
<1>6. QED
  BY <1>1, <1>4, <1>5, EnterIs DEF t

LEMMA InsertAfterIs ==
  ASSUME NEW c, Linked(c), NEW e \in Entries, NEW p \in Entries, NEW l \in Lists,
         InsertAfter(e, p, l)
  PROVE  /\ Holds(c[l], p) /\ e # p
         /\ After(Placed(c, e, l, 1 + IndexIn(Taken(c, e), l, p)))
<1> DEFINE h == Unlinked(Heap, e)
           t == Taken(c, e)
           li == [list EXCEPT ![e] = NULL]
           i == IndexIn(t, l, p)
<1>1. list[p] = l /\ e # p /\ Enter(e, l, p, h.next[p])
  BY DEF InsertAfter
<1>2. Holds(c[l], p)
  BY <1>1 DEF Linked, Links
<1>3. Links(h, li, Lengths(e, NULL), t)
  BY UnlinkedLinks DEF OutOf
<1>4. li[p] = l
  BY <1>1, LinkTypes
<1> HIDE DEF h, t, li
<1>5. i \in 1..Len(t[l]) /\ At(t[l], i) = p /\ h.next[p] = At(t[l], i + 1)
  BY <1>3, <1>4, TakenFrom
<1>6. t[l] \in Seq(Entries)
  BY <1>3 DEF Links
<1> HIDE DEF i
<1>7. 1 + i \in 1..Len(t[l]) + 1 /\ (1 + i) - 1 = i /\ 1 + i = i + 1
  BY <1>5, <1>6, AtType
<1>8. After(Placed(c, e, l, 1 + i))
  BY <1>1, <1>5, <1>7, EnterIs DEF t, h
<1>9. QED
  BY <1>1, <1>2, <1>8 DEF i, t

LEMMA InsertIs ==
  ASSUME NEW c, Linked(c), NEW e \in Entries, NEW l \in Lists, NEW pos \in Positions,
         Insert(e, l, pos)
  PROVE  IF Len(c[l]) <= pos THEN AppendEntry(e, l)
         ELSE IF pos <= 1 THEN Prepend(e, l)
         ELSE After(Placed(c, e, l, pos))
<1> DEFINE h == Unlinked(Heap, e)
           t == Taken(c, e)
           n == length[l] - (IF list[e] = l THEN 1 ELSE 0)
           ptr == Pick(h, n, l, pos)
<1>1. length[l] = Len(c[l]) /\ length[l] \in Nat /\ pos \in Nat
  BY LinkTypes, LinklistAssumption DEF Positions
<1>2. SUFFICES ASSUME ~(length[l] <= pos), ~(pos <= 1)
               PROVE  After(Placed(c, e, l, pos))
  BY <1>1 DEF Insert
<1>3. Enter(e, l, h.prev[ptr], ptr)
  BY <1>2 DEF Insert
<1>4. /\ t[l] \in Seq(Entries) /\ Spells(h, l, t[l])
      /\ Lengths(e, NULL)[l] = Len(t[l])
  BY UnlinkedLinks DEF OutOf, Links
<1> HIDE DEF t, h
<1>5. n = Len(t[l])
  <2>1. Lengths(e, NULL)[l] = n + (IF l = NULL THEN 1 ELSE 0) /\ l # NULL
    BY LinklistAssumption DEF Lengths
  <2>2. n \in Int
    BY <1>1
  <2>3. QED
    BY <1>4, <2>1, <2>2
<1>6. pos \in 1..Len(t[l]) /\ pos \in 1..Len(t[l]) + 1 /\ pos \in Int
  <2>1. PICK d \in {0, 1} : n = length[l] - d
    OBVIOUS
  <2> HIDE DEF n, ptr
  <2>2. n \in Int /\ pos <= n /\ 1 <= pos /\ pos \in Int
    BY <1>1, <1>2, <2>1
  <2>3. QED
    BY <1>5, <2>2
<1> HIDE DEF n
<1>7. ptr = At(t[l], pos)
  BY <1>4, <1>5, <1>6, PickIs
<1>8. h.prev[ptr] = At(t[l], pos - 1)
  BY <1>4, <1>6, <1>7 DEF Spells
<1> HIDE DEF ptr
<1>9. QED
  BY <1>3, <1>6, <1>7, <1>8, EnterIs DEF t

LEMMA RemIs ==
  ASSUME NEW c, Linked(c), NEW e \in Entries, Rem(e)
  PROVE  After(Taken(c, e))
<1>1. Links(Unlinked(Heap, e), [list EXCEPT ![e] = NULL], Lengths(e, NULL), Taken(c, e))
  BY UnlinkedLinks DEF OutOf
<1>2. Unlinked(Heap, e) \in Heaps
  BY <1>1 DEF Links
<1>3. Heap' = Unlinked(Heap, e)
  BY <1>2, SetLinksHeap DEF Rem
<1>4. QED
  BY <1>1, <1>3 DEF Rem, After

\* An entry in its list.
LEMMA Neighbours ==
  ASSUME NEW c, Linked(c), NEW e \in Entries, list[e] # NULL
  PROVE  LET s == c[list[e]]
             i == IndexIn(c, list[e], e)
         IN /\ list[e] \in Lists /\ s \in Seq(Entries) /\ Len(s) \in Nat
            /\ length[list[e]] = Len(s) /\ Spells(Heap, list[e], s)
            /\ i \in 1..Len(s) /\ At(s, i) = e
            /\ prev[e] = At(s, i - 1) /\ next[e] = At(s, i + 1)
            /\ Removed(Taken(c, e)[list[e]], s, i)
            /\ \A k \in 1..Len(s) : /\ next[At(s, k)] = At(s, k + 1)
                                    /\ prev[At(s, k)] = At(s, k - 1)
<1> DEFINE l == list[e]
           s == c[l]
           i == IndexIn(c, l, e)
<1>1. /\ l \in Lists /\ s \in Seq(Entries) /\ length[l] = Len(s) /\ Len(s) \in Nat
      /\ Spells(Heap, l, s)
  BY LinkTypes
<1> HIDE DEF l
<1>2. /\ i \in 1..Len(s) /\ At(s, i) = e
      /\ Removed(Taken(c, e)[l], s, i)
      /\ Heap.prev[e] = At(s, i - 1) /\ Heap.next[e] = At(s, i + 1)
  <2> DEFINE hp == Heap
  <2>1. Links(hp, list, length, c) /\ list[e] = l
    BY DEF Linked, l
  <2> HIDE DEF hp
  <2>2. i \in 1..Len(s) /\ At(s, i) = e /\ Removed(Taken(c, e)[l], s, i)
    BY <1>1, <2>1, TakenFrom
  <2>3. hp.prev[e] = At(s, i - 1) /\ hp.next[e] = At(s, i + 1)
    BY <1>1, <2>1, TakenFrom
  <2>4. QED
    BY <2>2, <2>3 DEF hp
<1> HIDE DEF i, s
<1>3. Heap.next = next /\ Heap.prev = prev
  BY DEF Heap
<1>4. \A k \in 1..Len(s) : next[At(s, k)] = At(s, k + 1) /\ prev[At(s, k)] = At(s, k - 1)
  BY <1>1, <1>3 DEF Spells
<1>5. QED
  BY <1>1, <1>2, <1>3, <1>4 DEF i, s, l

LEMMA MoveIs ==
  ASSUME NEW c, Linked(c), NEW e \in Entries, NEW l \in Lists, l = list[e],
         NEW h, OutOf(h, c, e), NEW k \in 1..Len(Taken(c, e)[l]) + 1, NEW a, NEW b,
         a = At(Taken(c, e)[l], k - 1), b = At(Taken(c, e)[l], k),
         SetLinks(Between(h, l, a, e, b)), UNCHANGED <<list, length>>
  PROVE  After(Placed(c, e, l, k))
  BY MoveLinks DEF After

LEMMA UpIs ==
  ASSUME NEW c, Linked(c), NEW e \in Entries, Up(e)
  PROVE  /\ list[e] # NULL /\ IndexIn(c, list[e], e) > 1
         /\ After(Placed(c, e, list[e], IndexIn(c, list[e], e) - 1))
<1> DEFINE l == list[e]
           s == c[l]
           t == Taken(c, e)[l]
           i == IndexIn(c, l, e)
           p == prev[e]
           j == Join(Heap, l, p, next[e])
<1>1. /\ l # NULL /\ p # NULL /\ UNCHANGED <<list, length>>
      /\ SetLinks(Between(j, l, prev[p], e, p))
  BY DEF Up
<1>2. /\ l \in Lists /\ s \in Seq(Entries) /\ Len(s) \in Nat
      /\ i \in 1..Len(s) /\ p = At(s, i - 1) /\ Removed(t, s, i)
      /\ \A k \in 1..Len(s) : prev[At(s, k)] = At(s, k - 1)
  BY <1>1, Neighbours
<1>3. OutOf(j, c, e)
  BY <1>1, JoinOut
<1> HIDE DEF i, s, t, j, l
<1>4. i - 1 \in 1..Len(s)
  BY <1>1, <1>2, AtType
<1> HIDE DEF p
<1>5. /\ i - 1 \in Nat /\ i - 2 \in Nat /\ i > 1 /\ (i - 1) - 1 = i - 2
      /\ i - 1 < i /\ i - 2 < i /\ i - 1 \in 1..Len(s) - 1 + 1
  BY <1>2, <1>4
<1>6. prev[p] = At(s, i - 2)
  BY <1>2, <1>4, <1>5
<1>7. Len(t) = Len(s) - 1 /\ At(t, i - 2) = At(s, i - 2) /\ At(t, i - 1) = At(s, i - 1)
  BY <1>2, <1>5 DEF Removed
<1>8. i - 1 \in 1..Len(t) + 1
  BY <1>5, <1>7
<1>9. prev[p] = At(t, (i - 1) - 1) /\ p = At(t, i - 1)
  BY <1>2, <1>5, <1>6, <1>7
<1>10. After(Placed(c, e, l, i - 1))
  BY <1>1, <1>2, <1>3, <1>8, <1>9, MoveIs DEF t, l
<1>11. QED
  BY <1>1, <1>5, <1>10 DEF i, l

LEMMA DownIs ==
  ASSUME NEW c, Linked(c), NEW e \in Entries, Down(e)
  PROVE  /\ list[e] # NULL /\ IndexIn(c, list[e], e) < Len(c[list[e]])
         /\ After(Placed(c, e, list[e], IndexIn(c, list[e], e) + 1))
<1> DEFINE l == list[e]
           s == c[l]
           t == Taken(c, e)[l]
           i == IndexIn(c, l, e)
           n == next[e]
           j == Join(Heap, l, prev[e], n)
<1>1. /\ l # NULL /\ n # NULL /\ UNCHANGED <<list, length>>
      /\ SetLinks(Between(j, l, n, e, next[n]))
  BY DEF Down
<1>2. /\ l \in Lists /\ s \in Seq(Entries) /\ Len(s) \in Nat
      /\ i \in 1..Len(s) /\ n = At(s, i + 1) /\ Removed(t, s, i)
      /\ \A k \in 1..Len(s) : next[At(s, k)] = At(s, k + 1)
  BY <1>1, Neighbours
<1>3. OutOf(j, c, e)
  BY <1>1, JoinOut
<1> HIDE DEF i, s, t, j, l
<1>4. i + 1 \in 1..Len(s)
  BY <1>1, <1>2, AtType
<1> HIDE DEF n
<1>5. /\ i \in Nat /\ i + 1 \in Nat /\ (i + 1) + 1 = i + 2 /\ (i + 1) - 1 = i
      /\ ~(i < i) /\ ~(i + 1 < i) /\ i < Len(s) /\ i + 1 \in 1..Len(s) - 1 + 1
  BY <1>2, <1>4
<1>6. next[n] = At(s, i + 2)
  BY <1>2, <1>4, <1>5
<1>7. Len(t) = Len(s) - 1 /\ At(t, i) = At(s, i + 1) /\ At(t, i + 1) = At(s, (i + 1) + 1)
  BY <1>5, <1>2 DEF Removed
<1>8. i + 1 \in 1..Len(t) + 1
  BY <1>5, <1>7
<1>9. n = At(t, (i + 1) - 1) /\ next[n] = At(t, i + 1)
  BY <1>2, <1>5, <1>6, <1>7
<1>10. After(Placed(c, e, l, i + 1))
  BY <1>1, <1>2, <1>3, <1>8, <1>9, MoveIs DEF t, l
<1>11. QED
  BY <1>1, <1>5, <1>10 DEF i, l, s

\* move(): position() is the entry's place in its list.
LEMMA PositionIs ==
  ASSUME NEW c, Linked(c), NEW e \in Entries, list[e] # NULL
  PROVE  Position(e) = IndexIn(c, list[e], e)
<1> DEFINE l == list[e]
           s == c[l]
           i == IndexIn(c, l, e)
<1>1. /\ s \in Seq(Entries) /\ Len(s) \in Nat /\ length[l] = Len(s) /\ Spells(Heap, l, s)
      /\ i \in 1..Len(s) /\ At(s, i) = e /\ Distinct(s) /\ l \in Lists
  BY Neighbours, LinkTypes
<1> HIDE DEF i, s
<1>2. ASSUME NEW k \in 1..length[l] PROVE Pick(Heap, length[l], l, k) = e <=> k = i
  <2>1. Pick(Heap, Len(s), l, k) = At(s, k)
    BY <1>1, PickIs
  <2>2. At(s, k) = At(s, i) => i = k
    BY <1>1, AtDistinct
  <2>3. QED
    BY <1>1, <2>1, <2>2
<1>3. Position(e) = CHOOSE k \in 1..length[l] : Pick(Heap, length[l], l, k) = e
  BY DEF Position
<1>4. QED
  BY <1>1, <1>2, <1>3 DEF i

LEMMA MoveToIs ==
  ASSUME NEW c, Linked(c), NEW e \in Entries, NEW pos \in Positions,
         CanMove(e, pos), MoveTo(e, pos)
  PROVE  /\ list[e] # NULL
         /\ After(Placed(c, e, list[e],
                         IF pos > Len(c[list[e]]) THEN Len(c[list[e]]) ELSE pos))
<1> DEFINE l == list[e]
           s == c[l]
           t == Taken(c, e)[l]
           i == IndexIn(c, l, e)
           h == Unlinked(Heap, e)
           displaced == Pick(Heap, length[l], l, pos)
           a == IF pos >= length[l] THEN h.last[l] ELSE IF pos = 1 THEN NULL
                ELSE IF Position(e) > pos THEN h.prev[displaced] ELSE displaced
           b == IF pos >= length[l] THEN NULL ELSE IF pos = 1 THEN h.first[l]
                ELSE IF Position(e) > pos THEN displaced ELSE h.next[displaced]
           k == IF pos > Len(s) THEN Len(s) ELSE pos
<1>1. l # NULL /\ pos # Position(e) /\ UNCHANGED <<list, length>>
  BY DEF MoveTo
<1>2. SetLinks(Between(h, l, a, e, b))
  BY DEF MoveTo
<1>3. /\ l \in Lists /\ s \in Seq(Entries) /\ Len(s) \in Nat /\ length[l] = Len(s)
      /\ i \in 1..Len(s) /\ Removed(t, s, i) /\ Spells(Heap, l, s)
  BY <1>1, Neighbours
<1>4. Position(e) = i
  BY <1>1, PositionIs
<1>5. pos \in Nat /\ pos >= 1
  BY <1>1, LinklistAssumption DEF CanMove, Positions
<1>6. OutOf(h, c, e) /\ Spells(h, l, t)
  BY <1>3, UnlinkedLinks DEF OutOf, Links
<1>7. displaced = At(s, pos)
  BY <1>3, <1>5, PickIs
<1> HIDE DEF s, t, i, h, displaced, l
<1>7a. \A q \in Nat : At(t, q) = IF q < i THEN At(s, q) ELSE At(s, q + 1)
  BY <1>3 DEF Removed
<1>8. Len(t) = Len(s) - 1 /\ t \in Seq(Entries)
  BY <1>3 DEF Removed
<1>8a. k \in Nat /\ k = IF pos >= Len(s) THEN Len(s) ELSE pos
  BY <1>3, <1>5
<1>9. /\ h.first[l] = At(t, 1) /\ h.last[l] = At(t, Len(t))
      /\ \A q \in 1..Len(t) : h.next[At(t, q)] = At(t, q + 1) /\ h.prev[At(t, q)] = At(t, q - 1)
  BY <1>6 DEF Spells
<1>10. k \in 1..Len(t) + 1
  <2> HIDE DEF k
  <2>1. QED
    BY <1>3, <1>5, <1>8, <1>8a
<1>11. a = At(t, k - 1) /\ b = At(t, k)
  <2> HIDE DEF k
  <2>1. CASE pos >= length[l]
    <3>1. k = Len(t) + 1 /\ k - 1 = Len(t) /\ k \notin 1..Len(t)
      BY <1>3, <1>5, <1>8, <1>8a, <2>1
    <3>2. At(t, k) = NULL
      BY <3>1 DEF At
    <3>3. QED
      BY <1>9, <2>1, <3>1, <3>2
  <2>2. CASE ~(pos >= length[l]) /\ pos = 1
    <3>1. k = 1 /\ k - 1 = 0 /\ 0 \notin 1..Len(t)
      BY <1>3, <1>5, <1>8, <1>8a, <2>2
    <3>2. At(t, 0) = NULL
      BY <3>1 DEF At
    <3>3. QED
      BY <1>9, <2>2, <3>1, <3>2
  <2>3. CASE ~(pos >= length[l]) /\ pos # 1 /\ i > pos
    <3>1. k = pos /\ pos \in 1..Len(t) /\ pos < i
      BY <1>3, <1>5, <1>8, <1>8a, <2>3
    <3>2. At(t, pos) = displaced
      BY <1>5, <1>7, <1>7a, <3>1
    <3>3. h.prev[displaced] = At(t, pos - 1)
      BY <1>9, <3>1, <3>2
    <3>4. QED
      BY <1>4, <2>3, <3>1, <3>2, <3>3
  <2>4. CASE ~(pos >= length[l]) /\ pos # 1 /\ ~(i > pos)
    <3>1. /\ k = pos /\ pos - 1 \in Nat /\ pos - 1 \in 1..Len(t) /\ ~(pos - 1 < i)
          /\ (pos - 1) + 1 = pos
      BY <1>1, <1>3, <1>4, <1>5, <1>8, <1>8a, <2>4
    <3>2. At(t, pos - 1) = displaced
      BY <1>7, <1>7a, <3>1
    <3>3. h.next[displaced] = At(t, pos)
      BY <1>9, <3>1, <3>2
    <3>4. QED
      BY <1>4, <2>4, <3>1, <3>2, <3>3
  <2>5. QED
    BY <2>1, <2>2, <2>3, <2>4
<1> HIDE DEF a, b, k
<1>12. After(Placed(c, e, l, k))
  BY <1>1, <1>2, <1>3, <1>6, <1>10, <1>11, MoveIs DEF t, l
<1>13. QED
  BY <1>1, <1>12 DEF l, k, s

-----------------------------------------------------------------------------
(* The lists as sequences *)

Chains == [l \in Lists |-> Chain(l)]

LinkInv == Linked(Chains)

LEMMA ChainsAre ==
  ASSUME NEW h, NEW li, NEW le, NEW c, Links(h, li, le, c)
  PROVE  [l \in Lists |-> Walk(h.first[l], h.next, le[l])] = c
<1>1. ASSUME NEW l \in Lists PROVE Walk(h.first[l], h.next, le[l]) = c[l]
  <2>1. c[l] \in Seq(Entries) /\ le[l] = Len(c[l]) /\ Spells(h, l, c[l])
    BY DEF Links
  <2>2. Len(c[l]) \in Nat /\ \A i \in 1..Len(c[l]) : At(c[l], i) = c[l][i]
    BY <2>1, AtType
  <2>3. c[l] = [i \in 1..Len(c[l]) |-> c[l][i]]
    BY <2>1, LenProperties
  <2>4. Front(c[l], Len(c[l])) = c[l]
    BY <2>2, <2>3 DEF Front
  <2>5. Walk(h.first[l], h.next, Len(c[l])) = Front(c[l], Len(c[l]))
    BY <2>1, <2>2, ForthIs
  <2>6. QED
    BY <2>1, <2>4, <2>5
<1>2. c = [l \in Lists |-> c[l]]
  BY DEF Links
<1>3. QED
  BY <1>1, <1>2

LEMMA AfterIs ==
  ASSUME NEW c, After(c)
  PROVE  Chains' = c /\ LinkInv'
<1> DEFINE h == Heap'
<1>1. Links(h, list', length', c)
  BY DEF After
<1>2. h.first = first' /\ h.next = next'
  BY DEF Heap
<1> HIDE DEF h
<1>3. [l \in Lists |-> Walk(h.first[l], h.next, length'[l])] = c
  BY <1>1, ChainsAre
<1>4. Chains' = [l \in Lists |-> Walk(first'[l], next', length'[l])]
  BY DEF Chains, Chain
<1>5. Chains' = c
  BY <1>2, <1>3, <1>4
<1>6. QED
  BY <1>1, <1>5 DEF LinkInv, Linked, h

LEMMA KeptLinks ==
  ASSUME LinkInv, UNCHANGED links PROVE LinkInv' /\ Chains' = Chains
<1>1. Heap' = Heap /\ list' = list /\ length' = length
  BY DEF links, Heap
<1>2. After(Chains)
  BY <1>1 DEF After, LinkInv, Linked
<1>3. QED
  BY <1>2, AfterIs

\* The operators of EntryLists, of the lists as they are.
LEMMA AbstractIs ==
  ASSUME NEW e \in Entries, NEW l \in Lists
  PROVE  /\ Abstract!In(e, l) <=> \E i \in DOMAIN Chains[l] : Chains[l][i] = e
         /\ Abstract!Index(e, l) = IndexIn(Chains, l, e)
         /\ Abstract!Without(e) = Taken(Chains, e)
         /\ \A k : Abstract!Place(e, l, k) <=> Chains' = Placed(Chains, e, l, k)
<1>1. Abstract!In(e, l) <=> \E i \in DOMAIN Chains[l] : Chains[l][i] = e
  BY DEF Abstract!In, Chains
<1>2. Abstract!Index(e, l) = IndexIn(Chains, l, e)
  BY DEF Abstract!Index, IndexIn, Chains
<1>3. Abstract!Without(e) = Taken(Chains, e)
  BY DEF Abstract!Without, Abstract!In, Abstract!Index, Taken, IndexIn, Chains
<1>4. ASSUME NEW k PROVE Abstract!Place(e, l, k) <=> Chains' = Placed(Chains, e, l, k)
  BY <1>3 DEF Abstract!Place, Placed, Chains
<1>5. QED
  BY <1>1, <1>2, <1>3, <1>4

\* The calls that change links, by e.
LinkCall(e) ==
  \/ Rem(e) \/ Up(e) \/ Down(e)
  \/ \E pos \in Positions : CanMove(e, pos) /\ MoveTo(e, pos)
  \/ \E l \in Lists : \/ AppendEntry(e, l) \/ Prepend(e, l)
                      \/ \E p \in Entries : InsertAfter(e, p, l)
                      \/ \E pos \in Positions : Insert(e, l, pos)

\* Every call leaves whole links, and the lists that e neither leaves nor enters.
LEMMA LinkCallIs ==
  ASSUME LinkInv, NEW e \in Entries, LinkCall(e)
  PROVE  /\ LinkInv'
         /\ \A m \in Lists : list[e] # m /\ list'[e] # m => Chains'[m] = Chains[m]
         /\ \A x \in Entries : x # e => list'[x] = list[x]
<1> DEFINE Only == \A x \in Entries : x # e => list'[x] = list[x]
           Rest(c) == \A m \in Lists : list[e] # m /\ list'[e] # m => c[m] = Chains[m]
<1>1. Linked(Chains) /\ list \in [Entries -> Lists \cup {NULL}]
  BY LinkTypes DEF LinkInv
<1>2. ASSUME NEW m \in Lists, list[e] # m PROVE Taken(Chains, e)[m] = Chains[m]
  <2>1. ~Holds(Chains[m], e) /\ Chains[m] \in Seq(Entries)
    BY <1>1, <1>2 DEF Linked, Links
  <2>2. ~\E i \in DOMAIN Chains[m] : Chains[m][i] = e
    BY <2>1, HoldsIs
  <2>3. QED
    BY <2>2 DEF Taken
<1>3. ASSUME NEW l \in Lists, list'[e] = l, NEW k PROVE Rest(Placed(Chains, e, l, k))
  <2>1. ASSUME NEW m \in Lists, m # l
        PROVE  Placed(Chains, e, l, k)[m] = Taken(Chains, e)[m]
    BY <2>1 DEF Placed, Taken
  <2>2. QED
    BY <1>2, <1>3, <2>1
<1>4. SUFFICES Only /\ \E c : After(c) /\ Rest(c)
  BY AfterIs
<1>5. CASE Rem(e)
  <2>1. After(Taken(Chains, e))
    BY <1>1, <1>5, RemIs
  <2>2. Only
    BY <1>1, <1>5 DEF Rem
  <2>3. QED
    BY <1>2, <2>1, <2>2
<1>6. ASSUME NEW k, After(Placed(Chains, e, list[e], k)), list[e] \in Lists, list' = list
      PROVE  Only /\ \E c : After(c) /\ Rest(c)
  <2>1. Rest(Placed(Chains, e, list[e], k))
    BY <1>3, <1>6
  <2>2. QED
    BY <1>6, <2>1
<1>7. CASE Up(e)
  <2>1. list' = list /\ list[e] \in Lists
    BY <1>1, <1>7 DEF Up
  <2>2. QED
    BY <1>1, <1>6, <1>7, <2>1, UpIs
<1>8. CASE Down(e)
  <2>1. list' = list /\ list[e] \in Lists
    BY <1>1, <1>8 DEF Down
  <2>2. QED
    BY <1>1, <1>6, <1>8, <2>1, DownIs
<1>9. ASSUME NEW pos \in Positions, CanMove(e, pos), MoveTo(e, pos)
      PROVE  Only /\ \E c : After(c) /\ Rest(c)
  <2>1. list' = list /\ list[e] \in Lists
    BY <1>1, <1>9 DEF MoveTo
  <2>2. QED
    BY <1>1, <1>6, <1>9, <2>1, MoveToIs
<1>10. ASSUME NEW l \in Lists,
              \/ AppendEntry(e, l) \/ Prepend(e, l)
              \/ \E p \in Entries : InsertAfter(e, p, l)
              \/ \E pos \in Positions : Insert(e, l, pos)
       PROVE  Only /\ \E c : After(c) /\ Rest(c)
  <2>1. PICK a, b : Enter(e, l, a, b)
    BY <1>10 DEF AppendEntry, Prepend, InsertAfter, Insert
  <2>2. list' = [list EXCEPT ![e] = l]
    BY <2>1 DEF Enter
  <2>3. Only /\ list'[e] = l
    BY <1>1, <2>2
  <2>4. \E k : After(Placed(Chains, e, l, k))
    <3>1. AppendEntry(e, l) => \E k : After(Placed(Chains, e, l, k))
      BY <1>1, AppendIs
    <3>2. Prepend(e, l) => \E k : After(Placed(Chains, e, l, k))
      BY <1>1, PrependIs
    <3>3. ASSUME NEW p \in Entries, InsertAfter(e, p, l)
          PROVE  \E k : After(Placed(Chains, e, l, k))
      BY <1>1, <3>3, InsertAfterIs
    <3>4. ASSUME NEW pos \in Positions, Insert(e, l, pos)
          PROVE  \E k : After(Placed(Chains, e, l, k))
      BY <1>1, <3>1, <3>2, <3>4, InsertIs
    <3>5. QED
      BY <1>10, <3>1, <3>2, <3>3, <3>4
  <2>5. QED
    BY <1>3, <2>3, <2>4
<1>11. QED
  BY <1>5, <1>7, <1>8, <1>9, <1>10 DEF LinkCall

\* Every call on the pointers is the call of the same name on sequences.
LEMMA EachCallIs ==
  ASSUME LinkInv, LinkInv', NEW e \in Entries
  PROVE  EachCall(e)
<1> DEFINE l == list'[e]
<1>1. Linked(Chains) /\ list \in [Entries -> Lists \cup {NULL}] /\ Chains = Chains
  BY LinkTypes DEF LinkInv
<1>2. list' \in [Entries -> Lists \cup {NULL}]
  BY DEF LinkInv, Linked, Links
<1>3. ASSUME l = NULL, Rem(e) PROVE Abstract!Rem(e)
  <2>1. Chains' = Taken(Chains, e)
    BY <1>1, <1>3, RemIs, AfterIs
  <2>2. Taken(Chains, e) = Abstract!Without(e)
    BY DEF Abstract!Without, Abstract!In, Abstract!Index, Taken, IndexIn, Chains
  <2>3. QED
    BY <2>1, <2>2 DEF Abstract!Rem, Chains
<1> HIDE DEF l
<1>4. SUFFICES ASSUME l \in Lists
               PROVE  /\ AppendEntry(e, l) => Abstract!AppendEntry(e, l)
                      /\ Prepend(e, l) => Abstract!Prepend(e, l)
                      /\ Up(e) => Abstract!Up(e, l)
                      /\ Down(e) => Abstract!Down(e, l)
                      /\ \A p \in Entries : InsertAfter(e, p, l) => Abstract!InsertAfter(e, p, l)
                      /\ \A pos \in Positions : Insert(e, l, pos) => Abstract!Insert(e, l, pos)
                      /\ \A pos \in Positions : CanMove(e, pos) /\ MoveTo(e, pos)
                           => Abstract!MoveTo(e, l, pos)
  BY <1>2, <1>3 DEF EachCall, l
<1>5. /\ Abstract!Index(e, l) = IndexIn(Chains, l, e)
      /\ Abstract!Without(e) = Taken(Chains, e)
      /\ \A k : Chains' = Placed(Chains, e, l, k) => Abstract!Place(e, l, k)
  BY <1>4, AbstractIs
<1>6. ASSUME NEW k, After(Placed(Chains, e, l, k)) PROVE Abstract!Place(e, l, k)
  BY <1>5, <1>6, AfterIs
<1>7. ASSUME NEW x \in Entries PROVE Abstract!In(x, l) <=> list[x] = l
  <2>1. Abstract!In(x, l) <=> \E i \in DOMAIN Chains[l] : Chains[l][i] = x
    BY <1>4, AbstractIs
  <2>2. Chains[l] \in Seq(Entries) /\ (Holds(Chains[l], x) <=> list[x] = l)
    BY <1>1, <1>4 DEF Linked, Links
  <2>3. QED
    BY <2>1, <2>2, HoldsIs
<1>8. ASSUME AppendEntry(e, l) PROVE Abstract!AppendEntry(e, l)
  <2>1. Abstract!Place(e, l, Len(Taken(Chains, e)[l]) + 1)
    BY <1>1, <1>4, <1>6, <1>8, AppendIs
  <2>2. QED
    BY <1>5, <2>1 DEF Abstract!AppendEntry
<1>9. ASSUME Prepend(e, l) PROVE Abstract!Prepend(e, l)
  <2>1. list[e] = NULL /\ Abstract!Place(e, l, 1)
    BY <1>1, <1>4, <1>6, <1>9, PrependIs
  <2>2. Abstract!Free(e)
    <3>1. ASSUME NEW m \in Lists PROVE ~Abstract!In(e, m)
      <4>1. Abstract!In(e, m) <=> \E i \in DOMAIN Chains[m] : Chains[m][i] = e
        BY AbstractIs
      <4>2. Chains[m] \in Seq(Entries) /\ ~Holds(Chains[m], e)
        BY <1>1, <2>1, LinklistAssumption DEF Linked, Links
      <4>3. QED
        BY <4>1, <4>2, HoldsIs
    <3>2. QED
      BY <3>1 DEF Abstract!Free
  <2>3. QED
    BY <2>1, <2>2 DEF Abstract!Prepend
<1>10. ASSUME Up(e) PROVE Abstract!Up(e, l)
  <2>1. list[e] = l
    BY <1>10 DEF Up, l
  <2>2. IndexIn(Chains, l, e) > 1 /\ Abstract!Place(e, l, IndexIn(Chains, l, e) - 1)
    BY <1>1, <1>6, <1>10, <2>1, UpIs
  <2>3. QED
    BY <1>5, <1>7, <2>1, <2>2 DEF Abstract!Up
<1>11. ASSUME Down(e) PROVE Abstract!Down(e, l)
  <2>1. list[e] = l
    BY <1>11 DEF Down, l
  <2>2. /\ IndexIn(Chains, l, e) < Len(Chains[l])
        /\ Abstract!Place(e, l, IndexIn(Chains, l, e) + 1)
    BY <1>1, <1>6, <1>11, <2>1, DownIs
  <2>3. QED
    BY <1>5, <1>7, <2>1, <2>2 DEF Abstract!Down, Chains
<1>12. ASSUME NEW p \in Entries, InsertAfter(e, p, l) PROVE Abstract!InsertAfter(e, p, l)
  <2>1. e # p /\ Abstract!Place(e, l, 1 + IndexIn(Taken(Chains, e), l, p))
    BY <1>1, <1>4, <1>6, <1>12, InsertAfterIs
  <2>2. Abstract!In(p, l)
    BY <1>7, <1>12 DEF InsertAfter
  <2>3. IndexIn(Taken(Chains, e), l, p)
          = CHOOSE i \in DOMAIN Abstract!Without(e)[l] : Abstract!Without(e)[l][i] = p
    BY <1>5 DEF IndexIn
  <2>4. QED
    BY <2>1, <2>2, <2>3 DEF Abstract!InsertAfter
<1>13. ASSUME NEW pos \in Positions, Insert(e, l, pos) PROVE Abstract!Insert(e, l, pos)
  <2>1. IF Len(Chains[l]) <= pos THEN Abstract!AppendEntry(e, l)
        ELSE IF pos <= 1 THEN Abstract!Prepend(e, l)
        ELSE Abstract!Place(e, l, pos)
    BY <1>1, <1>4, <1>6, <1>8, <1>9, <1>13, InsertIs
  <2>2. QED
    BY <2>1 DEF Abstract!Insert, Chains
<1>14. ASSUME NEW pos \in Positions, CanMove(e, pos), MoveTo(e, pos)
       PROVE  Abstract!MoveTo(e, l, pos)
  <2>1. list[e] = l
    BY <1>14 DEF MoveTo, l
  <2>2. Abstract!Place(e, l, IF pos > Len(Chains[l]) THEN Len(Chains[l]) ELSE pos)
    BY <1>1, <1>6, <1>14, <2>1, MoveToIs
  <2>3. QED
    BY <1>7, <2>1, <2>2 DEF Abstract!MoveTo, Chains
<1>15. QED
  BY <1>8, <1>9, <1>10, <1>11, <1>12, <1>13, <1>14

\* Both walks along a list's pointers meet its members.
LEMMA LinkInvMeans ==
  ASSUME LinkInv PROVE WellLinked
<1>1. SUFFICES ASSUME NEW l \in Lists
               PROVE  LET c == Chain(l)  n == length[l] IN
                      /\ \A i \in 1..n : c[i] # NULL /\ Back(l)[n + 1 - i] = c[i]
                      /\ \A i, k \in 1..n : c[i] = c[k] => i = k
                      /\ \A e \in Entries : list[e] = l <=> \E i \in 1..n : c[i] = e
                      /\ IF n = 0 THEN first[l] = NULL /\ last[l] = NULL
                         ELSE next[last[l]] = NULL /\ prev[first[l]] = NULL
  BY DEF WellLinked
<1> DEFINE n == length[l]
           s == Chains[l]
<1>2. /\ s \in Seq(Entries) /\ n = Len(s) /\ n \in Nat /\ Spells(Heap, l, s) /\ Distinct(s)
      /\ \A e \in Entries : list[e] = l <=> Holds(s, e)
  BY LinkTypes DEF LinkInv, Linked, Links
<1>3. s = Chain(l)
  BY DEF Chains
<1> HIDE DEF s
<1>4. \A i \in 1..n : At(s, i) = s[i] /\ s[i] # NULL
  BY <1>2, AtType, LinklistAssumption
<1>5. /\ \A i, k \in 1..n : s[i] = s[k] => i = k
      /\ \A e \in Entries : list[e] = l <=> \E i \in 1..n : s[i] = e
  BY <1>2, <1>4 DEF Distinct, Holds
<1>6. /\ first[l] = At(s, 1) /\ last[l] = At(s, n)
      /\ \A i \in 1..n : next[At(s, i)] = At(s, i + 1) /\ prev[At(s, i)] = At(s, i - 1)
  BY <1>2 DEF Spells, Heap
<1>7. IF n = 0 THEN first[l] = NULL /\ last[l] = NULL
      ELSE next[last[l]] = NULL /\ prev[first[l]] = NULL
  <2>1. At(s, n + 1) = NULL /\ At(s, 0) = NULL
    BY <1>2 DEF At
  <2>2. CASE n = 0
    BY <1>2, <1>6, <2>2 DEF At
  <2>3. CASE n # 0
    <3>1. n \in 1..n /\ 1 \in 1..n /\ 1 - 1 = 0
      BY <1>2, <2>3
    <3>2. next[At(s, n)] = NULL /\ prev[At(s, 1)] = NULL
      BY <1>6, <2>1, <3>1
    <3>3. QED
      BY <1>6, <2>3, <3>2
  <2>4. QED
    BY <2>2, <2>3
<1>8. ASSUME NEW i \in 1..n PROVE Back(l)[n + 1 - i] = s[i]
  <2>1. Walk(Heap.last[l], Heap.prev, Len(s)) = Rear(s, Len(s))
    BY <1>2, BackIs
  <2>2. Back(l) = Rear(s, n)
    BY <1>2, <2>1 DEF Back, Heap
  <2>3. n + 1 - i \in 1..n /\ n + 1 - (n + 1 - i) = i
    BY <1>2
  <2>4. Rear(s, n)[n + 1 - i] = At(s, i)
    BY <1>2, <2>3 DEF Rear
  <2>5. QED
    BY <1>4, <2>2, <2>4
<1>9. QED
  BY <1>3, <1>4, <1>5, <1>7, <1>8

LEMMA LinkInvInit ==
  ASSUME Init PROVE LinkInv
<1> DEFINE c == [l \in Lists |-> <<>>]
           h == Heap
<1>1. h \in Heaps /\ \A l \in Lists : h.first[l] = NULL /\ h.last[l] = NULL
  BY DEF Init, Heap, Heaps, Ptr
<1> HIDE DEF h
<1>2. /\ <<>> \in Seq(Entries) /\ Len(<<>>) = 0
      /\ \A i : At(<<>>, i) = NULL
  BY DEF At
<1>3. c \in [Lists -> Seq(Entries)] /\ \A l \in Lists : c[l] = <<>>
  BY <1>2
<1>4. length = [l \in Lists |-> Len(c[l])]
  BY <1>2 DEF Init
<1> HIDE DEF c
<1>5. \A l \in Lists : Spells(h, l, c[l]) /\ Distinct(c[l])
  BY <1>1, <1>2, <1>3 DEF Spells, Distinct
<1>6. list \in [Entries -> Lists \cup {NULL}]
  BY DEF Init
<1>7. \A e \in Entries, l \in Lists : list[e] = l <=> Holds(c[l], e)
  BY <1>2, <1>3, LinklistAssumption DEF Init, Holds
<1>8. Links(h, list, length, c)
  BY <1>1, <1>3, <1>4, <1>5, <1>6, <1>7 DEF Links
<1>9. [l \in Lists |-> Walk(h.first[l], h.next, length[l])] = c
  BY <1>8, ChainsAre
<1>10. QED
  BY <1>8, <1>9 DEF LinkInv, Linked, Chains, Chain, Heap, h

-----------------------------------------------------------------------------
(* The walk through a layer's chain *)

\* v is the beginning of s, f what follows it.
Passed(s, v, f) ==
  /\ Len(v) <= Len(s)
  /\ \A i \in 1..Len(v) : v[i] = s[i]
  /\ f = IF Len(v) = Len(s) THEN NULL ELSE s[Len(v) + 1]

\* The members of the chain are filters, and the walk has passed its beginning.
WalkInv == Walking => /\ visited \in Seq(Entries) /\ Passed(Chains[Filters], visited, filt)
                      /\ lpc # "walk" => filt # NULL

FrameInv ==
  /\ LinkInv
  /\ instances \subseteq Entries
  /\ \A e \in Entries : list[e] = Filters => e \in instances
  /\ WalkInv

\* The calls of the script and of the other lists are calls on links, or change none.
LEMMA Calls ==
  ASSUME FrameInv, [FilterNext]_chainVars
  PROVE  \/ UNCHANGED links
         \/ \E e \in Entries :
              /\ LinkCall(e) /\ UNCHANGED walkVars /\ instances' = instances
              /\ \/ e \in instances /\ ~Walking
                 \/ /\ e \notin instances
                    /\ list'[e] # list[e] => list'[e] # Filters
<1>1. list \in [Entries -> Lists \cup {NULL}]
  BY LinkTypes DEF FrameInv, LinkInv
<1>2. CASE LayerThread
  BY <1>2 DEF LayerThread, HasFilters, WalkBegins, WalkEnds, PassOver, Process, GiveHeld,
              Unmark, Update, vars
<1>3. CASE Script
  <2>1. CASE Mark \/ GiveValue \/ GiveNothing
    BY <2>1 DEF Mark, GiveValue, GiveNothing, vars
  <2>2. ASSUME NEW e \in instances, AddFilter(e) \/ RemFilter(e) \/ Reorder(e)
        PROVE  LinkCall(e) /\ UNCHANGED walkVars /\ instances' = instances /\ ~Walking
    BY <2>2, FilterAssumption DEF AddFilter, RemFilter, Reorder, LinkCall, filterVars
  <2>3. ASSUME NEW e \in instances, Select(e) \/ Activate(e) \/ SetValue(e)
        PROVE  UNCHANGED links
    BY <2>3 DEF Select, Activate, SetValue, Sel, vars
  <2>4. QED
    BY <1>3, <2>1, <2>2, <2>3 DEF Script, FrameInv
<1>4. CASE OtherLists
  <2>1. UNCHANGED walkVars /\ instances' = instances
    BY <1>4 DEF OtherLists, filterVars
  <2>2. PICK e \in Entries \ instances :
          \/ Rem(e) \/ Up(e) \/ Down(e) \/ Sel(e, TRUE) \/ Sel(e, FALSE)
          \/ \E pos \in Positions : CanMove(e, pos) /\ MoveTo(e, pos)
          \/ \E l \in Lists \ {Filters} :
               \/ AppendEntry(e, l) \/ Prepend(e, l) \/ SelNone(l)
               \/ \E p \in Entries : InsertAfter(e, p, l)
               \/ \E pos \in Positions : Insert(e, l, pos)
    BY <1>4 DEF OtherLists
  <2>3. CASE Sel(e, TRUE) \/ Sel(e, FALSE) \/ \E l \in Lists \ {Filters} : SelNone(l)
    BY <2>3 DEF Sel, SelNone
  <2>4. CASE Up(e) \/ Down(e) \/ \E pos \in Positions : CanMove(e, pos) /\ MoveTo(e, pos)
    <3>1. list' = list
      BY <2>4 DEF Up, Down, MoveTo
    <3>2. LinkCall(e)
      BY <2>4 DEF LinkCall
    <3>3. QED
      BY <2>1, <3>1, <3>2
  <2>5. CASE Rem(e)
    <3>1. list'[e] = NULL
      BY <1>1, <2>5 DEF Rem
    <3>2. LinkCall(e)
      BY <2>5 DEF LinkCall
    <3>3. QED
      BY <2>1, <3>1, <3>2, LinklistAssumption, FilterAssumption
  <2>6. ASSUME NEW l \in Lists \ {Filters},
               \/ AppendEntry(e, l) \/ Prepend(e, l)
               \/ \E p \in Entries : InsertAfter(e, p, l)
               \/ \E pos \in Positions : Insert(e, l, pos)
        PROVE  LinkCall(e) /\ list'[e] # Filters
    <3>1. PICK a, b : Enter(e, l, a, b)
      BY <2>6 DEF AppendEntry, Prepend, InsertAfter, Insert
    <3>2. list'[e] = l
      BY <1>1, <3>1 DEF Enter
    <3>3. QED
      BY <2>6, <3>2 DEF LinkCall
  <2>7. QED
    BY <2>1, <2>2, <2>3, <2>4, <2>5, <2>6
<1>5. CASE UNCHANGED chainVars
  BY <1>5 DEF chainVars, vars
<1>6. QED
  BY <1>2, <1>3, <1>4, <1>5 DEF FilterNext

\* One filter further.
LEMMA PassIs ==
  ASSUME LinkInv, NEW s \in Seq(Entries), Spells(Heap, Filters, s),
         visited \in Seq(Entries), Passed(s, visited, filt), filt # NULL, Pass
  PROVE  /\ visited' \in Seq(Entries) /\ Passed(s, visited', filt')
         /\ lpc' = "walk"
<1> DEFINE n == Len(visited)
<1>1. /\ n \in Nat /\ Len(s) \in Nat /\ n <= Len(s) /\ n # Len(s)
      /\ filt = s[n + 1] /\ \A i \in 1..n : visited[i] = s[i]
  BY AtType DEF Passed
<1>2. n + 1 \in 1..Len(s) /\ (n + 1) + 1 \in Nat /\ n + 1 <= Len(s)
      /\ (n + 1 # Len(s) => (n + 1) + 1 \in 1..Len(s))
      /\ (n + 1 = Len(s) => (n + 1) + 1 \notin 1..Len(s))
  BY <1>1
<1>3. filt = At(s, n + 1) /\ filt \in Entries
  BY <1>1, <1>2, AtType
<1>4. visited' = Append(visited, filt) /\ filt' = next[filt] /\ lpc' = "walk"
  BY DEF Pass
<1>5. /\ visited' \in Seq(Entries) /\ Len(visited') = n + 1
      /\ \A i \in 1..n : visited'[i] = visited[i]
      /\ visited'[n + 1] = filt
  BY <1>3, <1>4, AppendProperties
<1>6. filt' = At(s, (n + 1) + 1)
  BY <1>2, <1>3, <1>4 DEF Spells, Heap
<1>7. filt' = IF n + 1 = Len(s) THEN NULL ELSE s[(n + 1) + 1]
  BY <1>2, <1>6 DEF At
<1> HIDE DEF n
<1>8. ASSUME NEW i \in 1..n + 1 PROVE visited'[i] = s[i]
  <2>1. i \in 1..n \/ i = n + 1
    BY <1>1
  <2>2. QED
    BY <1>1, <1>5, <2>1
<1>9. QED
  BY <1>2, <1>4, <1>5, <1>7, <1>8 DEF Passed

LEMMA WalkStep ==
  ASSUME FrameInv, [FilterNext]_chainVars, Chains' = Chains
  PROVE  WalkInv'
<1> DEFINE s == Chains[Filters]
<1>1. LinkInv /\ s \in Seq(Entries) /\ Spells(Heap, Filters, s) /\ Chains'[Filters] = s
  BY LinkTypes, FilterAssumption DEF FrameInv, LinkInv
<1>2. Walking => /\ visited \in Seq(Entries) /\ Passed(s, visited, filt)
                 /\ lpc # "walk" => filt # NULL
  BY DEF FrameInv, WalkInv
<1> HIDE DEF s
<1>3. WalkInv' <=> (Walking' => /\ visited' \in Seq(Entries) /\ Passed(s, visited', filt')
                                /\ lpc' # "walk" => filt' # NULL)
  BY <1>1 DEF WalkInv
<1>4. CASE HasFilters \/ WalkEnds
  BY <1>3, <1>4 DEF HasFilters, WalkEnds, Walking
<1>5. CASE WalkBegins
  <2>1. filt' = first[Filters] /\ visited' = <<>> /\ lpc' = "walk"
    BY <1>5 DEF WalkBegins
  <2>2. first[Filters] = At(s, 1)
    BY <1>1 DEF Spells, Heap
  <2>3. Len(<<>>) = 0 /\ <<>> \in Seq(Entries) /\ Len(s) \in Nat
    BY <1>1, AtType
  <2>4. At(s, 1) = IF 0 = Len(s) THEN NULL ELSE s[0 + 1]
    BY <2>3 DEF At
  <2>5. Passed(s, <<>>, first[Filters])
    BY <2>2, <2>3, <2>4 DEF Passed
  <2>6. QED
    BY <1>3, <2>1, <2>3, <2>5
<1>6. CASE PassOver \/ Update
  <2>1. Walking /\ filt # NULL /\ Pass
    BY <1>2, <1>6 DEF PassOver, Update, Walking
  <2>2. visited' \in Seq(Entries) /\ Passed(s, visited', filt') /\ lpc' = "walk"
    BY <1>1, <1>2, <2>1, PassIs
  <2>3. QED
    BY <1>3, <2>2
<1>7. CASE Process \/ GiveHeld \/ Unmark
  <2>1. Walking /\ filt # NULL /\ UNCHANGED <<filt, visited>>
    BY <1>2, <1>7 DEF Process, GiveHeld, Unmark, Walking
  <2>2. QED
    BY <1>2, <1>3, <2>1
<1>8. CASE UNCHANGED walkVars
  BY <1>2, <1>3, <1>8 DEF walkVars, Walking
<1>9. Script \/ OtherLists \/ UNCHANGED chainVars => UNCHANGED walkVars
  BY DEF Script, Mark, GiveValue, GiveNothing, AddFilter, RemFilter, Reorder, Select, Activate, SetValue,
         OtherLists, filterVars, chainVars
<1>10. QED
  BY <1>4, <1>5, <1>6, <1>7, <1>8, <1>9 DEF FilterNext, LayerThread

LEMMA InstancesStay ==
  ASSUME [FilterNext]_chainVars PROVE instances' = instances
<1>1. LayerThread => instances' = instances
  BY DEF LayerThread, HasFilters, WalkBegins, WalkEnds, PassOver, Process, GiveHeld, Unmark,
         Update
<1>2. Script => instances' = instances
  BY DEF Script, Mark, GiveValue, GiveNothing, AddFilter, RemFilter, Reorder, Select, Activate, SetValue,
         filterVars
<1>3. OtherLists \/ UNCHANGED chainVars => instances' = instances
  BY DEF OtherLists, filterVars, chainVars
<1>4. QED
  BY <1>1, <1>2, <1>3 DEF FilterNext

LEMMA FrameStep ==
  ASSUME FrameInv, [FilterNext]_chainVars PROVE FrameInv'
<1>1. instances' = instances /\ instances \subseteq Entries
  BY InstancesStay DEF FrameInv
<1>2. /\ LinkInv /\ \A x \in Entries : list[x] = Filters => x \in instances
      /\ WalkInv
  BY DEF FrameInv
<1>3. CASE UNCHANGED links
  <2>1. LinkInv' /\ Chains' = Chains /\ list' = list
    BY <1>2, <1>3, KeptLinks DEF links
  <2>2. WalkInv'
    BY <2>1, WalkStep
  <2>3. QED
    BY <1>1, <1>2, <2>1, <2>2 DEF FrameInv
<1>4. ASSUME NEW e \in Entries, LinkCall(e), UNCHANGED walkVars,
             \/ e \in instances /\ ~Walking
             \/ /\ e \notin instances
                /\ list'[e] # list[e] => list'[e] # Filters
      PROVE  FrameInv'
  <2>1. /\ LinkInv'
        /\ \A m \in Lists : list[e] # m /\ list'[e] # m => Chains'[m] = Chains[m]
        /\ \A x \in Entries : x # e => list'[x] = list[x]
    BY <1>2, <1>4, LinkCallIs
  <2>2. \A x \in Entries : list'[x] = Filters => x \in instances
    BY <1>2, <1>4, <2>1
  <2>3. Walking => Chains'[Filters] = Chains[Filters]
    <3>1. ASSUME Walking PROVE list[e] # Filters /\ list'[e] # Filters
      BY <1>2, <1>4, <3>1
    <3>2. QED
      BY <2>1, <3>1, FilterAssumption
  <2>4. lpc' = lpc /\ filt' = filt /\ visited' = visited
    BY <1>4 DEF walkVars
  <2>5. WalkInv'
    BY <1>2, <2>3, <2>4 DEF WalkInv, Walking
  <2>6. QED
    BY <1>1, <2>1, <2>2, <2>5 DEF FrameInv
<1>5. QED
  BY <1>3, <1>4, Calls

LEMMA FrameInit ==
  ASSUME FilterInit PROVE FrameInv
<1>1. LinkInv /\ instances \subseteq Entries /\ ~Walking
  BY LinkInvInit DEF FilterInit, Walking
<1>2. \A e \in Entries : list[e] # Filters
  BY LinklistAssumption, FilterAssumption DEF FilterInit, Init
<1>3. QED
  BY <1>1, <1>2 DEF FrameInv, WalkInv

LEMMA Frame == FilterSpec => []FrameInv
<1>1. FilterInit => FrameInv
  BY FrameInit
<1>2. FrameInv /\ [FilterNext]_chainVars => FrameInv'
  BY FrameStep
<1>3. QED
  BY <1>1, <1>2, PTL DEF FilterSpec

\* The two directions of every list, its length and its entries' own `list' agree
\* (linklist.cpp:56-302, linklist.h:184-302).
THEOREM LinksStayWhole == FilterSpec => []WellLinked
<1>1. FrameInv => WellLinked
  BY LinkInvMeans DEF FrameInv
<1>2. QED
  BY <1>1, Frame, PTL

\* Every call on the pointers is the call of the same name on sequences.
THEOREM CallsAreTheirs == FilterSpec => CallsImplementLists
<1>1. FrameInv /\ [FilterNext]_chainVars
        => [UNCHANGED links \/ \A e \in Entries : EachCall(e)]_vars
  BY FrameStep, EachCallIs DEF FrameInv
<1>2. QED
  BY <1>1, Frame, PTL DEF FilterSpec, CallsImplementLists

\* A frame goes through every filter of the chain once and in its order,
\* whatever a script does to the chain meanwhile (layer.cpp:247-260).
THEOREM FramesGoThrough == FilterSpec => []FrameGoesThroughChain
<1>1. FrameInv => FrameGoesThroughChain
  <2>1. Chains[Filters] = Chain(Filters)
    BY FilterAssumption DEF Chains
  <2>2. QED
    BY <2>1 DEF FrameInv, WalkInv, FrameGoesThroughChain, Passed
<1>2. QED
  BY <1>1, Frame, PTL

-----------------------------------------------------------------------------
(* The parameters *)

Values == Settings \cup {NULL}

ParamTypes ==
  /\ value \in [Tunable -> Values] /\ core \in [Tunable -> Values]
  /\ changed \in [Tunable -> BOOLEAN]
  /\ spc # "idle" => target \in Tunable
  /\ lpc \in {"store", "clear"} => filt \in Tunable
  /\ lpc = "store" => held \in Values

\* What the walk has given is the value, unless it is known to be an older one.
Given == lpc = "clear" => (~Setting(filt) /\ filt \notin stale => core[filt] = value[filt])

ParamInv == ParamTypes /\ Given /\ ParametersArrive

LEMMA ParamTypesStep ==
  ASSUME ParamTypes, [FilterNext]_chainVars PROVE ParamTypes'
<1> USE DEF ParamTypes, Values
<1>1. CASE LayerThread
  BY <1>1 DEF LayerThread, HasFilters, WalkBegins, WalkEnds, PassOver, Process, GiveHeld,
              Unmark, Update, Pass, paramVars
<1>2. CASE Script
  BY <1>2 DEF Script, Mark, GiveValue, GiveNothing, AddFilter, RemFilter, Reorder, Select, Activate,
              SetValue, filterVars, paramVars, walkVars
<1>3. CASE OtherLists \/ UNCHANGED chainVars
  BY <1>3 DEF OtherLists, chainVars, filterVars, paramVars, walkVars
<1>4. QED
  BY <1>1, <1>2, <1>3 DEF FilterNext

LEMMA ParamStep ==
  ASSUME ParamInv, [FilterNext]_chainVars PROVE Given' /\ ParametersArrive'
<1> DEFINE Arrived(f) == ~changed[f] /\ ~Setting(f) /\ ~Giving(f) /\ f \notin stale
                           => core[f] = value[f]
<1>1. ParamTypes /\ Given /\ \A f \in Tunable : Arrived(f)
  BY DEF ParamInv, ParametersArrive
<1>2. SUFFICES Given' /\ \A f \in Tunable : Arrived(f)'
  BY DEF ParametersArrive
<1>3. CASE UNCHANGED paramVars /\ lpc' \notin {"store", "clear"} /\ lpc \notin {"store", "clear"}
  BY <1>1, <1>3 DEF paramVars, Given, Setting, Giving
<1>4. CASE Process
  BY <1>1, <1>4 DEF Process, paramVars, Given, Setting, Giving
<1>5. CASE GiveHeld
  <2>1. /\ lpc = "store" /\ lpc' = "clear" /\ filt' = filt /\ filt \in Tunable
        /\ core' = [core EXCEPT ![filt] = held]
        /\ stale' = IF held # value[filt] /\ ~Setting(filt) THEN stale \cup {filt} ELSE stale
        /\ value' = value /\ changed' = changed /\ spc' = spc /\ target' = target
    BY <1>1, <1>5 DEF GiveHeld, ParamTypes
  <2>2. core'[filt] = held
    BY <1>1, <2>1 DEF ParamTypes
  <2>3. Given'
    BY <2>1, <2>2 DEF Given, Setting
  <2>4. ASSUME NEW f \in Tunable PROVE Arrived(f)'
    <3>1. CASE f = filt
      BY <2>1, <3>1 DEF Giving
    <3>2. CASE f # filt
      BY <1>1, <2>1, <3>2 DEF Setting, Giving, ParamTypes
    <3>3. QED
      BY <3>1, <3>2
  <2>5. QED
    BY <2>3, <2>4
<1>6. CASE Unmark
  <2>1. /\ lpc = "clear" /\ lpc' = "update" /\ filt' = filt /\ filt \in Tunable
        /\ changed' = [changed EXCEPT ![filt] = FALSE]
        /\ core' = core /\ stale' = stale /\ value' = value /\ spc' = spc /\ target' = target
    BY <1>1, <1>6 DEF Unmark, ParamTypes
  <2>2. Given'
    BY <2>1 DEF Given
  <2>3. ASSUME NEW f \in Tunable PROVE Arrived(f)'
    <3>1. CASE f = filt
      BY <1>1, <2>1, <3>1 DEF Given, Setting
    <3>2. CASE f # filt
      <4>1. changed'[f] = changed[f]
        BY <1>1, <2>1, <3>2 DEF ParamTypes
      <4>2. QED
        BY <1>1, <2>1, <3>2, <4>1 DEF Setting, Giving
    <3>3. QED
      BY <3>1, <3>2
  <2>4. QED
    BY <2>2, <2>3
<1>7. CASE Mark
  <2>1. /\ spc = "mark" /\ spc' = "give" /\ target' = target /\ target \in Tunable
        /\ changed' = [changed EXCEPT ![target] = TRUE]
        /\ core' = core /\ stale' = stale /\ value' = value /\ lpc' = lpc /\ filt' = filt
    BY <1>1, <1>7 DEF Mark, ParamTypes, walkVars
  <2>2. Given'
    BY <1>1, <2>1 DEF Given, Setting
  <2>3. ASSUME NEW f \in Tunable PROVE Arrived(f)'
    <3>1. CASE f = target
      BY <2>1, <3>1 DEF Setting
    <3>2. CASE f # target
      <4>1. changed'[f] = changed[f]
        BY <1>1, <2>1, <3>2 DEF ParamTypes
      <4>2. QED
        BY <1>1, <2>1, <3>2, <4>1 DEF Setting, Giving
    <3>3. QED
      BY <3>1, <3>2
  <2>4. QED
    BY <2>2, <2>3
<1>8. CASE GiveValue
  <2>1. /\ spc = "give" /\ spc' = "idle" /\ target \in Tunable
        /\ core' = [core EXCEPT ![target] = value[target]]
        /\ stale' = stale \ {target}
        /\ changed' = changed /\ value' = value /\ lpc' = lpc /\ filt' = filt
    BY <1>1, <1>8 DEF GiveValue, ParamTypes, walkVars
  <2>2. core'[target] = value[target]
    BY <1>1, <2>1 DEF ParamTypes
  <2>3. Given'
    <3>1. CASE filt = target
      BY <2>1, <2>2, <3>1 DEF Given
    <3>2. CASE filt # target
      BY <1>1, <2>1, <3>2 DEF Given, Setting, ParamTypes
    <3>3. QED
      BY <3>1, <3>2
  <2>4. ASSUME NEW f \in Tunable PROVE Arrived(f)'
    <3>1. CASE f = target
      BY <2>1, <2>2, <3>1
    <3>2. CASE f # target
      BY <1>1, <2>1, <3>2 DEF Setting, Giving, ParamTypes
    <3>3. QED
      BY <3>1, <3>2
  <2>5. QED
    BY <2>3, <2>4
<1>9. ASSUME NEW e \in Entries, spc = "idle", SetValue(e)
      PROVE  Given' /\ \A f \in Tunable : Arrived(f)'
  <2>1. PICK v \in Settings : value' = [value EXCEPT ![e] = v]
    BY <1>9 DEF SetValue
  <2>2. /\ spc' = "mark" /\ target' = e /\ e \in Tunable
        /\ core' = core /\ stale' = stale /\ changed' = changed /\ lpc' = lpc /\ filt' = filt
    BY <1>9 DEF SetValue, walkVars
  <2>3. ASSUME NEW f \in Tunable, f # e PROVE value'[f] = value[f] /\ ~Setting(f)
    BY <1>1, <1>9, <2>1, <2>3 DEF ParamTypes, Setting
  <2>4. Given'
    <3>1. CASE filt = e
      BY <2>2, <3>1 DEF Given, Setting
    <3>2. CASE filt # e
      BY <1>1, <2>2, <2>3, <3>2 DEF Given, ParamTypes
    <3>3. QED
      BY <3>1, <3>2
  <2>5. ASSUME NEW f \in Tunable PROVE Arrived(f)'
    <3>1. CASE f = e
      BY <2>2, <3>1 DEF Setting
    <3>2. CASE f # e
      BY <1>1, <2>2, <2>3, <3>2 DEF Giving
    <3>3. QED
      BY <3>1, <3>2
  <2>6. QED
    BY <2>4, <2>5
<1>10. CASE GiveNothing
  <2>1. /\ spc = "give" /\ spc' = "idle" /\ target \in Tunable
        /\ stale' = IF /\ core[target] # value[target]
                       /\ IF Giving(target) THEN lpc = "clear" ELSE ~changed[target]
                    THEN stale \cup {target} ELSE stale
        /\ core' = core /\ changed' = changed /\ value' = value /\ UNCHANGED <<lpc, filt, held>>
    BY <1>1, <1>10 DEF GiveNothing, ParamTypes, walkVars, Giving
  <2>2. Given'
    BY <1>1, <2>1 DEF Given, Setting, Giving
  <2>3. ASSUME NEW f \in Tunable PROVE Arrived(f)'
    <3>1. CASE f = target
      BY <2>1, <3>1 DEF Giving
    <3>2. CASE f # target
      BY <1>1, <2>1, <3>2 DEF Setting, Giving
    <3>3. QED
      BY <3>1, <3>2
  <2>4. QED
    BY <2>2, <2>3
<1>11. CASE UNCHANGED paramVars /\ UNCHANGED walkVars
  BY <1>1, <1>11 DEF paramVars, walkVars, Given, Setting, Giving
<1>12. CASE LayerThread
  <2>1. HasFilters \/ WalkBegins \/ WalkEnds \/ PassOver \/ Update
          => /\ UNCHANGED paramVars
             /\ lpc' \notin {"store", "clear"} /\ lpc \notin {"store", "clear"}
    BY DEF HasFilters, WalkBegins, WalkEnds, PassOver, Update, Pass
  <2>2. QED
    BY <1>3, <1>4, <1>5, <1>6, <1>12, <2>1 DEF LayerThread
<1>13. CASE Script
  <2>1. ASSUME NEW e \in instances, \/ AddFilter(e) \/ RemFilter(e) \/ Reorder(e)
                                    \/ Select(e) \/ Activate(e)
        PROVE  UNCHANGED paramVars /\ UNCHANGED walkVars
    BY <2>1 DEF AddFilter, RemFilter, Reorder, Select, Activate, filterVars
  <2>2. \A e : SetValue(e) => e \in Entries
    BY FilterAssumption DEF SetValue
  <2>3. QED
    BY <1>7, <1>8, <1>9, <1>10, <1>11, <1>13, <2>1, <2>2 DEF Script
<1>14. CASE OtherLists \/ UNCHANGED chainVars
  <2>1. UNCHANGED paramVars /\ UNCHANGED walkVars
    BY <1>14 DEF OtherLists, filterVars, chainVars
  <2>2. QED
    BY <1>11, <2>1
<1>15. QED
  BY <1>12, <1>13, <1>14 DEF FilterNext

\* A parameter that is not marked is what the plugin has, outside the calls that
\* are giving it (filter.cpp:125-138, parameter.cpp:89-125, filter_js.cpp:129-163), but for what
\* `stale' names.
THEOREM SettingsAreNotLost == FilterSpec => []ParametersArrive
<1>1. FilterInit => ParamInv
  BY DEF FilterInit, ParamInv, ParamTypes, Values, Given, ParametersArrive
<1>2. ParamInv /\ [FilterNext]_chainVars => ParamInv'
  BY ParamTypesStep, ParamStep DEF ParamInv
<1>3. ParamInv => ParametersArrive
  BY DEF ParamInv
<1>4. QED
  BY <1>1, <1>2, <1>3, PTL DEF FilterSpec
=============================================================================
