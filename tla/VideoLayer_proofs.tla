-------------------------- MODULE VideoLayer_proofs --------------------------
(***************************************************************************)
(* Proofs about VideoLayer and the end-of-stream calls under it, for any   *)
(* number of calls, jobs and packets.                                      *)
(***************************************************************************)
EXTENDS VideoLayer, FiniteSetTheorems, SequenceTheorems, TLAPS

-----------------------------------------------------------------------------
(* Counting the jobs of a call *)

\* The places after the first n where s has c.
After(s, n, c) == {k \in n + 1 .. Len(s) : s[k] = c}

LEMMA AfterIsFinite ==
  ASSUME NEW s \in Seq(Calls), NEW n \in Nat, NEW c
  PROVE  IsFiniteSet(After(s, n, c)) /\ Cardinality(After(s, n, c)) \in Nat
<1>1. IsFiniteSet(n + 1 .. Len(s)) /\ After(s, n, c) \subseteq n + 1 .. Len(s)
  BY FS_Interval, LenProperties DEF After
<1> QED BY <1>1, FS_Subset, FS_CardinalityType

\* A job that is added counts one more for its call.
LEMMA AfterSubmit ==
  ASSUME NEW s \in Seq(Calls), NEW n \in 0 .. Len(s), NEW d \in Calls, NEW c
  PROVE  Cardinality(After(Append(s, d), n, c))
           = Cardinality(After(s, n, c)) + (IF c = d THEN 1 ELSE 0)
<1>1. /\ Len(s) \in Nat /\ Len(Append(s, d)) = Len(s) + 1
      /\ \A k \in 1 .. Len(s) : Append(s, d)[k] = s[k]
      /\ Append(s, d)[Len(s) + 1] = d
  BY AppendProperties, LenProperties
<1>2. CASE c = d
  <2>1. After(Append(s, d), n, c) = After(s, n, c) \cup {Len(s) + 1}
    BY <1>1, <1>2 DEF After
  <2>2. Len(s) + 1 \notin After(s, n, c)
    BY <1>1 DEF After
  <2>3. IsFiniteSet(After(s, n, c)) /\ Cardinality(After(s, n, c)) \in Nat
    BY AfterIsFinite
  <2>4. Cardinality(After(s, n, c) \cup {Len(s) + 1}) = Cardinality(After(s, n, c)) + 1
    BY <2>2, <2>3, FS_AddElement
  <2> QED BY <2>1, <2>4, <1>2
<1>3. CASE c # d
  <2>1. After(Append(s, d), n, c) = After(s, n, c)
    BY <1>1, <1>3 DEF After
  <2> QED BY <2>1, <1>3, AfterIsFinite
<1> QED BY <1>2, <1>3

\* A job that is done counts one less for its call.
LEMMA AfterComplete ==
  ASSUME NEW s \in Seq(Calls), NEW n \in 0 .. Len(s) - 1, NEW c
  PROVE  Cardinality(After(s, n, c))
           = Cardinality(After(s, n + 1, c)) + (IF c = s[n + 1] THEN 1 ELSE 0)
<1>1. Len(s) \in Nat
  BY LenProperties
<1>2. CASE c = s[n + 1]
  <2>1. After(s, n, c) = After(s, n + 1, c) \cup {n + 1}
    BY <1>1, <1>2 DEF After
  <2>2. n + 1 \notin After(s, n + 1, c)
    BY <1>1 DEF After
  <2>3. IsFiniteSet(After(s, n + 1, c)) /\ Cardinality(After(s, n + 1, c)) \in Nat
    BY AfterIsFinite
  <2>4. Cardinality(After(s, n + 1, c) \cup {n + 1}) = Cardinality(After(s, n + 1, c)) + 1
    BY <2>2, <2>3, FS_AddElement
  <2> QED BY <2>1, <2>4, <1>2
<1>3. CASE c # s[n + 1]
  <2>1. After(s, n, c) = After(s, n + 1, c)
    BY <1>1, <1>3 DEF After
  <2> QED BY <2>1, <1>1, <1>3, AfterIsFinite
<1> QED BY <1>2, <1>3

\* What is left of s after its first n, as a sequence of its own.
LEMMA AfterAsSeq ==
  ASSUME NEW s \in Seq(Calls), NEW n \in 0 .. Len(s)
  PROVE  LET rest == SubSeq(s, n + 1, Len(s)) IN
         /\ (rest = <<>>) <=> (n = Len(s))
         /\ n < Len(s) => Head(rest) = s[n + 1]
         /\ \A c : Cardinality({i \in DOMAIN rest : rest[i] = c}) = Cardinality(After(s, n, c))
<1> DEFINE rest == SubSeq(s, n + 1, Len(s))
<1>1. /\ Len(s) \in Nat /\ rest \in Seq(Calls) /\ Len(rest) = Len(s) - n
      /\ \A i \in 1 .. Len(s) - n : rest[i] = s[n + i]
  <2>1. Len(s) \in Nat /\ \A i \in n + 1 .. Len(s) : s[i] \in Calls
    BY LenProperties, ElementOfSeq
  <2> QED BY <2>1, SubSeqProperties
<1> HIDE DEF rest
<1>2. DOMAIN rest = 1 .. Len(s) - n
  BY <1>1, LenProperties
<1>3. (rest = <<>>) <=> (n = Len(s))
  BY <1>1, EmptySeq
<1>4. n < Len(s) => Head(rest) = s[n + 1]
  BY <1>1, <1>3, HeadTailProperties
<1>5. ASSUME NEW c
      PROVE  Cardinality({i \in DOMAIN rest : rest[i] = c}) = Cardinality(After(s, n, c))
  <2> DEFINE A == {i \in DOMAIN rest : rest[i] = c}
             f == [i \in A |-> n + i]
  <2>1. f \in Bijection(A, After(s, n, c))
    <3>1. f \in [A -> After(s, n, c)]
      BY <1>1, <1>2 DEF After
    <3>2. \A i, k \in A : f[i] = f[k] => i = k
      BY <1>2
    <3>3. \A k \in After(s, n, c) : k - n \in A /\ f[k - n] = k
      BY <1>1, <1>2 DEF After
    <3> HIDE DEF f, A
    <3> QED BY <3>1, <3>2, <3>3 DEF Bijection, Surjection, Injection, IsInjective
  <2>2. IsFiniteSet(A)
    <3>1. IsFiniteSet(1 .. Len(s) - n) /\ A \subseteq 1 .. Len(s) - n
      BY <1>1, <1>2, FS_Interval
    <3> QED BY <3>1, FS_Subset
  <2> HIDE DEF f, A
  <2>3. ExistsBijection(A, After(s, n, c))
    BY <2>1 DEF ExistsBijection
  <2>4. Cardinality(After(s, n, c)) = Cardinality(A)
    BY <2>2, <2>3, FS_Bijection
  <2> QED BY <2>4 DEF A
<1> QED BY <1>3, <1>4, <1>5 DEF rest

-----------------------------------------------------------------------------
(* The inductive invariant of the calls *)

Undone(c) == After(submitted, Len(completed), c)
Adding(c) == IF npc = "add" /\ it = c THEN 1 ELSE 0

\* Types, and who has an iterator, a job in hand or a victim.
PlacesInv ==
  /\ calls_ \in Seq(Calls) /\ \A i, k \in 1 .. Len(calls_) : calls_[i] = calls_[k] => i = k
  /\ refcount_ \in [Calls -> Nat] /\ pending_ \in [Calls -> BOOLEAN]
  /\ submitted \in Seq(Calls) /\ completed \in Seq(Calls)
  /\ Len(completed) <= Len(submitted)
  /\ {closed, misused, useAfterFree} \subseteq BOOLEAN
  /\ npc \in {"idle", "enqueue", "add", "next"}
  /\ it \in Calls \cup {None} /\ (npc = "idle" <=> it = None)
  /\ dpc \in {"idle", "dequeue"}
  /\ dpc = "dequeue" => Len(completed) < Len(submitted)
  /\ opc \in {"idle", "lock", "free", "closing"}
  /\ victim \in Calls \cup {None} /\ (opc \in {"lock", "free"} <=> victim # None)
  /\ freed \subseteq Calls

\* Every job that is not over has its reference, also after a misuse: with it the
\* count never falls below zero.
ReferencesInv == \A c \in Calls : refcount_[c] >= Cardinality(Undone(c)) + Adding(c)

\* The count, the lock and the threads that rely on them.
CountsInv ==
  /\ \A c \in Calls :
       /\ refcount_[c] = Cardinality(Undone(c)) + Adding(c)
       /\ pending_[c] <=> refcount_[c] > 0 \/ (opc = "free" /\ victim = c)
  /\ opc = "free" => refcount_[victim] = 0

\* What is deleted is neither registered nor counted, and a notify stays on
\* what is registered.
LivesInv ==
  /\ \A c \in freed : refcount_[c] = 0 /\ ~Contains(calls_, c)
  /\ ~Contains(calls_, victim)
  /\ npc # "idle" => Contains(calls_, it) /\ opc # "closing"
  /\ ~useAfterFree

IInv == PlacesInv /\ ReferencesInv /\ (~misused => CountsInv /\ LivesInv)

-----------------------------------------------------------------------------
(* The inductive invariant of the frames *)

Pictures == Slots \cup {Nothing, Rgba}

FramesInv ==
  /\ lpc \in {"feed", "request", "forget", "read", "notify", "rewind", "convert", "copy",
              "publish", "ended", "closed"}
  /\ fifo_position \in 0 .. FIFO_SIZE /\ (lpc = "copy" => fifo_position \in Slots)
  /\ result \in Pictures /\ (lpc # "publish" => result = Nothing)
  /\ buffer \in Pictures \cup {Leaked, Freed}
  /\ whole \subseteq Slots
  /\ overtaken \in BOOLEAN
  \* the buffer is a picture, and the fifo goes on at the other slot
  /\ buffer \in Slots =>
       /\ buffer \in whole
       /\ IF lpc = "copy" THEN fifo_position # buffer
          ELSE IF lpc = "publish" /\ result \in Slots THEN result # buffer
          ELSE fifo_position = buffer + 1
  /\ result \in Slots => result \in whole /\ fifo_position = result + 1
  \* the engine draws the buffer, or one that has been overtaken
  /\ epc = "draw" /\ ~overtaken => drawn = buffer

-----------------------------------------------------------------------------
(* IInv *)

USE EosAssumption

\* The notify of a VideoLayer whose eos has been deleted.
NotifiesDeleted == /\ misused' = TRUE
                   /\ UNCHANGED <<calls_, callVars, dispatcherVars, notifierVars, dpc,
                                  ownerVars, freed, useAfterFree>>

LEMMA InitIInv == Init => IInv
<1> SUFFICES ASSUME Init PROVE IInv
  OBVIOUS
<1>1. /\ submitted = <<>> /\ completed = <<>> /\ closed = FALSE
      /\ <<>> \in Seq(Calls) /\ Len(<<>>) = 0
  BY EmptySeq DEF Init, dispatcher!Init
<1>2. \A c : Cardinality(Undone(c)) = 0
  <2>1. \A c : Undone(c) = {}
    BY <1>1 DEF Undone, After
  <2> QED BY <2>1, FS_EmptySet
<1>3. PlacesInv
  <2>1. calls_ = <<>> /\ calls_ \in Seq(Calls) /\ Len(calls_) = 0 /\ Len(submitted) = 0
        /\ Len(completed) = 0
    BY <1>1 DEF Init
  <2>2. refcount_ \in [Calls -> Nat] /\ pending_ \in [Calls -> BOOLEAN]
    BY DEF Init
  <2>3. {closed, misused, useAfterFree} \subseteq BOOLEAN
    BY <1>1 DEF Init
  <2> QED BY <1>1, <2>1, <2>2, <2>3 DEF Init, PlacesInv
<1> QED BY <1>1, <1>2, <1>3 DEF Init, IInv, ReferencesInv, CountsInv, LivesInv, Adding, Contains

\* What every step's proof needs of the counts.
LEMMA UndoneIsNat == PlacesInv => \A c : Cardinality(Undone(c)) \in Nat
BY AfterIsFinite, LenProperties DEF PlacesInv, Undone

\* The worker's job is the first that is not over, and it counts.
LEMMA FirstWaiting ==
  ASSUME PlacesInv
  PROVE  /\ Waiting # <<>> => Len(completed) < Len(submitted)
         /\ Len(completed) < Len(submitted) =>
              /\ Head(Waiting) = submitted[Len(completed) + 1]
              /\ Head(Waiting) \in Calls
              /\ Cardinality(Undone(Head(Waiting))) >= 1
<1>1. /\ submitted \in Seq(Calls) /\ completed \in Seq(Calls)
      /\ Len(completed) \in Nat /\ Len(submitted) \in Nat
      /\ Len(completed) \in 0 .. Len(submitted)
  BY LenProperties DEF PlacesInv
<1>2. Waiting # <<>> => Len(completed) < Len(submitted)
  BY <1>1, AfterAsSeq DEF Waiting
<1>3. ASSUME Len(completed) < Len(submitted)
      PROVE  /\ Head(Waiting) = submitted[Len(completed) + 1]
             /\ Head(Waiting) \in Calls
             /\ Cardinality(Undone(Head(Waiting))) >= 1
  <2>1. Head(Waiting) = submitted[Len(completed) + 1]
    BY <1>1, <1>3, AfterAsSeq DEF Waiting
  <2>2. submitted[Len(completed) + 1] \in Calls
    BY <1>1, <1>3, ElementOfSeq
  <2>3. Cardinality(After(submitted, Len(completed) + 1, Head(Waiting))) \in Nat
    BY <1>1, AfterIsFinite
  <2> QED BY <1>1, <1>3, <2>1, <2>2, <2>3, AfterComplete DEF Undone
<1> QED BY <1>2, <1>3

LEMMA RemoveAtValues ==
  ASSUME NEW s \in Seq(Calls), NEW i \in 1 .. Len(s)
  PROVE  /\ RemoveAt(s, i) \in Seq(Calls)
         /\ Len(RemoveAt(s, i)) = Len(s) - 1
         /\ \A k \in 1 .. Len(s) - 1 : RemoveAt(s, i)[k] = s[IF k < i THEN k ELSE k + 1]
<1> DEFINE a == SubSeq(s, 1, i - 1)
           z == SubSeq(s, i + 1, Len(s))
<1>1. Len(s) \in Nat /\ \A k \in 1 .. Len(s) : s[k] \in Calls
  BY LenProperties, ElementOfSeq
<1>2. /\ a \in Seq(Calls) /\ Len(a) = i - 1 /\ \A k \in 1 .. i - 1 : a[k] = s[k]
  BY <1>1, SubSeqProperties
<1>3. /\ z \in Seq(Calls) /\ Len(z) = Len(s) - i
      /\ \A k \in 1 .. Len(s) - i : z[k] = s[i + k]
  BY <1>1, SubSeqProperties
<1>4. RemoveAt(s, i) = a \o z
  BY DEF RemoveAt
<1> HIDE DEF a, z
<1>5. /\ a \o z \in Seq(Calls) /\ Len(a \o z) = Len(a) + Len(z)
      /\ \A k \in 1 .. Len(a) + Len(z) : (a \o z)[k] = IF k <= Len(a) THEN a[k] ELSE z[k - Len(a)]
  BY <1>2, <1>3, ConcatProperties
<1>6. Len(a) + Len(z) = Len(s) - 1
  BY <1>1, <1>2, <1>3
<1>7. ASSUME NEW k \in 1 .. Len(s) - 1
      PROVE  (a \o z)[k] = s[IF k < i THEN k ELSE k + 1]
  <2>1. CASE k < i
    BY <2>1, <1>1, <1>2, <1>5, <1>6
  <2>2. CASE ~(k < i)
    <3>1. k - Len(a) \in 1 .. Len(s) - i /\ i + (k - Len(a)) = k + 1 /\ ~(k <= Len(a))
      BY <2>2, <1>1, <1>2
    <3>2. z[k - Len(a)] = s[k + 1]
      BY <3>1, <1>3
    <3> QED BY <2>2, <3>1, <3>2, <1>1, <1>5, <1>6
  <2> QED BY <2>1, <2>2
<1> QED BY <1>4, <1>5, <1>6, <1>7

LEMMA StepIInv == IInv /\ (Next \/ NotifiesDeleted \/ UNCHANGED vars) => IInv'
<1> SUFFICES ASSUME IInv, Next \/ NotifiesDeleted \/ UNCHANGED vars PROVE IInv'
  OBVIOUS
<1>u. PlacesInv /\ \A c : Cardinality(Undone(c)) \in Nat
  BY UndoneIsNat DEF IInv
<1> USE DEF callVars, dispatcherVars, notifierVars, ownerVars, Owns, Touch, Contains
<1>s. ASSUME UNCHANGED <<submitted, completed>>
      PROVE  \A c : Undone(c)' = Undone(c)
  BY <1>s DEF Undone
<1>1. CASE NotifyBegin
  <2>1. it' \in Calls /\ it' # None /\ it' = calls_[1] /\ 1 \in 1 .. Len(calls_)
    BY <1>1, <1>u, HeadTailProperties, EmptySeq, LenProperties DEF NotifyBegin, PlacesInv
  <2>2. PlacesInv'
    BY <1>1, <1>u, <2>1 DEF NotifyBegin, PlacesInv
  <2>3. ReferencesInv'
    BY <1>1, <1>u, <1>s, <2>1 DEF NotifyBegin, PlacesInv, IInv, ReferencesInv, Adding
  <2>4. ~misused' => CountsInv'
    BY <1>1, <1>u, <1>s, <2>1 DEF NotifyBegin, PlacesInv, IInv, CountsInv, Adding
  <2>5. ~misused' => LivesInv'
    BY <1>1, <1>u, <2>1 DEF NotifyBegin, PlacesInv, IInv, LivesInv
  <2> QED BY <2>2, <2>3, <2>4, <2>5 DEF IInv
<1>2. CASE Enqueue
  <2>1. it \in Calls /\ submitted' = submitted /\ completed' = completed
    BY <1>2, <1>u DEF Enqueue, PlacesInv
  <2>2. PlacesInv'
    BY <1>2, <1>u, <2>1 DEF Enqueue, PlacesInv
  <2>3. ReferencesInv'
    BY <1>2, <1>u, <1>s, <2>1 DEF Enqueue, PlacesInv, IInv, ReferencesInv, Adding
  <2>4. ~misused' => CountsInv'
    BY <1>2, <1>u, <1>s, <2>1 DEF Enqueue, PlacesInv, IInv, CountsInv, Adding
  <2>5. ~misused' => LivesInv'
    BY <1>2, <1>u, <2>1 DEF Enqueue, PlacesInv, IInv, LivesInv
  <2> QED BY <2>2, <2>3, <2>4, <2>5 DEF IInv
<1>3. CASE AddNotify
  <2>1. CASE closed \/ opc = "closing"
    <3>1. PlacesInv' /\ misused'
      BY <1>3, <1>u, <2>1 DEF AddNotify, PlacesInv
    <3>2. ReferencesInv'
      BY <1>3, <1>u, <1>s, <2>1 DEF AddNotify, PlacesInv, IInv, ReferencesInv, Adding
    <3> QED BY <3>1, <3>2 DEF IInv
  <2>2. CASE ~(closed \/ opc = "closing")
    <3>1. /\ it \in Calls /\ npc = "add" /\ npc' = "next" /\ completed' = completed
          /\ submitted' = Append(submitted, it) /\ it' = it
      BY <1>3, <1>u, <2>2 DEF AddNotify, PlacesInv, dispatcher!Submit
    <3>2. \A c : Cardinality(Undone(c)') = Cardinality(Undone(c)) + (IF c = it THEN 1 ELSE 0)
      BY <3>1, <1>u, AfterSubmit, LenProperties DEF Undone, PlacesInv
    <3>3. PlacesInv'
      BY <1>3, <1>u, <2>2, <3>1, AppendProperties, LenProperties
      DEF AddNotify, PlacesInv, dispatcher!Submit
    <3>u. UNCHANGED <<refcount_, pending_, opc, victim, misused>>
      BY <1>3, <2>2 DEF AddNotify
    <3>a. \A c : Cardinality(Undone(c)') + Adding(c)' = Cardinality(Undone(c)) + Adding(c)
      BY <1>u, <3>1, <3>2 DEF Adding
    <3>4. ReferencesInv'
      BY <3>u, <3>a DEF IInv, ReferencesInv
    <3>5. ~misused' => CountsInv'
      BY <3>u, <3>a DEF IInv, CountsInv
    <3>6. ~misused' => LivesInv'
      BY <1>3, <1>u, <2>2, <3>1 DEF AddNotify, PlacesInv, IInv, LivesInv
    <3> QED BY <3>3, <3>4, <3>5, <3>6 DEF IInv
  <2> QED BY <2>1, <2>2
<1>4. CASE NotifyNext
  <2>0. it' \in Calls \cup {None} /\ npc' \in {"idle", "enqueue"} /\ (npc' = "idle" <=> it' = None)
        /\ misused' \in BOOLEAN
        /\ UNCHANGED <<calls_, refcount_, pending_, submitted, completed, closed, dpc, opc, victim,
                       freed, useAfterFree>>
    <3>1. DOMAIN calls_ = 1 .. Len(calls_) /\ Len(calls_) \in Nat
          /\ \A i \in 1 .. Len(calls_) : calls_[i] \in Calls
      BY <1>u, LenProperties, ElementOfSeq DEF PlacesInv
    <3>2. misused' \in BOOLEAN
      BY <1>4, <1>u DEF NotifyNext, PlacesInv
    <3>3. it' \in Calls \cup {None} /\ npc' \in {"idle", "enqueue"} /\ (npc' = "idle" <=> it' = None)
      <4>1. CASE ~Contains(calls_, it)
        BY <4>1, <1>4 DEF NotifyNext
      <4>2. CASE Contains(calls_, it)
        <5>1. PICK i \in 1 .. Len(calls_) : IF i = Len(calls_) THEN npc' = "idle" /\ it' = None
                                           ELSE npc' = "enqueue" /\ it' = calls_[i + 1]
          BY <1>4, <4>2, <3>1 DEF NotifyNext
        <5>2. i # Len(calls_) => calls_[i + 1] \in Calls
          <6>0. i \in 1 .. Len(calls_)
            BY <5>1
          <6>1. i # Len(calls_) => i + 1 \in 1 .. Len(calls_)
            <7> DEFINE n == Len(calls_)
            <7>1. i \in 1 .. n /\ n \in Nat
              BY <6>0, <3>1
            <7> HIDE DEF n
            <7>2. i # n => i + 1 \in 1 .. n
              BY <7>1
            <7> QED BY <7>2 DEF n
          <6> QED BY <6>1, <3>1
        <5> QED BY <5>1, <5>2
      <4> QED BY <4>1, <4>2
    <3> QED BY <1>4, <3>2, <3>3 DEF NotifyNext
  <2>1. PlacesInv'
    BY <1>u, <2>0 DEF PlacesInv
  <2>2. ReferencesInv'
    BY <1>4, <1>u, <1>s DEF NotifyNext, PlacesInv, IInv, ReferencesInv, Adding
  <2>3. ~misused' => CountsInv'
    BY <1>4, <1>u, <1>s DEF NotifyNext, PlacesInv, IInv, CountsInv, Adding
  <2>4. ~misused' => LivesInv'
    BY <1>4, <1>u, LenProperties DEF NotifyNext, PlacesInv, IInv, LivesInv
  <2> QED BY <2>1, <2>2, <2>3, <2>4 DEF IInv
<1>5. CASE Callback
  <2> DEFINE c == Head(Waiting)
  <2>1. Len(completed) < Len(submitted) /\ c \in Calls /\ Cardinality(Undone(c)) >= 1
    BY <1>5, <1>u, FirstWaiting DEF Callback
  <2> HIDE DEF c
  <2>2. /\ PlacesInv' /\ UNCHANGED <<submitted, completed, refcount_, pending_, npc, it, opc,
                                     victim, calls_, freed, misused>>
        /\ useAfterFree' = (useAfterFree \/ c \in freed)
    BY <1>5, <1>u, <2>1 DEF Callback, PlacesInv, c
  <2>3. ReferencesInv'
    BY <1>s, <2>2 DEF IInv, ReferencesInv, Adding
  <2>4. ~misused' => CountsInv'
    BY <1>s, <2>2 DEF IInv, CountsInv, Adding
  <2>5. ~misused => c \notin freed
    BY <2>1, <1>u DEF IInv, CountsInv, LivesInv, PlacesInv, Adding
  <2>6. ~misused' => LivesInv'
    BY <2>2, <2>5 DEF IInv, LivesInv
  <2> QED BY <2>2, <2>3, <2>4, <2>6 DEF IInv
<1>6. CASE Dequeue
  <2> DEFINE c == Head(Waiting)
  <2>1. /\ Len(completed) < Len(submitted) /\ c \in Calls /\ Cardinality(Undone(c)) >= 1
        /\ c = submitted[Len(completed) + 1]
    BY <1>6, <1>u, FirstWaiting DEF Dequeue, DequeueWith, PlacesInv
  <2> HIDE DEF c
  <2>2. /\ refcount_' = [refcount_ EXCEPT ![c] = @ - 1]
        /\ pending_' = IF refcount_[c] = 1 THEN [pending_ EXCEPT ![c] = FALSE] ELSE pending_
        /\ completed' = Append(completed, c)
        /\ UNCHANGED <<submitted, closed, npc, it, opc, victim, calls_, freed, misused>>
        /\ useAfterFree' = (useAfterFree \/ c \in freed)
        /\ dpc' = "idle"
    BY <1>6, <2>1 DEF Dequeue, DequeueWith, dispatcher!Complete, c
  <2>3. completed' \in Seq(Calls) /\ Len(completed') = Len(completed) + 1
    BY <2>1, <2>2, <1>u, AppendProperties DEF PlacesInv
  <2>4. \A d : Cardinality(Undone(d)) = Cardinality(Undone(d)') + (IF d = c THEN 1 ELSE 0)
    <3>1. submitted \in Seq(Calls) /\ Len(completed) \in 0 .. Len(submitted) - 1
      BY <2>1, <1>u, LenProperties DEF PlacesInv
    <3> QED BY <3>1, <2>1, <2>2, <2>3, AfterComplete DEF Undone
  <2>5. \A d : Cardinality(Undone(d)') \in Nat
    BY <2>2, <2>3, <1>u, AfterIsFinite, LenProperties DEF Undone, PlacesInv
  <2>6. refcount_[c] >= 1
    BY <2>1, <1>u DEF IInv, ReferencesInv, PlacesInv, Adding
  <2>7. PlacesInv'
    BY <2>1, <2>2, <2>3, <2>6, <1>u, LenProperties DEF PlacesInv
  <2>8. ReferencesInv'
    BY <2>1, <2>2, <2>4, <2>5, <1>u DEF IInv, ReferencesInv, PlacesInv, Adding
  <2>9. ~misused' => CountsInv'
    <3>1. SUFFICES ASSUME ~misused, CountsInv PROVE CountsInv'
      BY <2>2 DEF IInv
    <3>2. \A d \in Calls : refcount_'[d] = Cardinality(Undone(d)') + Adding(d)'
      BY SMTT(60), <3>1, <2>1, <2>2, <2>4, <2>5, <1>u DEF CountsInv, PlacesInv, Adding
    <3>3. opc = "free" => victim # c
      BY <3>1, <2>6, <1>u DEF CountsInv, PlacesInv
    <3>4. \A d \in Calls : pending_'[d] <=> refcount_'[d] > 0 \/ (opc' = "free" /\ victim' = d)
      BY <3>1, <3>3, <2>1, <2>2, <2>6, <1>u DEF CountsInv, PlacesInv
    <3> QED BY <3>1, <3>2, <3>3, <3>4, <2>2, <1>u DEF CountsInv, PlacesInv
  <2>10. ~misused' => LivesInv'
    BY <2>1, <2>2, <2>6, <1>u DEF IInv, LivesInv, PlacesInv
  <2> QED BY <2>7, <2>8, <2>9, <2>10 DEF IInv
<1>7. ASSUME NEW c \in Calls, AddCall(c) PROVE IInv'
  <2>1. /\ calls_' \in Seq(Calls) /\ Len(calls_') = Len(calls_) + 1
        /\ \A i \in 1 .. Len(calls_) : calls_'[i] = calls_[i]
        /\ calls_'[Len(calls_) + 1] = c
    BY <1>7, <1>u, AppendProperties DEF AddCall, PlacesInv
  <2>2. PlacesInv'
    BY <1>7, <1>u, <2>1, LenProperties DEF AddCall, PlacesInv
  <2>3. ReferencesInv'
    BY <1>7, <1>s DEF AddCall, IInv, ReferencesInv, Adding
  <2>4. ~misused' => CountsInv'
    BY <1>7, <1>s DEF AddCall, IInv, CountsInv, Adding
  <2>5. ~misused' => LivesInv'
    BY <1>7, <1>u, <2>1, LenProperties DEF AddCall, PlacesInv, IInv, LivesInv
  <2> QED BY <2>2, <2>3, <2>4, <2>5 DEF IInv
<1>8. ASSUME NEW c \in Calls, RemCall(c) PROVE IInv'
  <2>1. PICK i \in 1 .. Len(calls_) : calls_[i] = c /\ calls_' = RemoveAt(calls_, i)
    BY <1>8, <1>u, LenProperties DEF RemCall, PlacesInv
  <2>2. /\ calls_' \in Seq(Calls) /\ Len(calls_') = Len(calls_) - 1
        /\ \A k \in 1 .. Len(calls_) - 1 : calls_'[k] = calls_[IF k < i THEN k ELSE k + 1]
    <3>1. calls_ \in Seq(Calls)
      BY <1>u DEF PlacesInv
    <3>2. /\ RemoveAt(calls_, i) \in Seq(Calls)
          /\ Len(RemoveAt(calls_, i)) = Len(calls_) - 1
          /\ \A k \in 1 .. Len(calls_) - 1 :
               RemoveAt(calls_, i)[k] = calls_[IF k < i THEN k ELSE k + 1]
      BY <3>1, RemoveAtValues, i \in 1 .. Len(calls_)
    <3> QED BY <2>1, <3>2
  <2>l. Len(calls_) \in Nat /\ Len(calls_') = Len(calls_) - 1
    BY <2>2, <1>u, LenProperties DEF PlacesInv
  <2>3. PlacesInv'
    <3>1. \A k, m \in 1 .. Len(calls_') : calls_'[k] = calls_'[m] => k = m
      <4> SUFFICES ASSUME NEW k \in 1 .. Len(calls_'), NEW m \in 1 .. Len(calls_'),
                          calls_'[k] = calls_'[m]
                   PROVE  k = m
        OBVIOUS
      <4> DEFINE kk == IF k < i THEN k ELSE k + 1
                 mm == IF m < i THEN m ELSE m + 1
      <4>1. kk \in 1 .. Len(calls_) /\ mm \in 1 .. Len(calls_) /\ (kk = mm => k = m)
        BY <2>l
      <4>2. calls_[kk] = calls_[mm]
        BY <2>2, <2>l
      <4> QED BY <4>1, <4>2, <1>u DEF PlacesInv
    <3>2. misused' \in BOOLEAN
      BY <1>8 , <1>u DEF RemCall, PlacesInv
    <3> QED BY <1>8, <1>u, <2>2, <3>1, <3>2 DEF RemCall, PlacesInv
  <2>4. ReferencesInv'
    BY <1>8, <1>s DEF RemCall, IInv, ReferencesInv, Adding
  <2>5. ~misused' => CountsInv'
    BY <1>8, <1>s DEF RemCall, IInv, CountsInv, Adding
  <2>6. \A d : Contains(calls_', d) <=> Contains(calls_, d) /\ d # c
    <3>1. ASSUME NEW k \in 1 .. Len(calls_')
          PROVE  calls_'[k] # c /\ \E m \in 1 .. Len(calls_) : calls_[m] = calls_'[k]
      <4> DEFINE kk == IF k < i THEN k ELSE k + 1
      <4>1. kk \in 1 .. Len(calls_) /\ kk # i
        BY <2>l
      <4>2. calls_'[k] = calls_[kk]
        BY <2>2, <2>l
      <4> QED BY <4>1, <4>2, <2>1, <1>u DEF PlacesInv
    <3>2. ASSUME NEW k \in 1 .. Len(calls_), calls_[k] # c
          PROVE  \E m \in 1 .. Len(calls_') : calls_'[m] = calls_[k]
      <4>1. CASE k < i
        <5>1. k \in 1 .. Len(calls_') /\ calls_'[k] = calls_[k]
          BY <4>1, <2>2, <2>l
        <5> QED BY <5>1
      <4>2. CASE k > i
        <5>1. k - 1 \in 1 .. Len(calls_') /\ calls_'[k - 1] = calls_[k]
          BY <4>2, <2>2, <2>l
        <5> QED BY <5>1
      <4> QED BY <4>1, <4>2, <2>1, <2>l, <3>2
    <3> QED BY <3>1, <3>2
  <2>7. ~misused' => LivesInv'
    BY <1>8, <1>u, <2>6 DEF RemCall, PlacesInv, IInv, LivesInv
  <2> QED BY <2>3, <2>4, <2>5, <2>7 DEF IInv
<1>9. ASSUME NEW c \in Calls, DeleteCall(c) PROVE IInv'
  BY <1>9, <1>u, <1>s DEF DeleteCall, PlacesInv, IInv, ReferencesInv, CountsInv, LivesInv, Adding
<1>10. CASE DestructorLocks
  BY <1>10, <1>u, <1>s DEF DestructorLocks, PlacesInv, IInv, ReferencesInv, CountsInv, LivesInv, Adding
<1>11. CASE DestructorFrees
  BY <1>11, <1>u, <1>s DEF DestructorFrees, PlacesInv, IInv, ReferencesInv, CountsInv, LivesInv, Adding
<1>12. CASE DeleteEos
  <2>1. PlacesInv'
    BY <1>12, <1>u DEF DeleteEos, PlacesInv
  <2>2. ReferencesInv'
    BY <1>12, <1>s DEF DeleteEos, IInv, ReferencesInv, Adding
  <2>3. ~misused' => CountsInv'
    BY <1>12, <1>s DEF DeleteEos, IInv, CountsInv, Adding
  <2>4. ~misused' => LivesInv'
    BY <1>12 DEF DeleteEos, IInv, LivesInv
  <2> QED BY <2>1, <2>2, <2>3, <2>4 DEF IInv
<1>13. CASE EosDeleted
  BY <1>13, <1>u, <1>s, EmptySeq
  DEF EosDeleted, dispatcher!Close, PlacesInv, IInv, ReferencesInv, CountsInv, LivesInv, Adding
<1>14. CASE NotifiesDeleted
  BY <1>14, <1>u, <1>s DEF NotifiesDeleted, PlacesInv, IInv, ReferencesInv, Adding
<1>15. CASE UNCHANGED vars
  BY SMTT(60), <1>15, <1>u, <1>s
  DEF vars, PlacesInv, IInv, ReferencesInv, CountsInv, LivesInv, Adding
<1> QED BY <1>1, <1>2, <1>3, <1>4, <1>5, <1>6, <1>7, <1>8, <1>9, <1>10, <1>11, <1>12, <1>13,
           <1>14, <1>15 DEF Next, Notifier, Worker, Owner, Destructors

\* To the calls, a step of the movie is a step of their own or none.
LEMMA VideoStepsCalls == VideoNext => Next \/ NotifiesDeleted \/ UNCHANGED vars
<1> SUFFICES ASSUME VideoNext PROVE Next \/ NotifiesDeleted \/ UNCHANGED vars
  OBVIOUS
<1>1. CASE LayerThread
  BY <1>1 DEF LayerThread, FeedPaused, FeedMarks, FeedSeek, FeedForget, ReadPacket, ReadError,
              ReadEnd, Notifying, Rewind, Convert, Copied, Publish, ThreadEnds, Next, Notifier,
              NotifiesDeleted
<1>2. CASE Script \/ Destructor \/ Engine
  BY <1>2 DEF Script, Destructor, Engine, Pause, AskSeek, Stop, Close, Gone, BlitTest, BlitStart,
              BlitEnd
<1>3. CASE CallsStep
  BY <1>3 DEF CallsStep, Next
<1> QED BY <1>1, <1>2, <1>3 DEF VideoNext

THEOREM VideoIInv == VideoSpec => []IInv
<1>1. VideoInit => IInv
  BY InitIInv DEF VideoInit
<1>2. IInv /\ [VideoNext]_videoVars => IInv'
  BY VideoStepsCalls, StepIInv DEF videoVars
<1> QED BY <1>1, <1>2, PTL DEF VideoSpec

\* DumbCall::enqueue and dequeue, called by the layer's thread and by the
\* worker: refcount_ is the number of notifications that are not over, and
\* pending_ is locked exactly while there is one or the destructor has it.
THEOREM RefcountCountsPending == VideoSpec => []RefcountIsPending
<1>1. IInv => RefcountIsPending
  <2> SUFFICES ASSUME IInv, ~misused, NEW c \in Calls
               PROVE  /\ refcount_[c] = Cardinality({i \in DOMAIN Waiting : Waiting[i] = c})
                                         + Adding(c)
                      /\ pending_[c] <=> refcount_[c] > 0 \/ (opc = "free" /\ victim = c)
    BY DEF RefcountIsPending, Adding
  <2>1. submitted \in Seq(Calls) /\ Len(completed) \in 0 .. Len(submitted)
    BY LenProperties DEF IInv, PlacesInv
  <2>2. Cardinality({i \in DOMAIN Waiting : Waiting[i] = c}) = Cardinality(Undone(c))
    BY <2>1, AfterAsSeq DEF Waiting, Undone
  <2> QED BY <2>2 DEF IInv, CountsInv
<1> QED BY <1>1, VideoIInv, PTL

\* DumbCall::~DumbCall: "this blocks as far as we're in queue".  No call is
\* enqueued, executed or dequeued after its destructor has returned, as long as
\* nobody removes the call a notify is at or deletes eos under a notify.
THEOREM DeletedCallsAreIdle == VideoSpec => []CallsOutliveTheirJobs
<1>1. IInv => CallsOutliveTheirJobs
  BY DEF IInv, LivesInv, CallsOutliveTheirJobs
<1> QED BY <1>1, VideoIInv, PTL

-----------------------------------------------------------------------------
(* FramesInv *)

LEMMA InitFramesInv == VideoInit => FramesInv
<1> SUFFICES ASSUME VideoInit PROVE FramesInv
  OBVIOUS
<1>1. /\ lpc = "feed" /\ fifo_position = 0 /\ result = Nothing /\ buffer = Nothing /\ whole = {}
      /\ overtaken \in BOOLEAN /\ epc = "idle"
  BY DEF VideoInit
<1> QED BY <1>1 DEF FramesInv, Slots, FIFO_SIZE, Pictures, Nothing

\* A seek leaves the fifo as it was, or without a picture that anybody draws.
LEMMA SeekKeepsFrames ==
  ASSUME FramesInv, NEW toStart, Seek(toStart), lpc \notin {"copy", "publish"},
         lpc' \in {"feed", "request", "forget", "read"}, UNCHANGED <<result, epc, overtaken>>
  PROVE  FramesInv'
<1>1. CASE Reopen
  <2>1. /\ fifo_position' = 0 /\ whole' = {} /\ buffer' = AfterReopen(buffer)
        /\ drawn' = AfterReopen(drawn) /\ result' = Nothing
    BY <1>1 DEF Reopen, FramesInv
  <2>2. buffer' \notin Slots /\ buffer' \in Pictures \cup {Leaked, Freed}
    BY <2>1 DEF AfterReopen, FramesInv, Slots, FIFO_SIZE, Pictures, Nothing, Rgba, Leaked, Freed
  <2> QED BY <2>1, <2>2 DEF FramesInv, Slots, FIFO_SIZE, Pictures, Nothing
<1>2. CASE UNCHANGED <<fifo_position, whole, buffer, drawn>>
  BY <1>2 DEF FramesInv
<1> QED BY <1>1, <1>2 DEF Seek, Stays

LEMMA StepFramesInv == FramesInv /\ (VideoNext \/ UNCHANGED videoVars) => FramesInv'
<1> SUFFICES ASSUME FramesInv, VideoNext \/ UNCHANGED videoVars PROVE FramesInv'
  OBVIOUS
<1> USE DEF threadVars, scriptVars, engineVars
<1>1. CASE FeedPaused
  BY <1>1 DEF FeedPaused, FramesInv, Slots, FIFO_SIZE, Pictures, Rgba, Nothing
<1>2. CASE FeedMarks
  <2>1. CASE \E toStart \in BOOLEAN : Seek(toStart)
    BY <1>2, <2>1, SeekKeepsFrames DEF FeedMarks
  <2>2. CASE Stays
    BY <1>2, <2>2 DEF FeedMarks, Stays, FramesInv
  <2> QED BY <1>2, <2>1, <2>2 DEF FeedMarks
<1>3. CASE FeedSeek
  <2>1. CASE to_seek >= 0
    BY <1>3, <2>1, SeekKeepsFrames DEF FeedSeek
  <2>2. CASE ~(to_seek >= 0)
    BY <1>3, <2>2 DEF FeedSeek, Stays, FramesInv
  <2> QED BY <2>1, <2>2
<1>4. CASE FeedForget \/ ReadPacket \/ ReadError \/ ReadEnd \/ Notifying \/ ThreadEnds
  <2>1. /\ lpc \in {"forget", "read", "notify", "feed"}
        /\ lpc' \in {"read", "convert", "publish", "rewind", "notify", "ended"}
        /\ result' = Nothing
        /\ UNCHANGED <<fifo_position, whole, buffer, epc, drawn, overtaken>>
    BY <1>4 DEF FeedForget, ReadPacket, ReadError, ReadEnd, Notifying, ThreadEnds, FramesInv
  <2> QED BY <2>1 DEF FramesInv, Slots, FIFO_SIZE, Pictures, Nothing
<1>5. CASE Rewind
  BY <1>5, SeekKeepsFrames DEF Rewind
<1>6. CASE Convert
  BY <1>6 DEF Convert, NextSlot, FramesInv, Slots, FIFO_SIZE, Pictures, Nothing
<1>7. CASE Copied
  BY <1>7 DEF Copied, FramesInv, Slots, FIFO_SIZE, Pictures, Nothing
<1>8. CASE Publish
  <2>1. overtaken' \in BOOLEAN /\ (~overtaken' => epc' # "draw")
    BY <1>8 DEF Publish
  <2>2. /\ lpc = "publish" /\ lpc' = "feed" /\ result' = Nothing /\ buffer' = result
        /\ UNCHANGED <<fifo_position, whole>>
    BY <1>8 DEF Publish
  <2> QED BY <2>1, <2>2 DEF FramesInv, Slots, FIFO_SIZE, Pictures, Nothing
<1>9. CASE Script \/ Stop \/ Gone \/ BlitTest \/ BlitEnd \/ CallsStep \/ UNCHANGED videoVars
  <2>1. /\ UNCHANGED <<lpc, fifo_position, result, whole, buffer>>
        /\ \/ UNCHANGED <<epc, drawn, overtaken>>
           \/ epc' # "draw" /\ overtaken' \in {overtaken, FALSE}
    BY <1>9 DEF Script, Pause, AskSeek, Stop, Gone, BlitTest, BlitEnd, CallsStep, videoVars, movieVars
  <2> QED BY <2>1 DEF FramesInv
<1>10. CASE BlitStart
  BY <1>10 DEF BlitStart, FramesInv
<1>11. CASE Close
  <2>1. buffer' \notin Slots /\ buffer' \in Pictures \cup {Leaked, Freed}
    BY <1>11 DEF Close, AfterReopen, FramesInv, Slots, FIFO_SIZE, Pictures, Nothing, Rgba, Leaked,
                 Freed
  <2> QED BY <1>11, <2>1 DEF Close, FramesInv, Slots, FIFO_SIZE, Pictures, Nothing
<1> QED BY <1>1, <1>2, <1>3, <1>4, <1>5, <1>6, <1>7, <1>8, <1>9, <1>10, <1>11
  DEF VideoNext, LayerThread, Destructor, Engine

\* VideoLayer::feed and the engine's blit, which share no lock: until the next
\* picture is published the engine's is whole and the fifo's next slot is
\* another, however the movie is looped, paused, sought and opened again.
THEOREM DrawnFramesAreWhole == VideoSpec => []FramesAreWhole
<1>1. FramesInv /\ [VideoNext]_videoVars => FramesInv'
  BY StepFramesInv
<1>2. FramesInv => FramesAreWhole
  BY DEF FramesInv, FramesAreWhole
<1> QED BY <1>1, <1>2, InitFramesInv, PTL DEF VideoSpec
=============================================================================
