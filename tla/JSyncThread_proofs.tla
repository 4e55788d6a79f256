-------------------------- MODULE JSyncThread_proofs --------------------------
(***************************************************************************)
(* Proofs about JSyncThread for any number of jobs, starts and stops.      *)
(* Lifecycle says which thread can be alive when, Hands and Order what     *)
(* becomes of the deferred calls; the deferred calls are then a            *)
(* JobService.                                                             *)
(***************************************************************************)
EXTENDS JSyncThread, SequenceTheorems, TLAPS

USE JSyncAssumption, NoneIsNoJob

-----------------------------------------------------------------------------
(* The queue: what a push, a take and a run do to Order *)

\* add_job extends the whole history at its end.
LEMMA PushExtends ==
  ASSUME NEW S, NEW s \in Seq(S), NEW q \in Seq(S), NEW e \in S
  PROVE  s \o Append(q, e) = Append(s \o q, e)
<1>1. s \o q \in Seq(S) /\ <<e>> \in Seq(S)
  BY ConcatProperties
<1>2. Append(s \o q, e) = (s \o q) \o <<e>>
  BY <1>1, AppendIsConcat
<1>3. Append(q, e) = q \o <<e>>
  BY AppendIsConcat
<1> QED BY <1>1, <1>2, <1>3, ConcatAssociative

\* get_job_ moves the head of the queue behind what was executed.
LEMMA TakeKeepsOrder ==
  ASSUME NEW S, NEW s \in Seq(S), NEW q \in Seq(S), q # <<>>
  PROVE  s \o q = (s \o <<Head(q)>>) \o Tail(q)
<1>1. Head(q) \in S /\ Tail(q) \in Seq(S)
  BY HeadTailProperties
<1>2. <<Head(q)>> \in Seq(S)
  BY <1>1
<1>3. q = <<Head(q)>> \o Tail(q)
  <2>1. /\ <<Head(q)>> \o Tail(q) \in Seq(S)
        /\ Len(<<Head(q)>> \o Tail(q)) = Len(q)
        /\ \A i \in 1..Len(q) : (<<Head(q)>> \o Tail(q))[i] = q[i]
    BY <1>1, <1>2, ConcatProperties, HeadTailProperties, LenProperties, EmptySeq
  <2> QED BY <2>1, SeqEqual
<1> QED BY <1>1, <1>2, <1>3, ConcatAssociative

QueueFacts == QueueTypeOK /\ Order

LEMMA AddJobStep ==
  ASSUME QueueFacts, NEW j \in Jobs, AddJob(j)
  PROVE  QueueFacts' /\ Len(added') = Len(added) + 1
<1>1. /\ job_queue_ \in Seq(Jobs) /\ ran \in Seq(Jobs) /\ added \in Seq(Jobs)
      /\ job \in [Runners -> Jobs \union {None}]
  BY DEF QueueFacts, QueueTypeOK
<1>2. /\ Append(job_queue_, j) \in Seq(Jobs) /\ Append(added, j) \in Seq(Jobs)
      /\ Len(Append(added, j)) = Len(added) + 1
  BY <1>1, AppendProperties
<1>3. ASSUME NEW r \in Runners, job[r] # None
      PROVE  Append(added, j) = (ran \o <<job[r]>>) \o Append(job_queue_, j)
  <2>1. job[r] \in Jobs
    BY <1>1, <1>3
  <2>2. ran \o <<job[r]>> \in Seq(Jobs)
    BY <1>1, <2>1, ConcatProperties
  <2>3. (ran \o <<job[r]>>) \o Append(job_queue_, j)
          = Append((ran \o <<job[r]>>) \o job_queue_, j)
    BY ONLY <1>1, <2>2, j \in Jobs, PushExtends
  <2> QED BY <1>3, <2>3 DEF QueueFacts, Order
<1>4. ASSUME \A r \in Runners : job[r] = None
      PROVE  Append(added, j) = ran \o Append(job_queue_, j)
  <2>1. ran \o Append(job_queue_, j) = Append(ran \o job_queue_, j)
    BY ONLY <1>1, j \in Jobs, PushExtends
  <2> QED BY <1>4, <2>1 DEF QueueFacts, Order
<1> QED BY <1>1, <1>2, <1>3, <1>4 DEF AddJob, QueueFacts, QueueTypeOK, Order

LEMMA GetJobStep ==
  ASSUME QueueFacts, NEW r \in Runners, GetJob(r), \A u \in Runners : job[u] = None
  PROVE  QueueFacts'
<1>1. /\ job_queue_ \in Seq(Jobs) /\ ran \in Seq(Jobs) /\ added \in Seq(Jobs)
      /\ job \in [Runners -> Jobs \union {None}] /\ job_queue_ # <<>>
  BY DEF QueueFacts, QueueTypeOK, GetJob
<1>2. Head(job_queue_) \in Jobs /\ Tail(job_queue_) \in Seq(Jobs)
  BY <1>1, HeadTailProperties
<1>3. added = (ran \o <<Head(job_queue_)>>) \o Tail(job_queue_)
  BY <1>1, TakeKeepsOrder DEF QueueFacts, Order
<1> QED BY <1>1, <1>2, <1>3 DEF GetJob, QueueFacts, QueueTypeOK, Order

LEMMA RunJobStep ==
  ASSUME QueueFacts, NEW r \in Runners, RunJob(r), \A u \in Runners \ {r} : job[u] = None
  PROVE  /\ QueueFacts'
         /\ Len(ran) < Len(added) /\ ran' = Append(ran, added[Len(ran) + 1])
         /\ UNCHANGED added /\ Len(ran') = Len(ran) + 1
<1>1. /\ job_queue_ \in Seq(Jobs) /\ ran \in Seq(Jobs) /\ added \in Seq(Jobs)
      /\ job \in [Runners -> Jobs \union {None}] /\ job[r] \in Jobs
  BY DEF QueueFacts, QueueTypeOK, RunJob
<1>2. /\ Append(ran, job[r]) \in Seq(Jobs) /\ Append(ran, job[r]) = ran \o <<job[r]>>
      /\ Len(Append(ran, job[r])) = Len(ran) + 1
      /\ Append(ran, job[r])[Len(ran) + 1] = job[r]
  BY <1>1, AppendProperties, AppendIsConcat
<1>3. added = Append(ran, job[r]) \o job_queue_
  BY <1>1, <1>2 DEF RunJob, QueueFacts, Order
<1>4. Len(ran) < Len(added) /\ added[Len(ran) + 1] = job[r]
  BY <1>1, <1>2, <1>3, ConcatProperties, LenProperties
<1>5. QueueFacts'
  BY <1>1, <1>2, <1>3 DEF RunJob, QueueFacts, QueueTypeOK, Order
<1> QED BY <1>2, <1>4, <1>5 DEF RunJob

\* With nothing in hand and nothing queued, all was executed.
LEMMA DrainedIsComplete ==
  ASSUME QueueFacts, job_queue_ = <<>>, \A r \in Runners : job[r] = None
  PROVE  ran = added
BY ConcatEmptySeq DEF QueueFacts, QueueTypeOK, Order

-----------------------------------------------------------------------------
(* IInv *)

\* Who has a job in hand: nobody else while a thread is in do_jobs, nobody else
\* while the owner flushes.
LEMMA OneHand ==
  ASSUME IInv
  PROVE  /\ \A t \in Created : tpc[t] \in {"flush", "jobs"}
                                 => \A u \in Runners \ {t} : job[u] = None
         /\ opc = "base_flush" => \A u \in Runners \ {Owner} : job[u] = None
<1>1. ASSUME NEW t \in Created, tpc[t] \in {"flush", "jobs"}, NEW u \in Runners \ {t}
      PROVE  job[u] = None
  <2>1. Live(t) /\ t = thread
    BY <1>1 DEF IInv, Lifecycle, Live
  <2>2. CASE u \in Created
    <3>1. ~Live(u)
      BY <1>1, <2>1, <2>2 DEF IInv, Lifecycle
    <3> QED BY <2>2, <3>1 DEF IInv, Hands, Live
  <2>3. CASE u = Owner
    <3>1. opc # "base_flush"
      BY <2>1 DEF IInv, Lifecycle, Joining
    <3> QED BY <2>3, <3>1 DEF IInv, Hands
  <2> QED BY <1>1, <2>2, <2>3
<1>2. ASSUME opc = "base_flush", NEW u \in Runners \ {Owner}
      PROVE  job[u] = None
  <2>1. u \in Created /\ ~running /\ opc \notin Joining
    BY <1>2 DEF IInv, Lifecycle, Joining
  <2>2. ~Live(u)
    BY <2>1 DEF IInv, Lifecycle
  <2> QED BY <2>1, <2>2 DEF IInv, Hands, Live
<1> QED BY <1>1, <1>2

LEMMA InitIInv == Init => IInv
<1> SUFFICES ASSUME Init PROVE IInv
  OBVIOUS
<1>1. <<>> \in Seq(Jobs) /\ <<>> \o <<>> = <<>> /\ Len(<<>>) = 0
  BY EmptySeq, ConcatEmptySeq
<1>2. TypeOK
  <2>1. QueueTypeOK
    BY <1>1 DEF Init, QueueInit, QueueTypeOK
  <2>2. thread \in 0..MaxStarts /\ opc \notin Joining
    BY DEF Init, Joining
  <2> QED BY <2>1, <2>2 DEF Init, TypeOK
<1>3. Lifecycle /\ Hands
  BY DEF Init, QueueInit, Lifecycle, Hands, Live, Joining
<1>4. Order /\ Earlier
  BY <1>1 DEF Init, QueueInit, Order, Earlier, SetupSeesEarlierCalls
<1> QED BY <1>2, <1>3, <1>4 DEF IInv

\* The steps of the owner and of the deferring threads that leave tpc alone or
\* start a thread, and the steps of a thread, each with the part it disturbs.
LEMMA StepIInv == IInv /\ [Next]_vars => IInv'
<1> SUFFICES ASSUME IInv, [Next]_vars PROVE IInv'
  OBVIOUS
<1> USE DEF Live, Joining
<1>q. QueueFacts
  BY DEF IInv, TypeOK, QueueFacts
<1>u. ASSUME UNCHANGED queueVars PROVE QueueFacts' /\ Len(added') = Len(added) /\ UNCHANGED <<job, ran>>
  BY <1>q, <1>u DEF queueVars, QueueFacts, QueueTypeOK, Order
<1>n. Len(added) \in Nat /\ Len(ran) \in Nat
  BY LenProperties DEF IInv, TypeOK, QueueTypeOK
<1>1. ASSUME NEW j \in Jobs, Defer(j) PROVE IInv'
  <2>1. QueueFacts' /\ Len(added') = Len(added) + 1
    BY <1>1, <1>q, AddJobStep DEF Defer
  <2> QED BY <1>1, <1>n, <2>1 DEF Defer, AddJob, IInv, TypeOK, QueueFacts, Lifecycle, Hands,
                Earlier, SetupSeesEarlierCalls
<1>2. CASE Start
  <2>1. QueueFacts' /\ Len(added') = Len(added) /\ UNCHANGED <<job, ran>>
    BY <1>2, <1>u DEF Start
  <2>2. thread' \in Created /\ \A t \in Created : ~Live(t)
    BY <1>2 DEF Start, IInv, TypeOK, Lifecycle, Created
  <2>3. TypeOK'
    BY <1>2, <1>n, <2>1, <2>2 DEF Start, FirstPlace, IInv, TypeOK, QueueFacts, Created
  <2>4. Lifecycle' /\ Hands'
    BY <1>2, <2>1, <2>2 DEF Start, FirstPlace, IInv, TypeOK, Lifecycle, Hands
  <2>5. Earlier'
    BY <1>2, <1>n, <2>1, <2>2 DEF Start, FirstPlace, IInv, TypeOK, Earlier, SetupSeesEarlierCalls
  <2> QED BY <2>1, <2>3, <2>4, <2>5 DEF IInv, QueueFacts
<1>3. ASSUME UNCHANGED <<queueVars, thread, tpc, early>>,
             \/ StopAt("idle", "join", "idle") \/ JoinAt("join", "idle")
             \/ StopAt("derived_stop", "derived_join", "derived_free")
             \/ JoinAt("derived_join", "derived_free")
             \/ StopAt("base_stop", "base_join", "base_flush")
             \/ JoinAt("base_join", "base_flush")
             \/ FreeDerived \/ BeginDelete
      PROVE IInv'
  <2>1. QueueFacts' /\ Len(added') = Len(added) /\ UNCHANGED <<job, ran>>
    BY <1>3, <1>u
  <2>2. Earlier'
    BY <1>3, <2>1 DEF IInv, Earlier, SetupSeesEarlierCalls
  <2>3. TypeOK' /\ Lifecycle'
    <3>1. CASE StopAt("idle", "join", "idle")
      BY <1>3, <2>1, <3>1 DEF StopAt, IInv, TypeOK, QueueFacts, Lifecycle
    <3>2. CASE JoinAt("join", "idle")
      BY <1>3, <2>1, <3>2 DEF JoinAt, IInv, TypeOK, QueueFacts, Lifecycle
    <3>3. CASE StopAt("derived_stop", "derived_join", "derived_free")
      BY <1>3, <2>1, <3>3 DEF StopAt, IInv, TypeOK, QueueFacts, Lifecycle
    <3>4. CASE JoinAt("derived_join", "derived_free")
      BY <1>3, <2>1, <3>4 DEF JoinAt, IInv, TypeOK, QueueFacts, Lifecycle
    <3>5. CASE StopAt("base_stop", "base_join", "base_flush")
      BY <1>3, <2>1, <3>5 DEF StopAt, IInv, TypeOK, QueueFacts, Lifecycle
    <3>6. CASE JoinAt("base_join", "base_flush")
      BY <1>3, <2>1, <3>6 DEF JoinAt, IInv, TypeOK, QueueFacts, Lifecycle
    <3>7. CASE FreeDerived
      BY <1>3, <2>1, <3>7 DEF FreeDerived, IInv, TypeOK, QueueFacts, Lifecycle
    <3>8. CASE BeginDelete
      BY <1>3, <2>1, <3>8 DEF BeginDelete, FirstDestructorStep, IInv, TypeOK, QueueFacts, Lifecycle
    <3> QED BY <1>3, <3>1, <3>2, <3>3, <3>4, <3>5, <3>6, <3>7, <3>8
  <2>4. Hands'
    BY <1>3, <2>1 DEF StopAt, JoinAt, FreeDerived, BeginDelete, IInv, Hands
  <2> QED BY <2>1, <2>2, <2>3, <2>4 DEF IInv, QueueFacts
<1>4. CASE FlushQueue
  <2> USE <1>4 DEF FlushQueue
  <2>1. opc = "base_flush" /\ \A u \in Runners \ {Owner} : job[u] = None
    BY OneHand
  <2>2. CASE GetJob(Owner) /\ UNCHANGED opc
    <3>1. QueueFacts'
      BY <1>q, <2>1, <2>2, GetJobStep DEF GetJob
    <3> QED BY <2>1, <2>2, <3>1 DEF GetJob, IInv, TypeOK, QueueFacts, Lifecycle, Hands, Earlier,
                  SetupSeesEarlierCalls, QueueTypeOK
  <2>3. CASE RunJob(Owner) /\ UNCHANGED opc
    <3>1. QueueFacts' /\ UNCHANGED added /\ Len(ran') = Len(ran) + 1
      BY <1>q, <2>1, <2>3, RunJobStep
    <3> QED BY <1>n, <2>1, <2>3, <3>1 DEF RunJob, IInv, TypeOK, QueueFacts, Lifecycle, Hands,
                  Earlier, SetupSeesEarlierCalls, QueueTypeOK
  <2>4. CASE NoMoreJobs(Owner) /\ opc' = "gone" /\ UNCHANGED queueVars
    <3>1. QueueFacts' /\ Len(added') = Len(added) /\ UNCHANGED <<job, ran>>
      BY <1>u, <2>4
    <3> QED BY <2>1, <2>4, <3>1 DEF NoMoreJobs, IInv, TypeOK, QueueFacts, Lifecycle, Hands, Earlier,
                  SetupSeesEarlierCalls
  <2> QED BY <2>2, <2>3, <2>4
<1>5. ASSUME NEW t \in Created, NEW here \in {"flush", "jobs"}, NEW next \in {"setup", "loop"},
             here = "flush" <=> next = "setup", DoJobs(t, here, next)
      PROVE IInv'
  <2> USE <1>5 DEF DoJobs, At, ThreadTo
  <2>1. tpc[t] = here /\ \A u \in Runners \ {t} : job[u] = None
    BY OneHand
  <2>2. CASE GetJob(t) /\ ThreadTo(t, here)
    <3>1. QueueFacts'
      BY <1>q, <2>1, <2>2, GetJobStep DEF GetJob
    <3>2. tpc' = tpc
      BY <2>1, <2>2 DEF IInv, TypeOK
    <3> QED BY <2>1, <2>2, <3>1, <3>2 DEF GetJob, IInv, TypeOK, QueueFacts, Lifecycle, Hands, Earlier,
                  SetupSeesEarlierCalls, QueueTypeOK
  <2>3. CASE RunJob(t) /\ ThreadTo(t, here)
    <3>1. QueueFacts' /\ UNCHANGED added /\ Len(ran') = Len(ran) + 1
      BY <1>q, <2>1, <2>3, RunJobStep
    <3>2. tpc' = tpc
      BY <2>1, <2>3 DEF IInv, TypeOK
    <3> QED BY <1>n, <2>1, <2>3, <3>1, <3>2 DEF RunJob, IInv, TypeOK, QueueFacts, Lifecycle, Hands,
                  Earlier, SetupSeesEarlierCalls, QueueTypeOK
  <2>4. CASE NoMoreJobs(t) /\ UNCHANGED queueVars /\ ThreadTo(t, next)
    <3>1. QueueFacts' /\ Len(added') = Len(added) /\ UNCHANGED <<job, ran, added>>
      BY <1>u, <2>4 DEF queueVars
    <3>2. ran = added
      BY <1>q, <2>1, <2>4, DrainedIsComplete DEF NoMoreJobs
    <3>3. Earlier'
      BY <1>n, <2>4, <3>1, <3>2 DEF IInv, TypeOK, Earlier, SetupSeesEarlierCalls
    <3> QED BY <2>1, <2>4, <3>1, <3>3 DEF NoMoreJobs, IInv, TypeOK, QueueFacts, Lifecycle, Hands
  <2> QED BY <2>2, <2>3, <2>4
<1>6. ASSUME NEW t \in Created, ThreadSetup(t) \/ While(t) \/ ThreadLoop(t) \/ ThreadTeardown(t)
      PROVE IInv'
  <2>1. QueueFacts' /\ Len(added') = Len(added) /\ UNCHANGED <<job, ran>>
    BY <1>6, <1>u DEF ThreadSetup, While, ThreadLoop, ThreadTeardown
  <2>2. Earlier'
    BY <1>6, <2>1 DEF ThreadSetup, While, ThreadLoop, ThreadTeardown, ThreadTo, At, IInv, TypeOK,
       Earlier, SetupSeesEarlierCalls
  <2>3. TypeOK'
    BY <1>6, <2>1 DEF ThreadSetup, While, ThreadLoop, ThreadTeardown, ThreadTo, At, IInv, TypeOK, QueueFacts
  <2>4. Lifecycle' /\ Hands'
    BY <1>6, <2>1 DEF ThreadSetup, While, ThreadLoop, ThreadTeardown, ThreadTo, At, IInv, TypeOK, Lifecycle, Hands
  <2> QED BY <2>1, <2>2, <2>3, <2>4 DEF IInv, QueueFacts
<1>7. CASE UNCHANGED vars
  <2>1. QueueFacts' /\ Len(added') = Len(added) /\ UNCHANGED <<job, ran>>
    BY <1>7, <1>u DEF vars
  <2> QED BY <1>7, <2>1 DEF vars, IInv, TypeOK, QueueFacts, Lifecycle, Hands, Earlier, SetupSeesEarlierCalls
<1>8. ASSUME Stop \/ BeginDelete \/ Destructors PROVE IInv'
  BY <1>3, <1>4, <1>8 DEF Stop, Destructors, StopAt, JoinAt, FreeDerived, BeginDelete
<1>9. ASSUME NEW t \in Created, Run(t) PROVE IInv'
  BY <1>5, <1>6, <1>9 DEF Run
<1> QED BY <1>1, <1>2, <1>7, <1>8, <1>9 DEF Next, Gone

\* IInv holds in every reachable state, for any jobs and any number of starts.
THEOREM Inductive == Spec => []IInv
BY InitIInv, StepIInv, PTL DEF Spec

-----------------------------------------------------------------------------
\* Types, and a valid pthread_t whenever it is joined.
THEOREM TypeCorrect == Spec => []TypeOK
BY Inductive, PTL DEF IInv

\* However starts, stops and the delete follow each other, no two threads are
\* in _run of one object.
THEOREM OnlyOneThread == Spec => []OneThread
<1>1. IInv => OneThread
  BY DEF IInv, Lifecycle, OneThread
<1> QED BY <1>1, Inductive, PTL

\* Whoever joins, joins the one thread that may be alive.
THEOREM JoinIsOfTheLiveThread == Spec => []JoinsItsThread
<1>1. IInv => JoinsItsThread
  BY DEF IInv, Lifecycle, JoinsItsThread
<1> QED BY <1>1, Inductive, PTL

\* After a stop() nothing of _run executes until the next start().
THEOREM StopIsFinal == Spec => []StoppedMeansEnded
<1>1. IInv => StoppedMeansEnded
  BY DEF IInv, Lifecycle, StoppedMeansEnded, Joining
<1> QED BY <1>1, Inductive, PTL

\* thread_setup comes after every call deferred before its start().
THEOREM SetupIsLate == Spec => []SetupSeesEarlierCalls
BY Inductive, PTL DEF IInv, Earlier

\* A class whose destructor stops before it frees anything, as XGrabLayer's does
\* (xgrab_layer.cpp:331-340), is never run after it is destroyed.  VideoLayer is
\* not such a class: video_layer.cpp:93 deletes eos ahead of the stop().
THEOREM StoppingFirstIsSafe == ASSUME StopsFirst PROVE Spec => []NoRunAfterDestroy
<1>1. IInv => NoRunAfterDestroy
  BY StopsFirst DEF IInv, Lifecycle, NoRunAfterDestroy, Joining
<1> QED BY <1>1, Inductive, PTL

\* The deferred calls of an object are a serial FIFO service, across threads,
\* restarts and the flush of the destructor.
THEOREM DeferredCallsInOrder == Spec => DeferredCallsAreServed
<1>1. Init => Calls!Init
  BY DEF Init, QueueInit, Calls!Init
<1>2. IInv /\ [Next]_vars => [Calls!Next]_(Calls!serviceVars)
  <2> SUFFICES ASSUME IInv, [Next]_vars PROVE [Calls!Next]_(Calls!serviceVars)
    OBVIOUS
  <2> USE DEF Calls!serviceVars
  <2>q. QueueFacts
    BY DEF IInv, TypeOK, QueueFacts
  <2>1. ASSUME NEW j \in Jobs, Defer(j) PROVE Calls!Next
    BY <2>1 DEF Defer, AddJob, Calls!Next, Calls!Submit
  <2>2. CASE FlushQueue
    <3>1. opc = "base_flush" /\ \A u \in Runners \ {Owner} : job[u] = None
      BY <2>2, OneHand DEF FlushQueue
    <3>2. CASE GetJob(Owner) /\ UNCHANGED opc
      BY <3>2 DEF GetJob
    <3>3. CASE RunJob(Owner) /\ UNCHANGED opc
      BY <2>q, <3>1, <3>3, RunJobStep DEF Calls!Next, Calls!Complete
    <3>4. CASE NoMoreJobs(Owner) /\ opc' = "gone" /\ UNCHANGED queueVars
      BY <2>q, <3>1, <3>4, DrainedIsComplete DEF NoMoreJobs, queueVars, Calls!Next, Calls!Close
    <3> QED BY <2>2, <3>2, <3>3, <3>4 DEF FlushQueue
  <2>3. ASSUME NEW t \in Created, NEW here \in {"flush", "jobs"}, NEW next, DoJobs(t, here, next)
        PROVE  [Calls!Next]_(Calls!serviceVars)
    <3>1. UNCHANGED opc /\ \A u \in Runners \ {t} : job[u] = None
      BY <2>3, OneHand DEF DoJobs, At, ThreadTo
    <3>2. opc # "gone"
      BY <2>3 DEF DoJobs, At, IInv, TypeOK, Lifecycle, Live, Joining
    <3>3. CASE GetJob(t)
      BY <3>1, <3>3 DEF GetJob
    <3>4. CASE RunJob(t)
      BY <2>q, <3>1, <3>2, <3>4, RunJobStep DEF Calls!Next, Calls!Complete
    <3>5. CASE UNCHANGED queueVars
      BY <3>1, <3>5 DEF queueVars
    <3> QED BY <2>3, <3>3, <3>4, <3>5 DEF DoJobs
  <2>4. ASSUME Start \/ Stop \/ BeginDelete \/ StopAt("derived_stop", "derived_join", "derived_free")
               \/ JoinAt("derived_join", "derived_free") \/ FreeDerived
               \/ StopAt("base_stop", "base_join", "base_flush") \/ JoinAt("base_join", "base_flush")
        PROVE  UNCHANGED <<added, ran>> /\ (opc = "gone")' = (opc = "gone")
    BY <2>4 DEF Start, Stop, BeginDelete, FirstDestructorStep, StopAt, JoinAt, FreeDerived, queueVars
  <2>5. ASSUME NEW t \in Created, ThreadSetup(t) \/ While(t) \/ ThreadLoop(t) \/ ThreadTeardown(t)
        PROVE  UNCHANGED <<added, ran, opc>>
    BY <2>5 DEF ThreadSetup, While, ThreadLoop, ThreadTeardown, ThreadTo, queueVars
  <2>6. CASE UNCHANGED vars
    BY <2>6 DEF vars, queueVars
  <2> QED BY <2>1, <2>2, <2>3, <2>4, <2>5, <2>6 DEF Next, Destructors, Run, Gone
<1> QED BY <1>1, <1>2, Inductive, PTL DEF Spec, DeferredCallsAreServed, Calls!Spec
=============================================================================
