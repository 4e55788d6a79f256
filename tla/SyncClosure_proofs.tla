-------------------------- MODULE SyncClosure_proofs --------------------------
(***************************************************************************)
(* Proofs about ThreadedClosureQueue, and about the closures that          *)
(* SyncClosure adds to it, for any number of producers and jobs.           *)
(*                                                                         *)
(* IInv carries the argument for the queue: cond_mutex_ is with the worker *)
(* from its test of running_ to its wait, so whoever pushed or cleared     *)
(* running_ in between is still before its broadcast.  SyncIInv carries    *)
(* the one for the closures: each is in one place, and who deletes it is   *)
(* the last that has it.                                                   *)
(***************************************************************************)
EXTENDS SyncClosure, SequenceTheorems, TLAPS

-----------------------------------------------------------------------------
(* A queue seen as what left it, what is in hand and what it still holds *)

\* add_job extends the whole history at its end.
LEMMA PushExtends ==
  ASSUME NEW S, NEW s \in Seq(S), NEW q \in Seq(S), NEW e \in S
  PROVE  s \o Append(q, e) = Append(s \o q, e)
<1>1. s \o q \in Seq(S) /\ <<e>> \in Seq(S)
  BY ConcatProperties
<1>2. Append(s \o q, e) = (s \o q) \o <<e>>
  BY <1>1, AppendIsConcat
<1>3. Append(q, e) = q \o <<e>>
  BY AppendIsConcat
<1>4. QED
  BY <1>1, <1>2, <1>3, ConcatAssociative

\* get_job_ moves the head from the queue to the hand and changes no order.
LEMMA TakeKeepsOrder ==
  ASSUME NEW S, NEW s \in Seq(S), NEW q \in Seq(S), q # <<>>
  PROVE  s \o q = (s \o <<Head(q)>>) \o Tail(q)
<1>1. Head(q) \in S /\ Tail(q) \in Seq(S)
  BY HeadTailProperties
<1>2. <<Head(q)>> \in Seq(S)
  BY <1>1
<1>3. q = <<Head(q)>> \o Tail(q)
  <2>1. <<Head(q)>> \o Tail(q) \in Seq(S)
    BY <1>1, <1>2, ConcatProperties
  <2>2. Len(<<Head(q)>> \o Tail(q)) = Len(q)
    BY <1>1, <1>2, ConcatProperties, HeadTailProperties, LenProperties, EmptySeq
  <2>3. \A i \in 1..Len(q) : (<<Head(q)>> \o Tail(q))[i] = q[i]
    BY <1>1, <1>2, ConcatProperties, HeadTailProperties, LenProperties, EmptySeq
  <2>4. QED
    BY <2>1, <2>2, <2>3, SeqEqual
<1>4. QED
  BY <1>1, <1>2, <1>3, ConcatAssociative

-----------------------------------------------------------------------------
(* IInv *)

LEMMA InitIInv == Init => IInv
BY ThreadsAssumption, SpuriousAssumption
DEF Init, QueueInit, IInv, TypeOK, QueueTypeOK, MutexInv, HandsInv, PhaseInv,
    WakeupInv, Threads, Signallers, WorkerPlaces, DeleterPlaces

USE ThreadsAssumption, NoneIsNoJob DEF Signallers, Threads

LEMMA StepIInv == IInv /\ [Next]_vars => IInv'
<1> SUFFICES ASSUME IInv, [Next]_vars PROVE IInv'
  OBVIOUS
<1> USE DEF IInv, TypeOK, QueueTypeOK, MutexInv, HandsInv, PhaseInv, WakeupInv,
            WorkerPlaces, DeleterPlaces, queueVars, Goto, Lock, Unlock
<1>1. ASSUME NEW p \in Producers, NEW j \in Jobs, AddJobPush(p, j)
      PROVE  IInv'
  BY <1>1 DEF AddJobPush, AddJob
<1>2. ASSUME NEW t \in Signallers, SignalLock(t)
      PROVE  IInv'
  BY <1>2 DEF SignalLock
<1>3. ASSUME NEW t \in Signallers, Broadcast(t)
      PROVE  IInv'
  BY <1>3 DEF Broadcast, AfterSignal
<1>4. CASE FirstLock
  BY <1>4 DEF FirstLock
<1>5. CASE TestRunning
  BY <1>5 DEF TestRunning
<1>6. CASE WorkerJobs
  <2>1. CASE GetJob(Worker) /\ UNCHANGED pc
    <3>1. Head(job_queue_) \in Jobs /\ Tail(job_queue_) \in Seq(Jobs)
      BY <2>1, HeadTailProperties DEF GetJob
    <3>2. QED
      BY <1>6, <2>1, <3>1 DEF WorkerJobs, GetJob
  <2>2. CASE RunJob(Worker) /\ UNCHANGED pc
    <3>1. Append(ran, job[Worker]) \in Seq(Jobs)
      BY <2>2, AppendProperties DEF RunJob
    <3>2. QED
      BY <1>6, <2>2, <3>1 DEF WorkerJobs, RunJob
  <2>3. CASE NoMoreJobs(Worker) /\ Goto(Worker, "wait") /\ UNCHANGED queueVars
    BY <1>6, <2>3 DEF WorkerJobs, NoMoreJobs
  <2>4. QED
    BY <1>6, <2>1, <2>2, <2>3 DEF WorkerJobs
<1>7. CASE CondWait
  BY <1>7 DEF CondWait
<1>8. CASE Wakeup
  BY <1>8 DEF Wakeup
<1>9. CASE Leave
  BY <1>9 DEF Leave
<1>10. CASE SpuriousWakeup
  BY <1>10, SpuriousAssumption DEF SpuriousWakeup
<1>11. CASE Destroy
  BY <1>11 DEF Destroy
<1>12. CASE Join
  BY <1>12 DEF Join
<1>13. CASE Flush
  <2>1. CASE GetJob(Deleter) /\ UNCHANGED pc
    <3>1. Head(job_queue_) \in Jobs /\ Tail(job_queue_) \in Seq(Jobs)
      BY <2>1, HeadTailProperties DEF GetJob
    <3>2. QED
      BY <1>13, <2>1, <3>1 DEF Flush, GetJob
  <2>2. CASE RunJob(Deleter) /\ UNCHANGED pc
    <3>1. Append(ran, job[Deleter]) \in Seq(Jobs)
      BY <2>2, AppendProperties DEF RunJob
    <3>2. QED
      BY <1>13, <2>2, <3>1 DEF Flush, RunJob
  <2>3. CASE NoMoreJobs(Deleter) /\ Goto(Deleter, "gone") /\ UNCHANGED queueVars
    BY <1>13, <2>3 DEF Flush, NoMoreJobs
  <2>4. QED
    BY <1>13, <2>1, <2>2, <2>3 DEF Flush
<1>14. CASE UNCHANGED vars
  BY <1>14 DEF vars
<1>15. QED
  BY <1>1, <1>2, <1>3, <1>4, <1>5, <1>6, <1>7, <1>8, <1>9, <1>10, <1>11,
     <1>12, <1>13, <1>14 DEF Next, WorkerStep, DeleterStep, Gone

\* IInv holds in every reachable state, whatever the producers and the jobs.
THEOREM Inductive == Spec => []IInv
BY InitIInv, StepIInv, PTL DEF Spec

\* Types, and every thread at a place of its own code (closure.cpp:73-134).
THEOREM TypeCorrect == Spec => []TypeOK
BY Inductive, PTL DEF IInv

\* Two threads execute jobs, never at the same time (closure.cpp:92, 127).
THEOREM JobsDoNotOverlap == Spec => []OneJobAtATime
<1>1. IInv => OneJobAtATime
  BY DEF IInv, HandsInv, PhaseInv, OneJobAtATime
<1>2. QED
  BY <1>1, Inductive, PTL

\* A waiting worker with something to do is about to be woken.
THEOREM WakeupsAreNotLost == Spec => []NoLostWakeup
<1>1. IInv => NoLostWakeup
  BY DEF IInv, WakeupInv, NoLostWakeup
<1>2. QED
  BY <1>1, Inductive, PTL

-----------------------------------------------------------------------------
(* FifoExactlyOnce *)

\* With one of two hands empty, the two hands are one.
Hand(v) == IF v = None THEN <<>> ELSE <<v>>

LEMMA OneHand ==
  ASSUME NEW s \in Seq(Jobs), NEW w \in Jobs \union {None},
         NEW d \in Jobs \union {None}, w = None \/ d = None
  PROVE  (s \o Hand(w)) \o Hand(d) = s \o Hand(IF w = None THEN d ELSE w)
<1>1. Hand(w) \in Seq(Jobs) /\ Hand(d) \in Seq(Jobs)
  BY EmptySeq DEF Hand
<1>2. s \o Hand(w) \in Seq(Jobs)
  BY <1>1, ConcatProperties
<1>3. CASE w = None
  BY <1>3, ConcatEmptySeq DEF Hand
<1>4. CASE d = None
  BY <1>2, <1>4, ConcatEmptySeq DEF Hand
<1>5. QED
  BY <1>3, <1>4

InHands == IF job[Worker] = None THEN job[Deleter] ELSE job[Worker]

\* FifoExactlyOnce with the two hands as one.
Fifo == added = (ran \o Hand(InHands)) \o job_queue_

LEMMA FifoIsFifo == IInv => (Fifo <=> FifoExactlyOnce)
<1> SUFFICES ASSUME IInv PROVE Fifo <=> FifoExactlyOnce
  OBVIOUS
<1>1. OneJobAtATime /\ ran \in Seq(Jobs) /\ Worker \in Runners /\ Deleter \in Runners
      /\ job \in [Runners -> Jobs \union {None}]
  BY DEF IInv, TypeOK, QueueTypeOK, HandsInv, PhaseInv, OneJobAtATime
<1>2. (ran \o Hand(job[Worker])) \o Hand(job[Deleter]) = ran \o Hand(InHands)
  BY <1>1, OneHand DEF OneJobAtATime, InHands
<1>3. QED
  BY <1>2 DEF Fifo, FifoExactlyOnce, InHand, Hand

\* add_job keeps the order.
LEMMA AddJobFifo ==
  ASSUME NEW j \in Jobs, IInv, Fifo, AddJob(j)
  PROVE  Fifo'
<1>1. ran \in Seq(Jobs) /\ job_queue_ \in Seq(Jobs) /\ InHands \in Jobs \union {None}
  BY DEF IInv, TypeOK, QueueTypeOK, InHands
<1>2. ran \o Hand(InHands) \in Seq(Jobs)
  BY <1>1, ConcatProperties, EmptySeq DEF Hand
<1>3. (ran \o Hand(InHands)) \o Append(job_queue_, j) = Append(added, j)
  BY <1>1, <1>2, PushExtends DEF Fifo
<1>4. InHands' = InHands /\ Hand(InHands)' = Hand(InHands)
  BY DEF AddJob, InHands, Hand
<1>5. QED
  BY <1>3, <1>4 DEF AddJob, Fifo

\* get_job_ by whoever finds both hands empty keeps the order.
LEMMA GetJobFifo ==
  ASSUME NEW r \in Runners, IInv, Fifo, GetJob(r),
         job[Worker] = None, job[Deleter] = None
  PROVE  Fifo'
<1>1. /\ ran \in Seq(Jobs) /\ job_queue_ \in Seq(Jobs) /\ job_queue_ # <<>>
      /\ job \in [Runners -> Jobs \union {None}]
  BY DEF IInv, TypeOK, QueueTypeOK, GetJob
<1>2. added = ran \o job_queue_
  BY <1>1, ConcatEmptySeq DEF Fifo, InHands, Hand
<1>3. Head(job_queue_) \in Jobs
  BY <1>1, HeadTailProperties
<1>4. InHands' = Head(job_queue_) /\ InHands' # None
  BY <1>1, <1>3 DEF GetJob, InHands
<1>5. added = (ran \o <<Head(job_queue_)>>) \o Tail(job_queue_)
  BY <1>1, <1>2, TakeKeepsOrder
<1>6. QED
  BY <1>4, <1>5 DEF GetJob, Fifo, Hand

\* job->run() moves the job from the hand to the executed ones.
LEMMA RunJobFifo ==
  ASSUME NEW r \in Runners, IInv, Fifo, RunJob(r)
  PROVE  Fifo'
<1>1. /\ ran \in Seq(Jobs) /\ job_queue_ \in Seq(Jobs) /\ OneJobAtATime
      /\ job \in [Runners -> Jobs \union {None}] /\ job[r] \in Jobs
  BY DEF IInv, TypeOK, QueueTypeOK, RunJob, HandsInv, PhaseInv, OneJobAtATime
<1>2. InHands = job[r] /\ InHands' = None
  BY <1>1 DEF RunJob, InHands, OneJobAtATime
<1>3. Append(ran, job[r]) = ran \o <<job[r]>> /\ Append(ran, job[r]) \in Seq(Jobs)
  BY <1>1, AppendIsConcat, AppendProperties
<1>4. ran' \o <<>> = ran'
  BY <1>3, ConcatEmptySeq DEF RunJob
<1>5. QED
  BY <1>1, <1>2, <1>3, <1>4 DEF RunJob, Fifo, Hand

\* No job is lost, duplicated or overtaken, in any number of submitters.
THEOREM JobsKeepOrder == Spec => []FifoExactlyOnce
<1>1. Init => Fifo
  BY ConcatEmptySeq, EmptySeq DEF Init, QueueInit, Fifo, Hand, InHands
<1>2. IInv /\ Fifo /\ [Next]_vars => Fifo'
  <2> SUFFICES ASSUME IInv, Fifo, [Next]_vars PROVE Fifo'
    OBVIOUS
  <2>1. ASSUME NEW p \in Producers, NEW j \in Jobs, AddJobPush(p, j)
        PROVE  Fifo'
    BY <2>1, AddJobFifo DEF AddJobPush
  <2>2. CASE WorkerJobs
    <3>1. job[Deleter] = None
      BY <2>2 DEF WorkerJobs, IInv, HandsInv, PhaseInv
    <3>2. CASE GetJob(Worker)
      BY <3>1, <3>2, GetJobFifo DEF GetJob
    <3>3. CASE RunJob(Worker)
      BY <3>3, RunJobFifo
    <3>4. CASE UNCHANGED queueVars
      BY <3>4 DEF Fifo, InHands, queueVars
    <3>5. QED
      BY <2>2, <3>2, <3>3, <3>4 DEF WorkerJobs
  <2>3. CASE Flush
    <3>1. job[Worker] = None
      BY <2>3 DEF Flush, IInv, HandsInv, PhaseInv
    <3>2. CASE GetJob(Deleter)
      BY <3>1, <3>2, GetJobFifo DEF GetJob
    <3>3. CASE RunJob(Deleter)
      BY <3>3, RunJobFifo
    <3>4. CASE UNCHANGED queueVars
      BY <3>4 DEF Fifo, InHands, queueVars
    <3>5. QED
      BY <2>3, <3>2, <3>3, <3>4 DEF Flush
  <2>4. CASE UNCHANGED queueVars
    BY <2>4 DEF Fifo, InHands, queueVars
  <2>5. QED
    BY <2>1, <2>2, <2>3, <2>4 DEF Next, WorkerStep, DeleterStep, SignalLock,
       Broadcast, FirstLock, TestRunning, CondWait, Wakeup, Leave,
       SpuriousWakeup, Destroy, Join, Gone, vars
<1>3. QED
  BY <1>1, <1>2, Inductive, FifoIsFifo, PTL DEF Spec

-----------------------------------------------------------------------------
(* Refinement *)

\* The job in hand is the oldest one added and not yet executed.
LEMMA HandIsNext ==
  ASSUME NEW r \in Runners, IInv, Fifo, job[r] # None
  PROVE  Len(ran) < Len(added) /\ added[Len(ran) + 1] = job[r]
<1>1. /\ ran \in Seq(Jobs) /\ job_queue_ \in Seq(Jobs) /\ OneJobAtATime
      /\ job \in [Runners -> Jobs \union {None}] /\ job[r] \in Jobs
  BY DEF IInv, TypeOK, QueueTypeOK, HandsInv, PhaseInv, OneJobAtATime
<1>2. Hand(InHands) = <<job[r]>>
  BY <1>1 DEF InHands, Hand, OneJobAtATime
<1>3. <<job[r]>> \in Seq(Jobs) /\ Len(<<job[r]>>) = 1
  BY <1>1
<1>4. /\ ran \o <<job[r]>> \in Seq(Jobs)
      /\ Len(ran \o <<job[r]>>) = Len(ran) + 1
      /\ (ran \o <<job[r]>>)[Len(ran) + 1] = job[r]
  BY <1>1, <1>3, ConcatProperties, LenProperties
<1>5. /\ Len(added) = Len(ran) + 1 + Len(job_queue_)
      /\ added[Len(ran) + 1] = job[r]
  BY <1>1, <1>2, <1>4, ConcatProperties, LenProperties DEF Fifo
<1>6. QED
  BY <1>1, <1>5, LenProperties

\* With nothing in hand and nothing queued, all was executed.
LEMMA DrainedIsComplete ==
  ASSUME IInv, Fifo, job[Worker] = None, job[Deleter] = None, job_queue_ = <<>>
  PROVE  ran = added
<1>1. ran \in Seq(Jobs)
  BY DEF IInv, TypeOK, QueueTypeOK
<1>2. QED
  BY <1>1, ConcatEmptySeq DEF Fifo, InHands, Hand

\* Executing a job is the service's Complete.
LEMMA RunJobCompletes ==
  ASSUME NEW r \in Runners, IInv, Fifo, RunJob(r), UNCHANGED pc, pc[Deleter] # "gone"
  PROVE  Service!Complete
BY HandIsNext DEF RunJob, Service!Complete

\* ThreadedClosureQueue implements JobService: every step of its threads is a
\* submission, a completion, the close, or invisible.
THEOREM QueueImplementsService == Spec => ImplementsService
<1>1. Init => Service!Init
  BY DEF Init, QueueInit, Service!Init
<1>2. IInv /\ Fifo /\ [Next]_vars => [Service!Next]_(Service!serviceVars)
  <2> SUFFICES ASSUME IInv, Fifo, [Next]_vars
               PROVE  [Service!Next]_(Service!serviceVars)
    OBVIOUS
  <2> USE DEF Service!serviceVars
  <2>1. ASSUME NEW p \in Producers, NEW j \in Jobs, AddJobPush(p, j)
        PROVE  Service!Next
    BY <2>1 DEF AddJobPush, AddJob, Goto, Service!Next, Service!Submit, IInv, TypeOK
  <2>2. CASE WorkerJobs
    <3>1. /\ job[Deleter] = None /\ pc[Deleter] # "gone"
          /\ (pc[Deleter] = "gone")' = (pc[Deleter] = "gone")
      BY <2>2 DEF WorkerJobs, Goto, IInv, TypeOK, HandsInv, PhaseInv
    <3>2. CASE GetJob(Worker)
      BY <3>1, <3>2 DEF GetJob
    <3>3. CASE RunJob(Worker) /\ UNCHANGED pc
      BY <3>1, <3>3, RunJobCompletes DEF Service!Next
    <3>4. CASE UNCHANGED queueVars
      BY <3>1, <3>4 DEF queueVars
    <3>5. QED
      BY <2>2, <3>2, <3>3, <3>4 DEF WorkerJobs
  <2>3. CASE Flush
    <3>1. job[Worker] = None /\ pc[Deleter] = "flush"
      BY <2>3 DEF Flush, IInv, HandsInv, PhaseInv
    <3>2. CASE GetJob(Deleter) /\ UNCHANGED pc
      BY <3>2 DEF GetJob
    <3>3. CASE RunJob(Deleter) /\ UNCHANGED pc
      BY <3>1, <3>3, RunJobCompletes DEF Service!Next
    <3>4. CASE NoMoreJobs(Deleter) /\ Goto(Deleter, "gone") /\ UNCHANGED queueVars
      BY <3>1, <3>4, DrainedIsComplete
         DEF NoMoreJobs, Goto, queueVars, Service!Next, Service!Close, IInv, TypeOK
    <3>5. QED
      BY <2>3, <3>2, <3>3, <3>4 DEF Flush
  <2>4. CASE UNCHANGED queueVars /\ ((pc[Deleter] = "gone")' = (pc[Deleter] = "gone"))
    BY <2>4 DEF queueVars
  <2>5. ASSUME NEW t \in Signallers, SignalLock(t) \/ Broadcast(t)
        PROVE  UNCHANGED queueVars /\ ((pc[Deleter] = "gone")' = (pc[Deleter] = "gone"))
    BY <2>5 DEF SignalLock, Broadcast, AfterSignal, Goto, IInv, TypeOK
  <2>6. CASE \/ FirstLock \/ TestRunning \/ CondWait \/ Wakeup \/ Leave
             \/ SpuriousWakeup \/ Destroy \/ Join \/ UNCHANGED vars
    <3>1. UNCHANGED queueVars /\ ((pc[Deleter] = "gone")' = (pc[Deleter] = "gone"))
      BY <2>6 DEF FirstLock, TestRunning, CondWait, Wakeup, Leave,
         SpuriousWakeup, Destroy, Join, vars, Goto, IInv, TypeOK
    <3>2. QED
      BY <2>4, <3>1
  <2>7. QED
    BY <2>1, <2>2, <2>3, <2>4, <2>5, <2>6 DEF Next, WorkerStep, DeleterStep, Gone
<1>3. Spec => []Fifo
  BY JobsKeepOrder, Inductive, FifoIsFifo, PTL
<1>4. QED
  BY <1>1, <1>2, <1>3, Inductive, PTL DEF Spec, ImplementsService, Service!Spec

-----------------------------------------------------------------------------
(* Closures: every one is in one place *)

\* Queued, in hand or executed: never two of these, never twice.
OnceInv ==
  /\ \A i, k \in 1 .. Len(job_queue_) : job_queue_[i] = job_queue_[k] => i = k
  /\ \A i \in 1 .. Len(job_queue_) : /\ Occurs(job_queue_[i], added)
                                     /\ ~Occurs(job_queue_[i], ran)
                                     /\ \A r \in Runners : job[r] # job_queue_[i]
  /\ \A r \in Runners : job[r] # None =>
       /\ Occurs(job[r], added) /\ ~Occurs(job[r], ran)
       /\ \A o \in Runners : job[o] = job[r] => o = r
  /\ \A j \in Jobs : Occurs(j, ran) => Occurs(j, added)

\* The submitters and their closures.
MineInv ==
  /\ at \in [Producers -> {"out", "wait", "waiting", "woken", "delete"}]
  /\ mine \in [Producers -> SyncJobs \union {None}]
  /\ sig \in [Runners -> SyncJobs \union {None}]
  /\ freed \in Seq(Jobs) /\ early \in BOOLEAN
  /\ \A p \in Producers : /\ mine[p] = None <=> at[p] = "out"
                          /\ mine[p] # None => Occurs(mine[p], added)
  /\ \A p, q \in Producers : mine[p] = mine[q] /\ mine[p] # None => p = q

\* Somebody has it who has not been told of its execution.
Awaited(j) == \E p \in Producers : mine[p] = j /\ at[p] \in {"wait", "waiting"}

\* Who was woken is the only one left with an executed closure.
WokenInv == \A p \in Producers : at[p] \in {"woken", "delete"} =>
              Occurs(mine[p], ran) /\ \A r \in Runners : sig[r] # mine[p]

\* Who is to be woken is there, as is the submitter of what is to be executed.
ToWakeInv == \A r \in Runners : sig[r] # None =>
               /\ Occurs(sig[r], ran) /\ Awaited(sig[r])
               /\ \A o \in Runners : sig[o] = sig[r] => o = r
ToRunInv == /\ \A r \in Runners : job[r] \in SyncJobs => Awaited(job[r])
            /\ \A i \in 1 .. Len(job_queue_) :
                 job_queue_[i] \in SyncJobs => Awaited(job_queue_[i])

\* What was deleted nobody has, and nobody deletes again.
FreedInv == /\ \A i, k \in 1 .. Len(freed) : freed[i] = freed[k] => i = k
            /\ \A i \in 1 .. Len(freed) :
                 /\ Occurs(freed[i], ran)
                 /\ \A p \in Producers : mine[p] # freed[i]
                 /\ \A r \in Runners : sig[r] # freed[i]

OwnersInv == WokenInv /\ ToWakeInv /\ ToRunInv /\ FreedInv

SyncIInv == OnceInv /\ MineInv /\ (~early => OwnersInv)

\* What SyncClosure adds changes nothing of the queue: each of its steps is a
\* step of ThreadedClosureQueue or leaves it alone, so that all that is proved
\* of the queue holds of the queue under closures.
THEOREM ClosuresUseTheQueue == SyncSpec => Spec
<1>1. SyncInit => Init
  BY DEF SyncInit
<1>2. [SyncNext]_allVars => [Next]_vars
  BY DEF SyncNext, SubmitSync, SubmitAsync, Waiting, Wait, WaitReturns, Delete, EarlyReturn,
         Signalling, WorkerTurn, LoopStep, DeleterTurn, DoJobs, WakeWaiter, Stopped, allVars,
         Next, WorkerStep, DeleterStep
<1>3. QED
  BY <1>1, <1>2, PTL DEF SyncSpec, Spec

LEMMA OccursInAppend ==
  ASSUME NEW s \in Seq(Jobs), NEW e \in Jobs, NEW j
  PROVE  Occurs(j, Append(s, e)) <=> Occurs(j, s) \/ j = e
<1>1. /\ Len(s) \in Nat /\ DOMAIN s = 1 .. Len(s)
      /\ DOMAIN Append(s, e) = 1 .. Len(s) + 1
      /\ \A i \in 1 .. Len(s) : Append(s, e)[i] = s[i]
      /\ Append(s, e)[Len(s) + 1] = e
  BY AppendProperties, LenProperties
<1>2. \A i \in 1 .. Len(s) + 1 : i \in 1 .. Len(s) \/ i = Len(s) + 1
  BY <1>1
<1>3. 1 .. Len(s) \subseteq 1 .. Len(s) + 1 /\ Len(s) + 1 \in 1 .. Len(s) + 1
  BY <1>1
<1>4. QED
  BY <1>1, <1>2, <1>3 DEF Occurs

LEMMA TailValues ==
  ASSUME NEW s \in Seq(Jobs), s # <<>>
  PROVE  /\ Tail(s) \in Seq(Jobs) /\ Len(s) \in Nat /\ Len(Tail(s)) = Len(s) - 1
         /\ 1 \in 1 .. Len(s) /\ Head(s) = s[1]
         /\ \A i \in 1 .. Len(Tail(s)) : i + 1 \in 1 .. Len(s) /\ Tail(s)[i] = s[i + 1]
BY HeadTailProperties, LenProperties, EmptySeq

\* add_job with a closure of its own.
LEMMA OnceAdded ==
  ASSUME NEW j \in Jobs, QueueTypeOK, OnceInv, AddJob(j)
  PROVE  OnceInv'
<1>1. /\ job_queue_ \in Seq(Jobs) /\ added \in Seq(Jobs) /\ ~Occurs(j, added)
      /\ UNCHANGED <<job, ran>>
  BY DEF QueueTypeOK, AddJob, Fresh, Occurs
<1>2. \A k : Occurs(k, added') <=> Occurs(k, added) \/ k = j
  BY <1>1, OccursInAppend DEF AddJob
<1>3. /\ Len(job_queue_) \in Nat /\ Len(job_queue_') = Len(job_queue_) + 1
      /\ \A i \in 1 .. Len(job_queue_) : job_queue_'[i] = job_queue_[i]
      /\ job_queue_'[Len(job_queue_) + 1] = j
  BY <1>1, AppendProperties, LenProperties DEF AddJob
<1>4. \A i \in 1 .. Len(job_queue_') : i \in 1 .. Len(job_queue_) \/ i = Len(job_queue_) + 1
  BY <1>3
<1>5. ~Occurs(j, ran) /\ \A r \in Runners : job[r] # j
  BY <1>1, NoneIsNoJob DEF OnceInv
<1>6. \A i \in 1 .. Len(job_queue_) : job_queue_[i] # j
  BY <1>1 DEF OnceInv
<1>7. \A k : Occurs(k, ran') <=> Occurs(k, ran)
  BY <1>1 DEF Occurs
<1>8. QED
  BY <1>1, <1>2, <1>3, <1>4, <1>5, <1>6, <1>7 DEF OnceInv

\* get_job_.
LEMMA OnceTaken ==
  ASSUME NEW r \in Runners, QueueTypeOK, OnceInv, GetJob(r)
  PROVE  OnceInv'
<1>1. /\ job_queue_ \in Seq(Jobs) /\ job_queue_ # <<>> /\ UNCHANGED <<added, ran>>
      /\ job_queue_' = Tail(job_queue_) /\ job[r] = None
      /\ job' = [job EXCEPT ![r] = job_queue_[1]]
      /\ job \in [Runners -> Jobs \union {None}]
  BY TailValues DEF QueueTypeOK, GetJob
<1>2. /\ Len(job_queue_) \in Nat /\ 1 \in 1 .. Len(job_queue_)
      /\ \A i \in 1 .. Len(job_queue_') : /\ i + 1 \in 1 .. Len(job_queue_) /\ i + 1 # 1
                                          /\ job_queue_'[i] = job_queue_[i + 1]
      /\ \A i, k \in 1 .. Len(job_queue_') : i + 1 = k + 1 => i = k
  BY <1>1, TailValues
<1>3. \A k : (Occurs(k, ran') <=> Occurs(k, ran)) /\ (Occurs(k, added') <=> Occurs(k, added))
  BY <1>1 DEF Occurs
<1>4. /\ Occurs(job_queue_[1], added) /\ ~Occurs(job_queue_[1], ran)
      /\ \A o \in Runners : job[o] # job_queue_[1]
      /\ \A i \in 1 .. Len(job_queue_') : job_queue_'[i] # job_queue_[1]
  BY <1>2 DEF OnceInv
<1>5. \A o \in Runners : job'[o] = IF o = r THEN job_queue_[1] ELSE job[o]
  BY <1>1
<1>6. \A i, k \in 1 .. Len(job_queue_') : job_queue_'[i] = job_queue_'[k] => i = k
  BY <1>2 DEF OnceInv
<1>7. \A i \in 1 .. Len(job_queue_') : /\ Occurs(job_queue_'[i], added)
                                       /\ ~Occurs(job_queue_'[i], ran)
                                       /\ \A o \in Runners : job'[o] # job_queue_'[i]
  BY <1>2, <1>4, <1>5 DEF OnceInv
<1>8. QED
  BY <1>3, <1>4, <1>5, <1>6, <1>7 DEF OnceInv

\* job->run().
LEMMA OnceRun ==
  ASSUME NEW r \in Runners, QueueTypeOK, OnceInv, RunJob(r)
  PROVE  /\ OnceInv'
         /\ \A k : Occurs(k, ran') <=> Occurs(k, ran) \/ k = job[r]
<1>1. /\ UNCHANGED <<job_queue_, added>> /\ ran' = Append(ran, job[r])
      /\ job' = [job EXCEPT ![r] = None] /\ ran \in Seq(Jobs)
      /\ job \in [Runners -> Jobs \union {None}] /\ job[r] \in Jobs /\ job[r] # None
  BY DEF QueueTypeOK, RunJob
<1>2. \A k : Occurs(k, ran') <=> Occurs(k, ran) \/ k = job[r]
  BY <1>1, OccursInAppend
<1>3. \A k : Occurs(k, added') <=> Occurs(k, added)
  BY <1>1 DEF Occurs
<1>4. \A o \in Runners : job'[o] = IF o = r THEN None ELSE job[o]
  BY <1>1
<1>5. \A i \in 1 .. Len(job_queue_) : job_queue_[i] # None
  BY <1>1, ElementOfSeq, NoneIsNoJob DEF QueueTypeOK
<1>6. QED
  BY <1>1, <1>2, <1>3, <1>4, <1>5 DEF OnceInv

LEMMA InitSyncIInv == SyncInit => SyncIInv
<1> SUFFICES ASSUME SyncInit PROVE SyncIInv
  OBVIOUS
<1>1. /\ job_queue_ = <<>> /\ Len(job_queue_) = 0 /\ freed = <<>> /\ Len(freed) = 0
      /\ freed \in Seq(Jobs) /\ job = [r \in Runners |-> None]
      /\ \A j : ~Occurs(j, ran)
  BY EmptySeq DEF SyncInit, Init, QueueInit, Occurs
<1>2. OnceInv
  BY <1>1 DEF OnceInv
<1>3. MineInv
  BY <1>1 DEF SyncInit, MineInv
<1>4. OwnersInv
  <2>1. /\ at = [p \in Producers |-> "out"] /\ mine = [p \in Producers |-> None]
        /\ sig = [r \in Runners |-> None] /\ None \notin SyncJobs
    BY SyncAssumption, NoneIsNoJob DEF SyncInit
  <2>2. QED
    BY <1>1, <2>1 DEF OwnersInv, WokenInv, ToWakeInv, ToRunInv, FreedInv
<1>5. QED
  BY <1>2, <1>3, <1>4 DEF SyncIInv

-----------------------------------------------------------------------------
(* The submitters' steps *)

\* NewSyncClosure and the push.
LEMMA SubmitSyncKeeps ==
  ASSUME NEW p \in Producers, NEW j \in Jobs, QueueTypeOK, SyncIInv, SubmitSync(p, j)
  PROVE  SyncIInv'
<1>1. /\ AddJob(j) /\ j \in SyncJobs /\ j # None /\ at[p] = "out"
      /\ mine' = [mine EXCEPT ![p] = j] /\ at' = [at EXCEPT ![p] = "wait"]
      /\ UNCHANGED <<sig, freed, early>>
  BY NoneIsNoJob DEF SubmitSync, AddJobPush, Move
<1>2. OnceInv'
  BY <1>1, OnceAdded DEF SyncIInv
<1>3. /\ ~Occurs(j, added) /\ UNCHANGED <<job, ran>> /\ job_queue_ \in Seq(Jobs)
      /\ job_queue_' = Append(job_queue_, j)
  BY <1>1 DEF AddJob, Fresh, Occurs, QueueTypeOK
<1>4. \A k : (Occurs(k, added') <=> Occurs(k, added) \/ k = j) /\ (Occurs(k, ran') <=> Occurs(k, ran))
  BY <1>1, OccursInAppend DEF AddJob, QueueTypeOK
<1>5. \A q \in Producers : /\ mine'[q] = IF q = p THEN j ELSE mine[q]
                           /\ at'[q] = IF q = p THEN "wait" ELSE at[q]
  BY <1>1 DEF SyncIInv, MineInv
<1>6. \A q \in Producers : mine[q] # j
  BY <1>1, <1>3 DEF SyncIInv, MineInv
<1>7. MineInv'
  <2>1. \A q \in Producers : /\ mine'[q] = None <=> at'[q] = "out"
                             /\ mine'[q] # None => Occurs(mine'[q], added')
    BY <1>1, <1>4, <1>5 DEF SyncIInv, MineInv
  <2>2. \A q, o \in Producers : mine'[q] = mine'[o] /\ mine'[q] # None => q = o
    BY <1>5, <1>6 DEF SyncIInv, MineInv
  <2>3. QED
    BY <1>1, <2>1, <2>2 DEF SyncIInv, MineInv
<1>8. ASSUME ~early PROVE OwnersInv'
  <2>1. OwnersInv /\ mine[p] = None
    BY <1>1, <1>8 DEF SyncIInv, MineInv
  <2>2. \A k : k # None /\ Awaited(k) => Awaited(k)'
    BY <1>5, <2>1 DEF Awaited
  <2>3. Awaited(j)'
    BY <1>5 DEF Awaited
  <2>4. ~Occurs(j, ran)
    BY <1>1, <1>3 DEF SyncIInv, OnceInv
  <2>5. \A r \in Runners : sig[r] # j
    BY <1>1, <2>1, <2>4 DEF OwnersInv, ToWakeInv
  <2>6. \A i \in 1 .. Len(freed) : freed[i] # j
    BY <2>1, <2>4 DEF OwnersInv, FreedInv
  <2>7. WokenInv'
    BY <1>1, <1>4, <1>5, <2>1 DEF OwnersInv, WokenInv
  <2>8. ToWakeInv'
    BY <1>1, <1>4, <2>1, <2>2 DEF OwnersInv, ToWakeInv
  <2>9. ToRunInv'
    <3>1. \A r \in Runners : job[r] \in SyncJobs => Awaited(job[r])'
      BY <1>3, <2>1, <2>2, NoneIsNoJob, SyncAssumption DEF OwnersInv, ToRunInv
    <3>2. ASSUME NEW i \in 1 .. Len(job_queue_'), NEW k, k = job_queue_'[i], k \in SyncJobs
          PROVE  Awaited(k)'
      <4>1. CASE i \in 1 .. Len(job_queue_)
        <5>1. job_queue_[i] = k /\ k # None
          BY <4>1, <3>2, <1>3, AppendProperties, ElementOfSeq, NoneIsNoJob
        <5>2. QED
          BY <3>2, <4>1, <5>1, <2>1, <2>2 DEF OwnersInv, ToRunInv
      <4>2. CASE i \notin 1 .. Len(job_queue_)
        <5>1. k = j
          BY <4>2, <3>2, <1>3, AppendProperties, LenProperties
        <5>2. QED
          BY <5>1, <2>3
      <4>3. QED
        BY <4>1, <4>2
    <3>3. QED
      BY <1>3, <3>1, <3>2 DEF ToRunInv
  <2>10. FreedInv'
    BY <1>1, <1>4, <1>5, <2>1, <2>6 DEF OwnersInv, FreedInv
  <2>11. QED
    BY <2>7, <2>8, <2>9, <2>10 DEF OwnersInv
<1>9. QED
  BY <1>1, <1>2, <1>7, <1>8 DEF SyncIInv

\* NewClosure and the push.
LEMMA SubmitAsyncKeeps ==
  ASSUME NEW p \in Producers, NEW j \in Jobs, QueueTypeOK, SyncIInv, SubmitAsync(p, j)
  PROVE  SyncIInv'
<1>1. AddJob(j) /\ j \notin SyncJobs /\ UNCHANGED <<at, mine, sig, freed, early>>
  BY DEF SubmitAsync, AddJobPush, closureVars
<1>2. OnceInv'
  BY <1>1, OnceAdded DEF SyncIInv
<1>3. /\ UNCHANGED <<job, ran>> /\ job_queue_ \in Seq(Jobs)
      /\ job_queue_' = Append(job_queue_, j)
  BY <1>1 DEF AddJob, QueueTypeOK
<1>4. \A k : Occurs(k, added') <=> Occurs(k, added) \/ k = j
  BY <1>1, OccursInAppend DEF AddJob, QueueTypeOK
<1>5. MineInv'
  BY <1>1, <1>4 DEF SyncIInv, MineInv
<1>6. ASSUME OwnersInv PROVE OwnersInv'
  <2>1. \A k : Awaited(k) => Awaited(k)'
    BY <1>1 DEF Awaited
  <2>2. WokenInv' /\ ToWakeInv' /\ FreedInv'
    BY <1>1, <1>3, <1>6, <2>1 DEF OwnersInv, WokenInv, ToWakeInv, FreedInv
  <2>3. ASSUME NEW i \in 1 .. Len(job_queue_'), NEW k, k = job_queue_'[i], k \in SyncJobs
        PROVE  Awaited(k)'
    <3>1. i \in 1 .. Len(job_queue_) /\ job_queue_[i] = k
      BY <2>3, <1>1, <1>3, AppendProperties, LenProperties
    <3>2. QED
      BY <2>3, <3>1, <1>6, <2>1 DEF OwnersInv, ToRunInv
  <2>4. ToRunInv'
    BY <1>3, <1>6, <2>1, <2>3 DEF OwnersInv, ToRunInv
  <2>5. QED
    BY <2>2, <2>4 DEF OwnersInv
<1>7. QED
  BY <1>1, <1>2, <1>5, <1>6 DEF SyncIInv

\* wait().
LEMMA WaitKeeps ==
  ASSUME NEW p \in Producers, SyncIInv, Wait(p) \/ EarlyReturn(p) \/ WaitReturns(p)
  PROVE  SyncIInv'
<1>1. UNCHANGED <<job_queue_, job, added, ran, mine, sig, freed>>
  BY DEF Wait, EarlyReturn, WaitReturns, vars, queueVars
<1>2. /\ at' = [at EXCEPT ![p] = at'[p]]
      /\ \/ at[p] = "wait" /\ at'[p] = "waiting" /\ early' = early
         \/ at[p] = "waiting" /\ at'[p] = "woken" /\ early'
         \/ at[p] = "woken" /\ at'[p] = "delete" /\ early' = early
      /\ early' \in BOOLEAN
  BY DEF Wait, EarlyReturn, WaitReturns, Move, SyncIInv, MineInv
<1>3. \A q \in Producers : at'[q] = IF q = p THEN at'[p] ELSE at[q]
  BY <1>2 DEF SyncIInv, MineInv
<1>4. OnceInv' /\ MineInv'
  BY <1>1, <1>2, <1>3 DEF SyncIInv, OnceInv, MineInv
<1>5. ASSUME ~early, ~early', OwnersInv PROVE OwnersInv'
  <2>1. \A k : Awaited(k) => Awaited(k)'
    BY <1>1, <1>2, <1>3, <1>5 DEF Awaited
  <2>2. QED
    BY <1>1, <1>2, <1>3, <1>5, <2>1 DEF OwnersInv, WokenInv, ToWakeInv, ToRunInv, FreedInv
<1>6. QED
  BY <1>2, <1>4, <1>5 DEF SyncIInv

\* The delete of who waited.
LEMMA DeleteKeeps ==
  ASSUME NEW p \in Producers, QueueTypeOK, SyncIInv, Delete(p)
  PROVE  SyncIInv'
<1>1. /\ UNCHANGED <<job_queue_, job, added, ran, sig, early>>
      /\ at[p] = "delete" /\ mine[p] # None /\ mine[p] \in Jobs
      /\ at' = [at EXCEPT ![p] = "out"] /\ mine' = [mine EXCEPT ![p] = None]
      /\ freed' = Append(freed, mine[p]) /\ freed \in Seq(Jobs)
  BY SyncAssumption DEF Delete, Free, Move, vars, queueVars, SyncIInv, MineInv
<1>2. \A q \in Producers : /\ mine'[q] = IF q = p THEN None ELSE mine[q]
                           /\ at'[q] = IF q = p THEN "out" ELSE at[q]
  BY <1>1 DEF SyncIInv, MineInv
<1>3. /\ freed' \in Seq(Jobs) /\ Len(freed) \in Nat /\ Len(freed') = Len(freed) + 1
      /\ \A i \in 1 .. Len(freed') : \/ i \in 1 .. Len(freed) /\ freed'[i] = freed[i]
                                     \/ i = Len(freed) + 1 /\ freed'[i] = mine[p]
  BY <1>1, AppendProperties, LenProperties
<1>4. OnceInv' /\ MineInv'
  BY <1>1, <1>2, <1>3 DEF SyncIInv, OnceInv, MineInv
<1>5. ASSUME OwnersInv PROVE OwnersInv'
  <2>1. \A k : Awaited(k) => Awaited(k)'
    BY <1>1, <1>2 DEF Awaited
  <2>2. WokenInv' /\ ToWakeInv' /\ ToRunInv'
    BY <1>1, <1>2, <1>5, <2>1 DEF OwnersInv, WokenInv, ToWakeInv, ToRunInv
  <2>3. /\ Occurs(mine[p], ran) /\ \A r \in Runners : sig[r] # mine[p]
        /\ \A q \in Producers : q # p => mine[q] # mine[p]
        /\ \A i \in 1 .. Len(freed) : freed[i] # mine[p]
    BY <1>1, <1>5 DEF OwnersInv, WokenInv, FreedInv, SyncIInv, MineInv
  <2>4. \A i, k \in 1 .. Len(freed') : freed'[i] = freed'[k] => i = k
    BY <1>3, <1>5, <2>3 DEF OwnersInv, FreedInv
  <2>5. \A i \in 1 .. Len(freed') : /\ Occurs(freed'[i], ran)
                                    /\ \A q \in Producers : mine'[q] # freed'[i]
                                    /\ \A r \in Runners : sig[r] # freed'[i]
    <3>1. \A i \in 1 .. Len(freed') : freed'[i] \in Jobs
      BY <1>3, ElementOfSeq
    <3>2. QED
      BY <1>2, <1>3, <1>5, <2>3, <3>1, NoneIsNoJob DEF OwnersInv, FreedInv
  <2>6. FreedInv'
    BY <1>1, <2>4, <2>5 DEF FreedInv
  <2>7. QED
    BY <2>2, <2>6 DEF OwnersInv
<1>6. QED
  BY <1>1, <1>4, <1>5 DEF SyncIInv

-----------------------------------------------------------------------------
(* The runners' steps *)

\* do_jobs takes a closure.
LEMMA TakeKeeps ==
  ASSUME NEW r \in Runners, QueueTypeOK, SyncIInv, GetJob(r), AfterRun(r)
  PROVE  SyncIInv'
<1>1. /\ UNCHANGED <<added, ran, at, mine, sig, freed, early>>
      /\ job' = [job EXCEPT ![r] = job_queue_[1]] /\ job_queue_' = Tail(job_queue_)
      /\ job_queue_ \in Seq(Jobs) /\ job_queue_ # <<>>
      /\ job \in [Runners -> Jobs \union {None}]
  BY TailValues DEF GetJob, AfterRun, QueueTypeOK
<1>2. OnceInv'
  BY OnceTaken DEF SyncIInv
<1>3. MineInv'
  BY <1>1 DEF SyncIInv, MineInv
<1>4. ASSUME OwnersInv PROVE OwnersInv'
  <2>1. \A k : Awaited(k) => Awaited(k)'
    BY <1>1 DEF Awaited
  <2>2. WokenInv' /\ ToWakeInv' /\ FreedInv'
    BY <1>1, <1>4, <2>1 DEF OwnersInv, WokenInv, ToWakeInv, FreedInv
  <2>3. \A o \in Runners : job'[o] = IF o = r THEN job_queue_[1] ELSE job[o]
    BY <1>1
  <2>4. ASSUME NEW o \in Runners, NEW k, k = job'[o], k \in SyncJobs PROVE Awaited(k)'
    <3>1. 1 \in 1 .. Len(job_queue_)
      BY <1>1, TailValues
    <3>2. QED
      BY <2>1, <2>3, <2>4, <3>1, <1>4 DEF OwnersInv, ToRunInv
  <2>5. ASSUME NEW i \in 1 .. Len(job_queue_'), NEW k, k = job_queue_'[i], k \in SyncJobs
        PROVE  Awaited(k)'
    <3>1. i + 1 \in 1 .. Len(job_queue_) /\ job_queue_[i + 1] = k
      BY <1>1, <2>5, TailValues
    <3>2. QED
      BY <2>1, <2>5, <3>1, <1>4 DEF OwnersInv, ToRunInv
  <2>6. ToRunInv'
    BY <2>4, <2>5 DEF ToRunInv
  <2>7. QED
    BY <2>2, <2>6 DEF OwnersInv
<1>5. QED
  BY <1>1, <1>2, <1>3, <1>4 DEF SyncIInv

\* do_jobs executes a closure, and deletes it if nobody waits for it.
LEMMA RunKeeps ==
  ASSUME NEW r \in Runners, QueueTypeOK, SyncIInv, sig[r] = None, RunJob(r), AfterRun(r)
  PROVE  SyncIInv'
<1> DEFINE j == job[r]
<1>1. /\ UNCHANGED <<job_queue_, added, at, mine, early>>
      /\ job' = [job EXCEPT ![r] = None] /\ j \in Jobs /\ j # None
      /\ job \in [Runners -> Jobs \union {None}]
  BY DEF RunJob, AfterRun, QueueTypeOK
<1>2. /\ sig' = IF j \in SyncJobs THEN [sig EXCEPT ![r] = j] ELSE sig
      /\ freed' = IF j \notin SyncJobs THEN Append(freed, j) ELSE freed
  BY <1>1 DEF AfterRun, IsSync
<1>3. /\ OnceInv' /\ ~Occurs(j, ran)
      /\ \A k : Occurs(k, ran') <=> Occurs(k, ran) \/ k = j
  BY <1>1, OnceRun DEF SyncIInv, OnceInv
<1>4. \A o \in Runners : job'[o] = IF o = r THEN None ELSE job[o]
  BY <1>1
<1> HIDE DEF j
<1>5. /\ freed \in Seq(Jobs) /\ Len(freed) \in Nat
      /\ sig \in [Runners -> SyncJobs \union {None}]
  BY LenProperties DEF SyncIInv, MineInv
<1>6. \A o \in Runners : sig'[o] = IF o = r /\ j \in SyncJobs THEN j ELSE sig[o]
  BY <1>2, <1>5
<1>7. /\ freed' \in Seq(Jobs)
      /\ \A i \in 1 .. Len(freed') :
           \/ i \in 1 .. Len(freed) /\ freed'[i] = freed[i]
           \/ j \notin SyncJobs /\ i = Len(freed) + 1 /\ freed'[i] = j
  <2>1. CASE j \in SyncJobs
    BY <1>2, <1>5, <2>1
  <2>2. CASE j \notin SyncJobs
    BY <1>1, <1>2, <1>5, <2>2, AppendProperties, LenProperties
  <2>3. QED
    BY <2>1, <2>2
<1>8. MineInv'
  <2>1. sig' \in [Runners -> SyncJobs \union {None}]
    BY <1>2, <1>5
  <2>2. QED
    BY <1>1, <1>7, <2>1 DEF SyncIInv, MineInv
<1>9. ASSUME OwnersInv PROVE OwnersInv'
  <2>1. \A k : Awaited(k) <=> Awaited(k)'
    BY <1>1 DEF Awaited
  <2>2. j \in SyncJobs => Awaited(j)
    BY <1>9 DEF OwnersInv, ToRunInv, j
  <2>3. \A i \in 1 .. Len(freed) : freed[i] # j
    BY <1>3, <1>9 DEF OwnersInv, FreedInv
  <2>4. \A o \in Runners : sig[o] # j
    BY <1>1, <1>3, <1>9 DEF OwnersInv, ToWakeInv
  <2>5. WokenInv'
    <3>1. \A p \in Producers : at[p] \in {"woken", "delete"} => mine[p] # j
      BY <1>3, <1>9 DEF OwnersInv, WokenInv
    <3>2. QED
      BY <1>1, <1>3, <1>6, <1>9, <3>1 DEF OwnersInv, WokenInv
  <2>6. ToWakeInv'
    <3>1. ASSUME NEW o \in Runners, sig'[o] # None, NEW k, k = sig'[o]
          PROVE  /\ Occurs(k, ran') /\ Awaited(k)'
                 /\ \A q \in Runners : sig'[q] = k => q = o
      BY <1>3, <1>6, <1>9, <2>1, <2>2, <2>4, <3>1 DEF OwnersInv, ToWakeInv
    <3>2. QED
      BY <3>1 DEF ToWakeInv
  <2>7. ToRunInv'
    <3>1. ASSUME NEW o \in Runners, NEW k, k = job'[o], k \in SyncJobs PROVE Awaited(k)'
      BY <1>4, <1>9, <2>1, <3>1, NoneIsNoJob, SyncAssumption DEF OwnersInv, ToRunInv
    <3>2. QED
      BY <1>1, <1>9, <2>1, <3>1 DEF OwnersInv, ToRunInv
  <2>8. FreedInv'
    <3>1. \A i, k \in 1 .. Len(freed') : freed'[i] = freed'[k] => i = k
      BY <1>5, <1>7, <1>9, <2>3 DEF OwnersInv, FreedInv
    <3>2. j \notin SyncJobs => \A p \in Producers : mine[p] # j
      BY <1>1 DEF SyncIInv, MineInv
    <3>3. \A i \in 1 .. Len(freed') :
            /\ Occurs(freed'[i], ran')
            /\ \A p \in Producers : mine[p] # freed'[i]
            /\ \A o \in Runners : sig'[o] # freed'[i]
      BY <1>3, <1>6, <1>7, <1>9, <2>3, <2>4, <3>2 DEF OwnersInv, FreedInv
    <3>4. QED
      BY <1>1, <3>1, <3>3 DEF FreedInv
  <2>9. QED
    BY <2>5, <2>6, <2>7, <2>8 DEF OwnersInv
<1>10. QED
  BY <1>1, <1>3, <1>8, <1>9 DEF SyncIInv

\* The broadcast of Closure::run.
LEMMA WakeKeeps ==
  ASSUME NEW r \in Runners, SyncIInv, WakeWaiter(r)
  PROVE  SyncIInv'
<1>1. /\ UNCHANGED <<job_queue_, job, added, ran, mine, freed, early>>
      /\ sig' = [sig EXCEPT ![r] = None] /\ sig[r] # None
      /\ at' = [p \in Producers |-> IF at[p] = "waiting" /\ mine[p] = sig[r]
                                     THEN "woken" ELSE at[p]]
  BY DEF WakeWaiter, vars, queueVars
<1>2. \A o \in Runners : sig'[o] = IF o = r THEN None ELSE sig[o]
  BY <1>1 DEF SyncIInv, MineInv
<1>3. \A p \in Producers : at'[p] = IF at[p] = "waiting" /\ mine[p] = sig[r]
                                   THEN "woken" ELSE at[p]
  BY <1>1
<1>4. OnceInv' /\ MineInv'
  <2>1. at' \in [Producers -> {"out", "wait", "waiting", "woken", "delete"}]
    BY <1>1 DEF SyncIInv, MineInv
  <2>2. QED
    BY <1>1, <1>3, <2>1 DEF SyncIInv, OnceInv, MineInv
<1>5. ASSUME OwnersInv PROVE OwnersInv'
  <2>1. \A k : Awaited(k) /\ k # sig[r] => Awaited(k)'
    BY <1>1, <1>3 DEF Awaited
  <2>2. /\ Occurs(sig[r], ran) /\ \A o \in Runners : sig[o] = sig[r] => o = r
    BY <1>1, <1>5 DEF OwnersInv, ToWakeInv
  <2>3. WokenInv'
    BY <1>1, <1>2, <1>3, <1>5, <2>2 DEF OwnersInv, WokenInv, SyncIInv, MineInv
  <2>4. ToWakeInv'
    BY <1>1, <1>2, <1>5, <2>1, <2>2 DEF OwnersInv, ToWakeInv
  <2>5. ToRunInv'
    <3>1. /\ \A o \in Runners : job[o] # sig[r]
          /\ \A i \in 1 .. Len(job_queue_) : job_queue_[i] # sig[r]
      BY <1>1, <2>2 DEF SyncIInv, OnceInv
    <3>2. QED
      BY <1>1, <1>5, <2>1, <3>1 DEF OwnersInv, ToRunInv
  <2>6. FreedInv'
    BY <1>1, <1>2, <1>5, SyncAssumption, ElementOfSeq, NoneIsNoJob DEF OwnersInv, FreedInv, SyncIInv, MineInv
  <2>7. QED
    BY <2>3, <2>4, <2>5, <2>6 DEF OwnersInv
<1>6. QED
  BY <1>1, <1>4, <1>5 DEF SyncIInv

LEMMA UnchangedKeeps ==
  ASSUME SyncIInv, UNCHANGED <<queueVars, closureVars>>
  PROVE  SyncIInv'
BY DEF queueVars, closureVars, SyncIInv, OnceInv, MineInv, OwnersInv, WokenInv, ToWakeInv,
       ToRunInv, FreedInv, Awaited

LEMMA StepSyncIInv == QueueTypeOK /\ SyncIInv /\ [SyncNext]_allVars => SyncIInv'
<1> SUFFICES ASSUME QueueTypeOK, SyncIInv, [SyncNext]_allVars PROVE SyncIInv'
  OBVIOUS
<1>1. ASSUME NEW p \in Producers, NEW j \in Jobs, SubmitSync(p, j) \/ SubmitAsync(p, j)
      PROVE  SyncIInv'
  BY <1>1, SubmitSyncKeeps, SubmitAsyncKeeps
<1>2. ASSUME NEW p \in Producers, Waiting(p) \/ EarlyReturn(p) PROVE SyncIInv'
  BY <1>2, WaitKeeps, DeleteKeeps DEF Waiting
<1>3. ASSUME NEW r \in Runners, DoJobs(r) PROVE SyncIInv'
  <2>1. sig[r] = None /\ AfterRun(r) /\ (GetJob(r) \/ RunJob(r) \/ (NoMoreJobs(r) /\ UNCHANGED queueVars))
    BY <1>3 DEF DoJobs, WorkerJobs, Flush
  <2>2. CASE NoMoreJobs(r) /\ UNCHANGED queueVars
    BY <2>1, <2>2, UnchangedKeeps DEF NoMoreJobs, AfterRun, closureVars
  <2>3. QED
    BY <2>1, <2>2, TakeKeeps, RunKeeps
<1>4. ASSUME NEW r \in Runners, WakeWaiter(r) PROVE SyncIInv'
  BY <1>4, WakeKeeps
<1>5. CASE \/ \E t \in Signallers : Signalling(t)
           \/ LoopStep \/ (Join /\ UNCHANGED closureVars)
           \/ (SpuriousWakeup \/ Destroy) /\ UNCHANGED closureVars
           \/ Stopped \/ UNCHANGED allVars
  <2>1. UNCHANGED <<queueVars, closureVars>>
    BY <1>5 DEF Signalling, SignalLock, Broadcast, LoopStep, FirstLock, TestRunning, CondWait,
       Wakeup, Leave, Join, SpuriousWakeup, Destroy, Stopped, allVars, vars
  <2>2. QED
    BY <2>1, UnchangedKeeps
<1>6. QED
  BY <1>1, <1>2, <1>3, <1>4, <1>5 DEF SyncNext, WorkerTurn, DeleterTurn

THEOREM ClosuresHaveOneOwner == SyncSpec => []SyncIInv
<1>1. IInv => QueueTypeOK
  BY DEF IInv, TypeOK
<1>2. QED
  BY <1>1, InitSyncIInv, StepSyncIInv, ClosuresUseTheQueue, Inductive, PTL DEF SyncSpec

\* Closure::wait, "run a method and wait for its execution": who has come out
\* of it finds the method executed, unless pthread_cond_wait itself has returned
\* without a broadcast.
THEOREM WaitersFindItExecuted == SyncSpec => []WokenMeansRan
<1>1. SyncIInv => WokenMeansRan
  BY DEF SyncIInv, OwnersInv, WokenInv, WokenMeansRan
<1>2. QED
  BY <1>1, ClosuresHaveOneOwner, PTL

\* do_jobs deletes what is not synchronized and the waiter what is: never both,
\* never twice, and never what is queued, in hand or about to be signalled.
THEOREM ClosuresAreDeletedOnce == SyncSpec => []NoUseAfterFree
<1>1. IInv /\ SyncIInv => NoUseAfterFree
  <2> SUFFICES ASSUME IInv, SyncIInv, ~early PROVE NoUseAfterFree
    BY DEF NoUseAfterFree
  <2>1. /\ freed \in Seq(Jobs) /\ DOMAIN freed = 1 .. Len(freed) /\ FreedInv /\ OnceInv
        /\ job_queue_ \in Seq(Jobs) /\ DOMAIN job_queue_ = 1 .. Len(job_queue_)
    BY LenProperties DEF SyncIInv, MineInv, OwnersInv, IInv, TypeOK, QueueTypeOK
  <2>2. ASSUME NEW i \in 1 .. Len(freed)
        PROVE  /\ ~Occurs(freed[i], job_queue_)
               /\ \A r \in Runners : freed[i] \notin {job[r], sig[r]}
               /\ \A p \in Producers : freed[i] # mine[p]
    <3>1. Occurs(freed[i], ran) /\ freed[i] # None
      BY <2>1, ElementOfSeq, NoneIsNoJob DEF FreedInv
    <3>2. \A k \in DOMAIN job_queue_ : job_queue_[k] # freed[i]
      BY <2>1, <3>1 DEF OnceInv
    <3>3. \A r \in Runners : job[r] # freed[i]
      BY <2>1, <3>1 DEF OnceInv
    <3>4. ~Occurs(freed[i], job_queue_)
      BY <3>2 DEF Occurs
    <3>5. /\ \A r \in Runners : sig[r] # freed[i]
          /\ \A p \in Producers : mine[p] # freed[i]
      <4>1. \A n \in 1 .. Len(freed) : /\ \A p \in Producers : mine[p] # freed[n]
                                       /\ \A r \in Runners : sig[r] # freed[n]
        BY <2>1, Zenon DEF FreedInv
      <4>2. QED
        BY <4>1
    <3>6. QED
      BY <3>3, <3>4, <3>5
  <2>3. QED
    BY <2>1, <2>2 DEF NoUseAfterFree, FreedInv
<1>2. QED
  BY <1>1, ClosuresHaveOneOwner, ClosuresUseTheQueue, Inductive, PTL
=============================================================================
