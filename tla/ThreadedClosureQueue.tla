------------------------ MODULE ThreadedClosureQueue ------------------------
(***************************************************************************)
(* ThreadedClosureQueue (src/src/closure.cpp): a ClosureQueue with a       *)
(* thread of its own.  The worker keeps cond_mutex_ while it executes jobs *)
(* and gives it up only inside pthread_cond_wait; add_job pushes first and *)
(* then takes cond_mutex_ to broadcast; the destructor clears running_     *)
(* without a lock, broadcasts, joins, and the base destructor executes     *)
(* what the worker left, in the deleting thread.                           *)
(*                                                                         *)
(* The caller's side of the contract is assumed, as for any C++ object:    *)
(* `delete' starts when no add_job is in progress and none follows it.     *)
(***************************************************************************)
EXTENDS ClosureQueue, FiniteSets

CONSTANTS
  Producers,    \* threads that call add_job
  Worker,       \* the thread of jobs_loop_
  Deleter,      \* the thread that deletes the queue
  MaxSpurious   \* bound on the wakeups POSIX allows without a broadcast

Signallers == Producers \union {Deleter}
Threads    == Signallers \union {Worker}

ASSUME ThreadsAssumption == /\ Worker \notin Signallers
                            /\ Deleter \notin Producers
                            /\ None \notin Threads
                            /\ Runners = {Worker, Deleter}
ASSUME SpuriousAssumption == MaxSpurious \in Nat

VARIABLES
  running_,     \* bool running_
  cond_mutex_,  \* the thread that holds it, or None
  pc,           \* [Threads -> where the thread is]
  spurious      \* spurious wakeups so far

vars == <<queueVars, running_, cond_mutex_, pc, spurious>>

Goto(t, l) == pc' = [pc EXCEPT ![t] = l]

Lock(t)    == cond_mutex_ = None /\ cond_mutex_' = t
Unlock(t)  == cond_mutex_ = t /\ cond_mutex_' = None

\* The constructor: running_ is set before pthread_create.
Init == /\ QueueInit
        /\ running_ = TRUE
        /\ cond_mutex_ = None
        /\ pc = [t \in Threads |-> CASE t = Worker  -> "start"
                                     [] t = Deleter -> "alive"
                                     [] OTHER       -> "idle"]
        /\ spurious = 0

-----------------------------------------------------------------------------
(* add_job, and signal_ which the destructor shares *)

\* Mutant: add_job without its signal_().
AddJobSilently(p, j) == /\ pc[p] = "idle"
                        /\ pc[Deleter] = "alive"
                        /\ AddJob(j)
                        /\ UNCHANGED <<running_, cond_mutex_, pc, spurious>>

AddJobPush(p, j) == /\ pc[p] = "idle"
                    /\ pc[Deleter] = "alive"
                    /\ AddJob(j)
                    /\ Goto(p, "signal")
                    /\ UNCHANGED <<running_, cond_mutex_, spurious>>

\* Mutant: trylock, and no broadcast when somebody holds the mutex.
SignalTrylock(t) ==
  /\ pc[t] = "signal"
  /\ \/ Lock(t) /\ Goto(t, "broadcast")
     \/ cond_mutex_ # None /\ Goto(t, IF t = Deleter THEN "join" ELSE "idle")
                           /\ UNCHANGED cond_mutex_
  /\ UNCHANGED <<queueVars, running_, spurious>>

SignalLock(t) == /\ pc[t] = "signal"
                 /\ Lock(t)
                 /\ Goto(t, "broadcast")
                 /\ UNCHANGED <<queueVars, running_, spurious>>

AfterSignal(t) == IF t = Deleter THEN "join" ELSE "idle"

\* pthread_cond_broadcast and unlock: a worker in the wait is woken.
Broadcast(t) ==
  /\ pc[t] = "broadcast"
  /\ Unlock(t)
  /\ pc' = [pc EXCEPT ![t] = AfterSignal(t),
                      ![Worker] = IF @ = "waiting" THEN "woken" ELSE @]
  /\ UNCHANGED <<queueVars, running_, spurious>>

-----------------------------------------------------------------------------
(* jobs_loop_ *)

FirstLock == /\ pc[Worker] = "start"
             /\ Lock(Worker)
             /\ Goto(Worker, "while")
             /\ UNCHANGED <<queueVars, running_, spurious>>

TestRunning == /\ pc[Worker] = "while"
               /\ Goto(Worker, IF running_ THEN "do_jobs" ELSE "leave")
               /\ UNCHANGED <<queueVars, running_, cond_mutex_, spurious>>

\* The loop of do_jobs, with cond_mutex_ held throughout.
WorkerJobs == /\ pc[Worker] = "do_jobs"
              /\ \/ (GetJob(Worker) \/ RunJob(Worker)) /\ UNCHANGED pc
                 \/ NoMoreJobs(Worker) /\ Goto(Worker, "wait")
                                       /\ UNCHANGED queueVars
              /\ UNCHANGED <<running_, cond_mutex_, spurious>>

\* pthread_cond_wait gives the mutex up and blocks in one step.
CondWait == /\ pc[Worker] = "wait"
            /\ Unlock(Worker)
            /\ Goto(Worker, "waiting")
            /\ UNCHANGED <<queueVars, running_, spurious>>

SpuriousWakeup == /\ pc[Worker] = "waiting"
                  /\ spurious < MaxSpurious
                  /\ spurious' = spurious + 1
                  /\ Goto(Worker, "woken")
                  /\ UNCHANGED <<queueVars, running_, cond_mutex_>>

\* The end of pthread_cond_wait takes the mutex back.
Wakeup == /\ pc[Worker] = "woken"
          /\ Lock(Worker)
          /\ Goto(Worker, "while")
          /\ UNCHANGED <<queueVars, running_, spurious>>

Leave == /\ pc[Worker] = "leave"
         /\ Unlock(Worker)
         /\ Goto(Worker, "exited")
         /\ UNCHANGED <<queueVars, running_, spurious>>

-----------------------------------------------------------------------------
(* ~ThreadedClosureQueue, then ~ClosureQueue *)

\* Mutant: the destructor leaves running_ alone.
DestroyStillRunning == /\ pc[Deleter] = "alive"
                       /\ \A p \in Producers : pc[p] = "idle"
                       /\ Goto(Deleter, "signal")
                       /\ UNCHANGED <<queueVars, running_, cond_mutex_, spurious>>

Destroy == /\ pc[Deleter] = "alive"
           /\ \A p \in Producers : pc[p] = "idle"
           /\ running_' = FALSE
           /\ Goto(Deleter, "signal")
           /\ UNCHANGED <<queueVars, cond_mutex_, spurious>>

Join == /\ pc[Deleter] = "join"
        /\ pc[Worker] = "exited"
        /\ Goto(Deleter, "flush")
        /\ UNCHANGED <<queueVars, running_, cond_mutex_, spurious>>

\* Mutant: the base destructor does not flush.
FlushNothing == /\ pc[Deleter] = "flush"
                /\ Goto(Deleter, "gone")
                /\ UNCHANGED <<queueVars, running_, cond_mutex_, spurious>>

Flush == /\ pc[Deleter] = "flush"
         /\ \/ (GetJob(Deleter) \/ RunJob(Deleter)) /\ UNCHANGED pc
            \/ NoMoreJobs(Deleter) /\ Goto(Deleter, "gone")
                                   /\ UNCHANGED queueVars
         /\ UNCHANGED <<running_, cond_mutex_, spurious>>

\* Nothing happens to a deleted queue.
Gone == pc[Deleter] = "gone" /\ UNCHANGED vars

-----------------------------------------------------------------------------
WorkerStep == \/ FirstLock \/ TestRunning \/ WorkerJobs \/ CondWait
              \/ Wakeup \/ Leave

DeleterStep == Join \/ Flush

Next == \/ \E p \in Producers, j \in Jobs : AddJobPush(p, j)
        \/ \E t \in Signallers : SignalLock(t) \/ Broadcast(t)
        \/ WorkerStep
        \/ SpuriousWakeup
        \/ Destroy
        \/ DeleterStep
        \/ Gone

Spec == Init /\ [][Next]_vars

-----------------------------------------------------------------------------
(* Properties *)

WorkerPlaces == {"start", "while", "do_jobs", "wait", "waiting", "woken",
                 "leave", "exited"}
DeleterPlaces == {"alive", "signal", "broadcast", "join", "flush", "gone"}

\* Every variable has its type, and every thread is at a place of its own code.
TypeOK == /\ QueueTypeOK
          /\ running_ \in BOOLEAN
          /\ cond_mutex_ \in Threads \union {None}
          /\ DOMAIN pc = Threads
          /\ \A p \in Producers : pc[p] \in {"idle", "signal", "broadcast"}
          /\ pc[Worker] \in WorkerPlaces
          /\ pc[Deleter] \in DeleterPlaces
          /\ spurious \in 0..MaxSpurious

InHand(r) == IF job[r] = None THEN <<>> ELSE <<job[r]>>

\* No job is lost, duplicated or overtaken: at any moment the jobs executed,
\* then the one in the hands of the worker or of the destructor, then those
\* queued, are the jobs added, in order (closure.cpp:36-69, across the
\* hand-over from jobs_loop_ to the flush of ~ClosureQueue, closure.cpp:30).
FifoExactlyOnce ==
  added = ran \o InHand(Worker) \o InHand(Deleter) \o job_queue_

\* Jobs never overlap, although two threads execute them: before it joins and
\* flushes, the destructor has had cond_mutex_ with running_ already cleared, so
\* the worker is out of do_jobs and will not enter it again (closure.cpp:88-92).
OneJobAtATime == job[Worker] = None \/ job[Deleter] = None

\* A worker blocked in pthread_cond_wait while there is a job or a request to
\* stop has its broadcast still to come (closure.cpp:106-119, 126-129).
NoLostWakeup ==
  pc[Worker] = "waiting" /\ (job_queue_ # <<>> \/ ~running_)
    => \E t \in Signallers : pc[t] \in {"signal", "broadcast"}

\* The strengthening of the three invariants above that every step preserves.
MutexInv == /\ \A t \in Signallers : cond_mutex_ = t <=> pc[t] = "broadcast"
            /\ cond_mutex_ = Worker
                 <=> pc[Worker] \in {"while", "do_jobs", "wait", "leave"}

HandsInv == /\ job[Worker] # None => pc[Worker] = "do_jobs"
            /\ job[Deleter] # None => pc[Deleter] = "flush"

PhaseInv == /\ running_ <=> pc[Deleter] = "alive"
            /\ ~running_ => \A p \in Producers : pc[p] = "idle"
            /\ pc[Deleter] \in {"flush", "gone"} => pc[Worker] = "exited"
            /\ pc[Worker] \in {"leave", "exited"} => ~running_

\* Nothing can slip in between the worker's look at the queue and its wait:
\* who pushed or cleared running_ meanwhile is held up before the broadcast.
WakeupInv ==
  /\ pc[Worker] \in {"wait", "waiting"} /\ job_queue_ # <<>>
       => \E p \in Producers : pc[p] \in {"signal", "broadcast"}
  /\ pc[Worker] \in {"do_jobs", "wait", "waiting"} /\ ~running_
       => pc[Deleter] \in {"signal", "broadcast"}

IInv == TypeOK /\ MutexInv /\ HandsInv /\ PhaseInv /\ WakeupInv

Service == INSTANCE JobService WITH submitted <- added,
                                    completed <- ran,
                                    closed    <- pc[Deleter] = "gone"

\* The queue is a serial FIFO job service: it executes in the order of
\* submission, once, and `delete' returns only when all was executed.
ImplementsService == Service!Spec

Occurs(j, s) == \E i \in DOMAIN s : s[i] = j
=============================================================================
