----------------------------- MODULE SyncClosure -----------------------------
(***************************************************************************)
(* Synchronized closures (Closure in src/src/include/closure.h) on a       *)
(* ThreadedClosureQueue.  A submitter builds a closure, adds it, and for a *)
(* synchronized one waits for its execution and deletes it; do_jobs, in    *)
(* the worker or in the destructor, executes closures, wakes the waiter of *)
(* a synchronized one and deletes the others.  The constructor takes the   *)
(* closure's mutex and only wait() gives it up, so that nobody broadcasts  *)
(* before the wait.                                                        *)
(*                                                                         *)
(* Every action is one of ThreadedClosureQueue with what the closures add, *)
(* or leaves that module's variables alone.                                *)
(***************************************************************************)
EXTENDS ThreadedClosureQueue

CONSTANT SyncJobs  \* closures built by NewSyncClosure; the others by NewClosure

ASSUME SyncAssumption == SyncJobs \subseteq Jobs

VARIABLES
  mutex,     \* [SyncJobs -> the thread that holds the closure's cond_mutex_]
  at,        \* [Producers -> where the submitter is with its closure]
  mine,      \* [Producers -> the synchronized closure it waits for]
  sig,       \* [Runners -> the closure whose waiter it is about to wake]
  freed,     \* history: closures deleted, a bag as a sequence
  early      \* history: some wait() returned without a broadcast

closureVars == <<mutex, at, mine, sig, freed, early>>
allVars     == <<vars, closureVars>>

SyncInit == /\ Init
            /\ mutex = [j \in SyncJobs |-> None]
            /\ at = [p \in Producers |-> "out"]
            /\ mine = [p \in Producers |-> None]
            /\ sig = [r \in Runners |-> None]
            /\ freed = <<>>
            /\ early = FALSE

Move(p, l) == at' = [at EXCEPT ![p] = l]
Take(j, t) == mutex[j] = None /\ mutex' = [mutex EXCEPT ![j] = t]
Release(j) == mutex' = [mutex EXCEPT ![j] = None]
Free(j)    == freed' = Append(freed, j)

-----------------------------------------------------------------------------
(* The submitter *)

\* Mutant: the constructor leaves the mutex alone.
SubmitSyncUnlocked(p, j) == /\ at[p] = "out" /\ j \in SyncJobs
                            /\ AddJobPush(p, j)
                            /\ mine' = [mine EXCEPT ![p] = j]
                            /\ Move(p, "wait")
                            /\ UNCHANGED <<mutex, sig, freed, early>>

\* NewSyncClosure, whose constructor locks, and the push of add_job.
SubmitSync(p, j) == /\ at[p] = "out" /\ j \in SyncJobs
                    /\ Take(j, p)
                    /\ AddJobPush(p, j)
                    /\ mine' = [mine EXCEPT ![p] = j]
                    /\ Move(p, "wait")
                    /\ UNCHANGED <<sig, freed, early>>

\* NewClosure and the push.
SubmitAsync(p, j) == /\ at[p] = "out" /\ j \notin SyncJobs
                     /\ AddJobPush(p, j)
                     /\ UNCHANGED closureVars

\* wait(), once add_job has returned: one pthread_cond_wait, which releases and
\* blocks in one step.
Wait(p) == /\ at[p] = "wait" /\ pc[p] = "idle"
           /\ Release(mine[p])
           /\ Move(p, "waiting")
           /\ UNCHANGED <<vars, mine, sig, freed, early>>

EarlyReturn(p) == /\ at[p] = "waiting"
                  /\ Move(p, "woken")
                  /\ early' = TRUE
                  /\ UNCHANGED <<vars, mutex, mine, sig, freed>>

WaitReturns(p) == /\ at[p] = "woken"
                  /\ Take(mine[p], p)
                  /\ Move(p, "delete")
                  /\ UNCHANGED <<vars, mine, sig, freed, early>>

\* The caller of wait() deletes; the destructor unlocks.
Delete(p) == /\ at[p] = "delete"
             /\ Release(mine[p])
             /\ Free(mine[p])
             /\ mine' = [mine EXCEPT ![p] = None]
             /\ Move(p, "out")
             /\ UNCHANGED <<vars, sig, early>>

-----------------------------------------------------------------------------
(* do_jobs and Closure::run, by the worker or by the destructor *)

IsSync(j) == j \in SyncJobs

\* Mutant: the waiter is told of the execution when the closure is taken.
RunEarlySignal(r) ==
  /\ IF job[r] = None /\ job'[r] # None /\ IsSync(job'[r])
     THEN sig' = [sig EXCEPT ![r] = job'[r]] ELSE UNCHANGED sig
  /\ freed' = IF job[r] # None /\ ~IsSync(job[r]) THEN Append(freed, job[r]) ELSE freed
  /\ UNCHANGED <<mutex, at, mine, early>>

\* Mutants: the conventions on who deletes.
RunDeletesAll(r) ==
  /\ sig' = IF job[r] # None /\ IsSync(job[r]) THEN [sig EXCEPT ![r] = job[r]] ELSE sig
  /\ freed' = IF job[r] # None THEN Append(freed, job[r]) ELSE freed
  /\ UNCHANGED <<mutex, at, mine, early>>

RunNeverDeletes(r) ==
  /\ sig' = IF job[r] # None /\ IsSync(job[r]) THEN [sig EXCEPT ![r] = job[r]] ELSE sig
  /\ UNCHANGED <<mutex, at, mine, freed, early>>

\* What follows run_() in the step that executes job[r]: the waiter of a
\* synchronized closure is to be woken, the others are deleted by do_jobs.
AfterRun(r) ==
  /\ sig' = IF job[r] # None /\ IsSync(job[r]) THEN [sig EXCEPT ![r] = job[r]] ELSE sig
  /\ freed' = IF job[r] # None /\ ~IsSync(job[r]) THEN Append(freed, job[r]) ELSE freed
  /\ UNCHANGED <<mutex, at, mine, early>>

DoJobs(r) == /\ sig[r] = None
             /\ \/ r = Worker /\ WorkerJobs
                \/ r = Deleter /\ Flush
             /\ AfterRun(r)

\* Lock the closure's mutex, broadcast, unlock: the last that run() does with
\* the closure, the queue's cond_mutex_ still held when it is the worker's.
WakeWaiter(r) ==
  /\ sig[r] # None
  /\ mutex[sig[r]] = None
  /\ at' = [p \in Producers |-> IF at[p] = "waiting" /\ mine[p] = sig[r]
                                THEN "woken" ELSE at[p]]
  /\ sig' = [sig EXCEPT ![r] = None]
  /\ UNCHANGED <<vars, mutex, mine, freed, early>>

-----------------------------------------------------------------------------
Waiting(p)   == Wait(p) \/ WaitReturns(p) \/ Delete(p)
Signalling(t) == (SignalLock(t) \/ Broadcast(t)) /\ UNCHANGED closureVars
LoopStep     == /\ FirstLock \/ TestRunning \/ CondWait \/ Wakeup \/ Leave
                /\ UNCHANGED closureVars
WorkerTurn   == LoopStep \/ DoJobs(Worker) \/ WakeWaiter(Worker)
DeleterTurn  == (Join /\ UNCHANGED closureVars) \/ DoJobs(Deleter) \/ WakeWaiter(Deleter)

\* The deadly embrace: a submitter is in the signal_() of add_job, still with the
\* mutex of its closure; the worker, which holds cond_mutex_ throughout do_jobs,
\* has executed that closure and wants its mutex for the broadcast.
Embrace == \E p \in Producers : /\ pc[p] = "signal" /\ cond_mutex_ = Worker
                                /\ sig[Worker] # None /\ sig[Worker] = mine[p]

\* Nothing more need happen: the queue is gone, or a submitter and the worker wait
\* for each other.
Stopped == /\ pc[Deleter] = "gone" \/ Embrace
           /\ UNCHANGED allVars

SyncNext == \/ \E p \in Producers, j \in Jobs : SubmitSync(p, j) \/ SubmitAsync(p, j)
            \/ \E p \in Producers : Waiting(p) \/ EarlyReturn(p)
            \/ \E t \in Signallers : Signalling(t)
            \/ WorkerTurn
            \/ DeleterTurn
            \/ (SpuriousWakeup \/ Destroy) /\ UNCHANGED closureVars
            \/ Stopped

SyncSpec == SyncInit /\ [][SyncNext]_allVars

\* The fairness of ThreadedClosureQueue, and a waiter that is woken goes on.
SyncFairSpec == /\ SyncSpec
                /\ \A t \in Signallers : WF_allVars(Signalling(t))
                /\ WF_allVars(WorkerTurn)
                /\ WF_allVars(DeleterTurn)
                /\ \A p \in Producers : WF_allVars(Waiting(p))

-----------------------------------------------------------------------------
(* Properties *)

\* wait() returns only after the method ran, so its results may be read and the
\* closure deleted (closure.h:117-127, "Run a method and wait for its
\* execution"), as long as no wait() has returned without a broadcast: the mutex
\* that the constructor takes is enough for everything else.
WokenMeansRan == ~early =>
  \A p \in Producers : at[p] = "delete" => Occurs(mine[p], ran)

\* Nobody holds a closure that was deleted, and none is deleted twice: the
\* submitter's delete and the runner's exclude each other (closure.cpp:64-67).
NoUseAfterFree == ~early =>
  /\ \A i, k \in DOMAIN freed : freed[i] = freed[k] => i = k
  /\ \A i \in DOMAIN freed :
       /\ ~Occurs(freed[i], job_queue_)
       /\ \A r \in Runners : freed[i] \notin {job[r], sig[r]}
       /\ \A p \in Producers : freed[i] # mine[p]

\* Every submitter gets out of wait() (closure.h:156, 178-183, 192), but for the
\* deadly embrace with the worker.
WaitReturnsEventually ==
  \A p \in Producers : (at[p] = "wait") ~> (at[p] = "out" \/ Embrace)

\* Whatever is added is executed and then deleted by whoever is to delete it, with
\* or without a delete of the queue, and however the broadcast falls between the
\* worker's steps (closure.h:38-39: "the execution of enqueued Closures is handled
\* automatically by an internal thread") -- but for the deadly embrace.
EveryJobRuns == \A j \in Jobs :
  Occurs(j, added) ~> (Occurs(j, ran) /\ Occurs(j, freed)) \/ early \/ Embrace

\* The destructor returns: the worker sees running_ cleared and ends.  No embrace
\* can hold it: it starts when no add_job is in progress.
DeleteReturns == (pc[Deleter] = "signal") ~> (pc[Deleter] = "gone")
=============================================================================
