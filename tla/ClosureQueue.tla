---------------------------- MODULE ClosureQueue ----------------------------
(***************************************************************************)
(* ClosureQueue (src/src/closure.cpp): a FIFO of closures behind           *)
(* job_queue_mutex_.  add_job and get_job_ do nothing but lock, touch the  *)
(* queue and unlock, and call nothing while they hold the mutex, so each   *)
(* is one action.  do_jobs is a loop of GetJob and RunJob: a closure is in *)
(* a runner's hands, outside the mutex, between the two.                   *)
(*                                                                         *)
(* The module is the part that ThreadedClosureQueue, SyncClosure and       *)
(* JSyncThread share; it has no next-state relation of its own.            *)
(***************************************************************************)
EXTENDS Naturals, Sequences

CONSTANTS
  Jobs,     \* closures, each built for one add_job
  Runners,  \* threads that may execute do_jobs
  None      \* the NULL that get_job_ returns

ASSUME NoneIsNoJob == None \notin Jobs

VARIABLES
  job_queue_,  \* std::queue<Closure *>, oldest first
  job,         \* [Runners -> the local `job' of do_jobs]
  added,       \* history: the closures pushed, in order
  ran          \* history: the closures executed, in order

queueVars == <<job_queue_, job, added, ran>>

QueueInit == /\ job_queue_ = <<>>
             /\ job = [r \in Runners |-> None]
             /\ added = <<>>
             /\ ran = <<>>

\* `new' gives every closure an address of its own.
Fresh(j) == \A i \in DOMAIN added : added[i] # j

AddJob(j) == /\ Fresh(j)
             /\ job_queue_' = Append(job_queue_, j)
             /\ added' = Append(added, j)
             /\ UNCHANGED <<job, ran>>

\* A plausible bug: get_job_ leaves the job it returns in the queue.
GetJobNoPop(r) == /\ job[r] = None
                  /\ job_queue_ # <<>>
                  /\ job' = [job EXCEPT ![r] = Head(job_queue_)]
                  /\ UNCHANGED <<job_queue_, added, ran>>

GetJob(r) == /\ job[r] = None
             /\ job_queue_ # <<>>
             /\ job' = [job EXCEPT ![r] = Head(job_queue_)]
             /\ job_queue_' = Tail(job_queue_)
             /\ UNCHANGED <<added, ran>>

\* job->run() and, for a closure that is not synchronized, the delete.
RunJob(r) == /\ job[r] # None
             /\ ran' = Append(ran, job[r])
             /\ job' = [job EXCEPT ![r] = None]
             /\ UNCHANGED <<job_queue_, added>>

\* get_job_ returned NULL: the loop of do_jobs is over.
NoMoreJobs(r) == job[r] = None /\ job_queue_ = <<>>

QueueTypeOK == /\ job_queue_ \in Seq(Jobs)
               /\ job \in [Runners -> Jobs \union {None}]
               /\ added \in Seq(Jobs)
               /\ ran \in Seq(Jobs)
=============================================================================
