---------------------------- MODULE EosCallbacks ----------------------------
(***************************************************************************)
(* DumbCallback and DumbCall (src/src/callback.cpp), the end-of-stream     *)
(* calls of a VideoLayer.  Three threads:                                  *)
(*   - the layer's thread executes DumbCallback::notify, which enqueues    *)
(*     every registered call and adds a job for it to dispatcher_;         *)
(*   - the dispatcher's worker executes DumbCall::notify, the callback and *)
(*     then dequeue;                                                       *)
(*   - the owner registers calls, removes them, deletes them and deletes   *)
(*     the DumbCallback.                                                   *)
(* The dispatcher is a ThreadedClosureQueue, used here as the JobService   *)
(* that it implements.                                                     *)
(*                                                                         *)
(* calls_ is a std::list that no lock protects.  What the code's callers   *)
(* must not do (remove the call the layer's thread is at, delete the       *)
(* DumbCallback during a notify) nothing prevents: it is a behaviour of    *)
(* this module, and `misused' tells that it happened; no notify starts     *)
(* after it.                                                               *)
(***************************************************************************)
EXTENDS Naturals, Sequences, SequencesExt, FiniteSets

CONSTANTS Calls,   \* DumbCall objects
          None,    \* no call
          MaxJobs  \* bound: no notify starts and no call is added after this many jobs

ASSUME EosAssumption == None \notin Calls /\ MaxJobs \in Nat

VARIABLES
  calls_,      \* registered calls
  refcount_,   \* [Calls -> calls in progress]
  pending_,    \* [Calls -> is the mutex locked?]
  submitted, completed, closed,   \* the dispatcher, as a JobService
  npc, it,     \* layer's thread: where it is in notify, its iterator
  dpc,         \* the worker: what it does of the first job
  opc, victim, \* the owner: where it is, the call it is deleting
  freed,       \* calls whose destructor has returned
  misused,     \* history: a contract nothing enforces was broken
  useAfterFree \* history: a freed call was touched

vars == <<calls_, refcount_, pending_, submitted, completed, closed, npc, it,
          dpc, opc, victim, freed, misused, useAfterFree>>

dispatcher == INSTANCE JobService WITH Jobs <- Calls
dispatcherVars == <<submitted, completed, closed>>
callVars == <<refcount_, pending_>>
notifierVars == <<npc, it>>
ownerVars == <<opc, victim>>

Waiting == SubSeq(submitted, Len(completed) + 1, Len(submitted))
Touch(c) == useAfterFree' = (useAfterFree \/ c \in freed)

Init == /\ calls_ = <<>> /\ refcount_ = [c \in Calls |-> 0]
        /\ pending_ = [c \in Calls |-> FALSE]
        /\ dispatcher!Init
        /\ npc = "idle" /\ it = None /\ dpc = "idle"
        /\ opc = "idle" /\ victim = None
        /\ freed \in SUBSET Calls  \* a call that never was is as one deleted
        /\ misused = FALSE /\ useAfterFree = FALSE

-----------------------------------------------------------------------------
\* The layer's thread: DumbCallback::notify.

NotifyBegin == /\ npc = "idle" /\ ~closed /\ ~misused /\ calls_ # <<>>
               /\ Len(submitted) < MaxJobs
               /\ npc' = "enqueue" /\ it' = Head(calls_)
               /\ misused' = (misused \/ opc = "closing")
               /\ UNCHANGED <<calls_, callVars, dispatcherVars, dpc, ownerVars,
                              freed, useAfterFree>>

\* DumbCall::enqueue.  refcount_mutex_ is held for the whole of it and nobody
\* who needs it is in the way while refcount_ is 0: it is one step, which
\* waits while a destructor has pending_.
Enqueue == /\ npc = "enqueue"
           /\ refcount_[it] = 0 => ~pending_[it]
           /\ pending_' = [pending_ EXCEPT ![it] = TRUE]
           /\ refcount_' = [refcount_ EXCEPT ![it] = @ + 1]
           /\ Touch(it)
           /\ npc' = "add"
           /\ UNCHANGED <<calls_, dispatcherVars, it, dpc, ownerVars, freed, misused>>

\* dispatcher_->add_job: on a DumbCallback that is being or has been deleted
\* there is no dispatcher to add to.
AddNotify == /\ npc = "add"
             /\ IF closed \/ opc = "closing"
                THEN misused' = TRUE /\ npc' = "idle" /\ it' = None
                     /\ UNCHANGED dispatcherVars
                ELSE dispatcher!Submit(it) /\ npc' = "next"
                     /\ UNCHANGED <<it, misused>>
             /\ UNCHANGED <<calls_, callVars, dpc, ownerVars, freed, useAfterFree>>

\* i++, on a node that may not be in the list any more.
NotifyNext ==
  /\ npc = "next"
  /\ IF Contains(calls_, it)
     THEN \E i \in DOMAIN calls_ :
            /\ calls_[i] = it
            /\ IF i = Len(calls_) THEN npc' = "idle" /\ it' = None
                                  ELSE npc' = "enqueue" /\ it' = calls_[i + 1]
            /\ UNCHANGED misused
     ELSE misused' = TRUE /\ npc' = "idle" /\ it' = None
  /\ UNCHANGED <<calls_, callVars, dispatcherVars, dpc, ownerVars, freed, useAfterFree>>

-----------------------------------------------------------------------------
\* The dispatcher's worker: DumbCall::notify of the first job.

Callback == /\ dpc = "idle" /\ Waiting # <<>>
            /\ Touch(Head(Waiting))
            /\ dpc' = "dequeue"
            /\ UNCHANGED <<calls_, callVars, dispatcherVars, notifierVars,
                           ownerVars, freed, misused>>

\* DumbCall::dequeue, and the worker is done with the job.
DequeueWith(unlocked) ==
  LET c == Head(Waiting) IN
  /\ dpc = "dequeue"
  /\ refcount_' = [refcount_ EXCEPT ![c] = @ - 1]
  /\ pending_' = IF unlocked THEN [pending_ EXCEPT ![c] = FALSE] ELSE pending_
  /\ Touch(c)
  /\ dispatcher!Complete
  /\ dpc' = "idle"
  /\ UNCHANGED <<calls_, notifierVars, ownerVars, freed, misused>>

\* Mutants of Dequeue: pending_ is unlocked by the first call that is over;
\* pending_ is never unlocked.
DequeueUnlocksAlways == DequeueWith(TRUE)
DequeueNeverUnlocks == DequeueWith(FALSE)

Dequeue == dpc = "dequeue" /\ DequeueWith(refcount_[Head(Waiting)] = 1)

-----------------------------------------------------------------------------
\* The owner.

Owns == opc = "idle" /\ ~closed

AddCall(c) == /\ Owns /\ c \notin freed /\ Len(submitted) < MaxJobs
              /\ ~Contains(calls_, c)
              /\ calls_' = Append(calls_, c)
              /\ UNCHANGED <<callVars, dispatcherVars, notifierVars, dpc, ownerVars,
                             freed, misused, useAfterFree>>

\* add_call lets no call in twice.
RemCall(c) == /\ Owns
              /\ \E i \in DOMAIN calls_ : calls_[i] = c /\ calls_' = RemoveAt(calls_, i)
              /\ misused' = (misused \/ it = c)
              /\ UNCHANGED <<callVars, dispatcherVars, notifierVars, dpc, ownerVars,
                             freed, useAfterFree>>

\* delete call: of a call that is not registered, or whose DumbCallback is gone.
DeleteCall(c) == /\ opc = "idle"
                 /\ c \notin freed /\ ~Contains(calls_, c)
                 /\ opc' = "lock" /\ victim' = c
                 /\ UNCHANGED <<calls_, callVars, dispatcherVars, notifierVars, dpc,
                                freed, misused, useAfterFree>>

\* Mutant of DestructorLocks: the destructor does not wait for pending_.
DestructorDoesNotWait ==
                   /\ opc = "lock"
                   /\ opc' = "free"
                   /\ UNCHANGED <<calls_, callVars, dispatcherVars, notifierVars,
                                  dpc, victim, freed, misused, useAfterFree>>

\* DumbCall::~DumbCall: "this blocks as far as we're in queue".
DestructorLocks == /\ opc = "lock"
                   /\ ~pending_[victim]
                   /\ pending_' = [pending_ EXCEPT ![victim] = TRUE]
                   /\ opc' = "free"
                   /\ UNCHANGED <<calls_, refcount_, dispatcherVars, notifierVars,
                                  dpc, victim, freed, misused, useAfterFree>>

DestructorFrees == /\ opc = "free"
                   /\ pending_' = [pending_ EXCEPT ![victim] = FALSE]
                   /\ freed' = freed \cup {victim}
                   /\ opc' = "idle" /\ victim' = None
                   /\ UNCHANGED <<calls_, refcount_, dispatcherVars, notifierVars,
                                  dpc, misused, useAfterFree>>

\* DumbCallback::~DumbCallback: the dispatcher's destructor has every job
\* executed, then the list is cleared.
DeleteEos == /\ Owns
             /\ opc' = "closing"
             /\ misused' = (misused \/ npc # "idle")
             /\ UNCHANGED <<calls_, callVars, dispatcherVars, notifierVars, dpc,
                            victim, freed, useAfterFree>>

EosDeleted == /\ opc = "closing" /\ dpc = "idle"
              /\ dispatcher!Close
              /\ calls_' = <<>>
              /\ opc' = "idle"
              /\ UNCHANGED <<callVars, notifierVars, dpc, victim, freed,
                             misused, useAfterFree>>

Notifier == NotifyBegin \/ Enqueue \/ AddNotify \/ NotifyNext
Worker == Callback \/ Dequeue
Destructors == DestructorLocks \/ DestructorFrees \/ EosDeleted
Owner == \/ Destructors \/ DeleteEos
         \/ \E c \in Calls : AddCall(c) \/ RemCall(c) \/ DeleteCall(c)

Next == Notifier \/ Worker \/ Owner
Spec == Init /\ [][Next]_vars

-----------------------------------------------------------------------------
TypeOK == /\ IsInjective(calls_) /\ Range(calls_) \subseteq Calls
          /\ refcount_ \in [Calls -> Nat] /\ pending_ \in [Calls -> BOOLEAN]
          /\ {Range(submitted), Range(completed)} \subseteq SUBSET Calls
          /\ {closed, misused, useAfterFree} \subseteq BOOLEAN
          /\ npc \in {"idle", "enqueue", "add", "next"} /\ it \in Calls \cup {None}
          /\ dpc \in {"idle", "dequeue"}
          /\ opc \in {"idle", "lock", "free", "closing"}
          /\ victim \in Calls \cup {None} /\ freed \subseteq Calls

\* refcount_ is the number of notifications of the call that are not over, and
\* pending_ is locked exactly while there is one, whichever threads locked and
\* unlocked it (or while the destructor has it).
RefcountIsPending == ~misused =>
  \A c \in Calls :
    /\ refcount_[c] = Cardinality({i \in DOMAIN Waiting : Waiting[i] = c})
                      + (IF npc = "add" /\ it = c THEN 1 ELSE 0)
    /\ pending_[c] <=> refcount_[c] > 0 \/ (opc = "free" /\ victim = c)

\* A call is not enqueued, executed or dequeued after its destructor returned,
\* as long as the owner does not remove the call that a notify is at.
CallsOutliveTheirJobs == ~misused => ~useAfterFree
=============================================================================
