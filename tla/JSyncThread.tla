----------------------------- MODULE JSyncThread -----------------------------
(***************************************************************************)
(* JSyncThread (src/src/jsync.cpp), the base of every layer and encoder:   *)
(* a thread that can be started, stopped and started again, with a queue   *)
(* of deferred calls that any thread may fill and only this thread empties *)
(* while it lives; and its destruction, derived destructor first.          *)
(*                                                                         *)
(* start() and stop() test and set _running without a lock, so they are    *)
(* for one controlling thread, Owner: the script interpreter or the GUI.   *)
(* The deferred setters (Layer::set_position, set_zoom, set_rotate, fit)   *)
(* come from anywhere.                                                     *)
(***************************************************************************)
EXTENDS ClosureQueue, FiniteSets

CONSTANTS
  MaxStarts,   \* bound: threads that start() may create
  Owner,       \* the thread that starts, stops and deletes
  StopsFirst   \* TRUE: the derived destructor stops before it frees anything
               \* (XGrabLayer)

Created == 1..MaxStarts

ASSUME JSyncAssumption == /\ MaxStarts \in Nat \ {0}
                          /\ Owner \notin Created
                          /\ Runners = Created \union {Owner}
                          /\ StopsFirst \in BOOLEAN

VARIABLES
  running,      \* bool _running
  thread,       \* pthread_t _thread: the last thread created, 0 before any
  tpc,          \* [Created -> where the thread is in _run]
  opc,          \* where the owner is
  derived,      \* FALSE once the derived destructor has released its parts
  early         \* history: [Created -> calls deferred before its creation]

vars == <<queueVars, running, thread, tpc, opc, derived, early>>

\* Mutant: no do_jobs() ahead of thread_setup().
FirstPlaceSetup == "setup"

\* Before anything is deferred to run, _run empties the queue once.
FirstPlace == "flush"

Init == /\ QueueInit
        /\ running = FALSE
        /\ thread = 0
        /\ tpc = [t \in Created |-> "none"]
        /\ opc = "idle"
        /\ derived = TRUE
        /\ early = [t \in Created |-> 0]

\* Layer::set_position and the like, until somebody deletes the layer.
Defer(j) == /\ opc \in {"idle", "join"}
            /\ AddJob(j)
            /\ UNCHANGED <<running, thread, tpc, opc, derived, early>>

-----------------------------------------------------------------------------
(* The owner: start, stop *)

\* Mutant: start() creates a thread whatever _running says.
StartAgain == /\ opc = "idle"
              /\ thread < MaxStarts
              /\ running' = TRUE
              /\ thread' = thread + 1
              /\ tpc' = [tpc EXCEPT ![thread'] = FirstPlace]
              /\ early' = [early EXCEPT ![thread'] = Len(added)]
              /\ UNCHANGED <<queueVars, opc, derived>>

\* A start() while running returns EBUSY and changes nothing.
Start == /\ opc = "idle"
         /\ ~running
         /\ thread < MaxStarts
         /\ running' = TRUE
         /\ thread' = thread + 1
         /\ tpc' = [tpc EXCEPT ![thread'] = FirstPlace]
         /\ early' = [early EXCEPT ![thread'] = Len(added)]
         /\ UNCHANGED <<queueVars, opc, derived>>

\* stop() called at `here': clear _running and go to `join', or find it clear.
StopAt(here, join, next) ==
  /\ opc = here
  /\ running' = FALSE
  /\ opc' = IF running THEN join ELSE next
  /\ UNCHANGED <<queueVars, thread, tpc, derived, early>>

\* Mutant: stop() does not wait for the thread.
JoinNothing(join, next) == /\ opc = join
                           /\ opc' = next
                           /\ UNCHANGED <<queueVars, running, thread, tpc, derived, early>>

\* pthread_join(_thread) returns when that thread has ended.
JoinAt(join, next) ==
  /\ opc = join
  /\ tpc[thread] = "ended"
  /\ opc' = next
  /\ UNCHANGED <<queueVars, running, thread, tpc, derived, early>>

Stop == StopAt("idle", "join", "idle") \/ JoinAt("join", "idle")

-----------------------------------------------------------------------------
(* _run *)

At(t, here)       == tpc[t] = here
ThreadTo(t, next) == /\ tpc' = [tpc EXCEPT ![t] = next]
                     /\ UNCHANGED <<running, thread, opc, derived, early>>

DoJobs(t, here, next) ==
  /\ At(t, here)
  /\ \/ GetJob(t) /\ ThreadTo(t, here)
     \/ RunJob(t) /\ ThreadTo(t, here)
     \/ NoMoreJobs(t) /\ UNCHANGED queueVars /\ ThreadTo(t, next)

ThreadSetup(t) == At(t, "setup") /\ ThreadTo(t, "while") /\ UNCHANGED queueVars

\* Mutant: deferred calls are only executed ahead of the loop.
WhileNoJobs(t) == /\ At(t, "while")
                  /\ ThreadTo(t, IF running THEN "loop" ELSE "teardown")
                  /\ UNCHANGED queueVars

While(t) == /\ At(t, "while")
            /\ ThreadTo(t, IF running THEN "jobs" ELSE "teardown")
            /\ UNCHANGED queueVars

ThreadLoop(t) == At(t, "loop") /\ ThreadTo(t, "while") /\ UNCHANGED queueVars

ThreadTeardown(t) == At(t, "teardown") /\ ThreadTo(t, "ended") /\ UNCHANGED queueVars

Run(t) == \/ DoJobs(t, "flush", "setup") \/ ThreadSetup(t)
          \/ While(t) \/ DoJobs(t, "jobs", "loop") \/ ThreadLoop(t)
          \/ ThreadTeardown(t)

-----------------------------------------------------------------------------
(* delete *)

\* Mutant: the stop() of the derived destructor forgotten.
FreesAtOnce == "derived_free"

\* Where a derived destructor begins: XGrabLayer's calls close(), which stops
\* before it frees the image.  GeneratorLayer's stops nothing, and VideoLayer's
\* frees eos before it stops (video_layer.cpp:93): for what it frees first a
\* VideoLayer belongs with GeneratorLayer, and VideoLayer.tla has its DeleteEos.
FirstDestructorStep == IF StopsFirst THEN "derived_stop" ELSE "derived_free"

BeginDelete == /\ opc = "idle"
               /\ opc' = FirstDestructorStep
               /\ UNCHANGED <<queueVars, running, thread, tpc, derived, early>>

\* The derived destructors close files and free buffers, filters, parameters.
FreeDerived == /\ opc = "derived_free"
               /\ derived' = FALSE
               /\ opc' = "base_stop"
               /\ UNCHANGED <<queueVars, running, thread, tpc, early>>

\* Mutant: ~ClosureQueue without its flush.
DropQueue == /\ opc = "base_flush"
             /\ opc' = "gone"
             /\ UNCHANGED <<queueVars, running, thread, tpc, derived, early>>

\* delete deferred_calls: ~ClosureQueue executes what is left.
FlushQueue ==
  /\ opc = "base_flush"
  /\ \/ (GetJob(Owner) \/ RunJob(Owner)) /\ UNCHANGED opc
     \/ NoMoreJobs(Owner) /\ opc' = "gone" /\ UNCHANGED queueVars
  /\ UNCHANGED <<running, thread, tpc, derived, early>>

Destructors == \/ StopAt("derived_stop", "derived_join", "derived_free")
               \/ JoinAt("derived_join", "derived_free")
               \/ FreeDerived
               \/ StopAt("base_stop", "base_join", "base_flush")
               \/ JoinAt("base_join", "base_flush")
               \/ FlushQueue

Gone == opc = "gone" /\ UNCHANGED vars

-----------------------------------------------------------------------------
Next == \/ \E j \in Jobs : Defer(j)
        \/ Start \/ Stop \/ BeginDelete \/ Destructors
        \/ \E t \in Created : Run(t)
        \/ Gone

Spec == Init /\ [][Next]_vars

\* The thread runs, and whoever is inside stop() or delete goes on.  Nobody is
\* obliged to start, stop or delete.
FairSpec == /\ Spec
            /\ \A t \in Created : WF_vars(Run(t))
            /\ WF_vars(JoinAt("join", "idle"))
            /\ WF_vars(Destructors)

-----------------------------------------------------------------------------
(* Properties *)

In(j, q) == \E i \in DOMAIN q : q[i] = j

Joining == {"join", "derived_join", "base_join"}

Live(t) == tpc[t] \notin {"none", "ended"}

TypeOK == /\ QueueTypeOK
          /\ running \in BOOLEAN
          /\ thread \in 0..MaxStarts
          /\ tpc \in [Created -> {"none", "flush", "setup", "while", "jobs",
                                  "loop", "teardown", "ended"}]
          /\ opc \in {"idle", "join", "derived_stop", "derived_join",
                      "derived_free", "base_stop", "base_join", "base_flush",
                      "gone"}
          /\ derived \in BOOLEAN
          /\ early \in [Created -> Nat]
          /\ opc \in Joining => thread \in Created  \* a valid pthread_t

\* At most one thread is inside _run of the object, whatever the sequence of
\* starts and stops (jsync.cpp:50-62).
OneThread == \A t, u \in Created : Live(t) /\ Live(u) => t = u

\* stop() waits for the one thread that may be running (jsync.cpp:57-62).
JoinsItsThread == opc \in Joining => \A t \in Created : Live(t) => t = thread

\* After stop(), and before the next start(), nothing of _run executes.
StoppedMeansEnded ==
  ~running /\ opc \in {"idle", "base_flush", "gone"} => \A t \in Created : ~Live(t)

\* thread_setup() sees the effect of every call deferred before start()
\* (jsync.cpp:67-72, "the setup phase might take into account some informations
\* arrived within a deferred call while the thread was not running").
SetupSeesEarlierCalls ==
  \A t \in Created : tpc[t] = "setup" => Len(ran) >= early[t]

\* The thread does not run methods of an object whose derived part is destroyed
\* (jsync.cpp:39, "be sure we stop the thread before destroying"): true of the
\* classes whose destructor stops before it frees anything, which XGrabLayer's
\* does, and of no other (the run jsync_delete).
NoRunAfterDestroy == ~derived => \A t \in Created : ~Live(t)

\* The strengthening of the invariants above that every step preserves: the only
\* thread that can be alive is the last one created, and only while _running or
\* a join says so; a job is in the hands of nobody but a thread in do_jobs or
\* the flushing owner; and what was added is, in order, what ran, the job in
\* hand, and the queue.
Lifecycle ==
  /\ \A t \in Created : Live(t) => t = thread
  /\ running => thread \in Created /\ opc \notin Joining \union {"base_flush", "gone"}
  /\ ~running /\ opc \notin Joining => \A t \in Created : ~Live(t)
  /\ ~derived => opc \in {"base_stop", "base_join", "base_flush", "gone"}
  /\ StopsFirst => /\ opc \in {"derived_free", "base_stop"} => ~running
                   /\ opc # "base_join"

Hands == /\ \A t \in Created : job[t] # None => tpc[t] \in {"flush", "jobs"}
         /\ job[Owner] # None => opc = "base_flush"

Order == /\ \A r \in Runners : job[r] # None => added = (ran \o <<job[r]>>) \o job_queue_
         /\ (\A r \in Runners : job[r] = None) => added = ran \o job_queue_

Earlier == /\ \A t \in Created : early[t] <= Len(added)
           /\ SetupSeesEarlierCalls

IInv == TypeOK /\ Lifecycle /\ Hands /\ Order /\ Earlier

\* Across threads, restarts and the flush of the destructor, deferred calls are
\* executed once, one at a time, in the order they were made.
Calls == INSTANCE JobService WITH submitted <- added,
                                  completed <- ran,
                                  closed    <- opc = "gone"
DeferredCallsAreServed == Calls!Spec

\* A deferred call is executed, by the running thread or by the destructor, unless
\* the thread is stopped; and that stop() returns, whatever the thread is at
\* (jsync.cpp:57-82).
DeferredCallsRun ==
  \A j \in Jobs : In(j, added) ~> In(j, ran) \/ (~running /\ opc = "idle")
=============================================================================
