------------------------------ MODULE OscQueue ------------------------------
(***************************************************************************)
(* The OSC controller (src/src/osc_ctrl.cpp) among the Controllers: its    *)
(* server's thread appends a command to commands_pending for every message *)
(* it handles; the engine, when it polls the controller, takes them off    *)
(* and hands the name of each to JSCall, which calls the function of that  *)
(* name of every listener.  Nothing makes a listener of an OSC controller: *)
(* no function of the script is called, and what is promised here is that  *)
(* commands are dispatched, not that the script gets them.                 *)
(*                                                                         *)
(* commands_pending is a Linklist, whose changes take its lock while len() *)
(* and begin() do not: an append is seen half done (linked, but not yet of *)
(* the list, nor counted).  The dispatch that takes such a command deletes *)
(* it while it stays linked: `hurt' names this too, and nothing is said of *)
(* what comes after it.                                                    *)
(***************************************************************************)
EXTENDS Controllers

CONSTANTS Osc,         \* the OSC controller
          MaxCommands  \* bound: messages that are handled

ASSUME OscAssumption == Osc \in Ctrls /\ MaxCommands \in Nat

VARIABLES
  listening,  \* is the server's thread started?
  spc,        \* where it is in an append
  received,   \* commands appended so far, which are numbered
  pending,    \* commands_pending, from begin() on
  dpc,        \* where the engine is in the poll of Osc
  dispatched  \* the commands that were handed to JSCall

serverVars == <<listening, spc, received>>
oscVars == <<serverVars, pending, dpc, dispatched>>

OscInit == /\ Init
           /\ listening = FALSE /\ spc = "idle" /\ received = 0
           /\ pending = <<>> /\ dpc = "none" /\ dispatched = <<>>

length == Len(pending) - (IF spc = "idle" THEN 0 ELSE 1)

-----------------------------------------------------------------------------
\* The server's thread: the end of osc_command_handler, Linklist::append.

Link == /\ listening /\ spc = "idle" /\ received < MaxCommands
        /\ received' = received + 1
        /\ pending' = Append(pending, received')
        /\ spc' = "linked"
        /\ UNCHANGED <<vars, listening, dpc, dispatched>>

\* addr->list = this
Belong == /\ spc = "linked"
          /\ spc' = "listed"
          /\ UNCHANGED <<vars, listening, received, pending, dpc, dispatched>>

\* length++, unlock.
Count == /\ spc = "listed"
         /\ spc' = "idle"
         /\ UNCHANGED <<vars, listening, received, pending, dpc, dispatched>>

Server == Link \/ Belong \/ Count

-----------------------------------------------------------------------------
\* The engine: OscController::poll and dispatch.

InPoll == epc = "poll" /\ ctrl = Osc

\* The objects of the script whose functions JSCall calls: the constructor of
\* an OSC controller sets jsobj, "DEPRECATED", and adds no listener.
Listeners == {}

\* Mutant of PollLooks: a single command waits for the next.
PollLooksPastOne == /\ InPoll /\ dpc = "none"
                    /\ dpc' = IF length > 1 THEN "begin" ELSE "over"
                    /\ UNCHANGED <<vars, serverVars, pending, dispatched>>

PollLooks == /\ InPoll /\ dpc = "none"
             /\ dpc' = IF length > 0 THEN "begin" ELSE "over"
             /\ UNCHANGED <<vars, serverVars, pending, dispatched>>

DispatchBegin == /\ dpc = "begin"
                 /\ IF pending = <<>> THEN dpc' = "over" /\ UNCHANGED dispatched
                    ELSE dpc' = "call" /\ dispatched' = Append(dispatched, Head(pending))
                 /\ UNCHANGED <<vars, serverVars, pending>>

\* Mutant of DispatchNext: the last command is taken off, not the one dispatched.
DispatchLast == /\ dpc = "call" /\ spc = "idle"
                /\ pending' = Front(pending) /\ dpc' = "begin"
                /\ UNCHANGED <<vars, serverVars, dispatched>>

\* rem(1), delete, begin(): both wait for the lock if the command is of the
\* list; if it is not, rem(1) finds nothing and the destructor removes nothing.
DispatchNext == /\ dpc = "call"
                /\ \/ /\ spc = "idle"
                      /\ pending' = Tail(pending) /\ dpc' = "begin"
                      /\ UNCHANGED vars
                   \/ /\ spc = "linked" /\ Len(pending) = 1
                      /\ hurt' = "dispatched during its append"
                      /\ UNCHANGED <<controllers, life, active, engineVars, guiVars,
                                     polls, steady, again, pending, dpc>>
                /\ UNCHANGED <<serverVars, dispatched>>

\* The walk goes on when the poll of Osc is over.
OscAdvance == /\ Advance
              /\ InPoll => dpc = "over"
              /\ dpc' = "none"
              /\ UNCHANGED <<serverVars, pending, dispatched>>

Dispatch == PollLooks \/ DispatchBegin \/ DispatchNext \/ OscAdvance
EngineElse == (BeginFrame \/ Lock \/ Poll \/ Unlock) /\ UNCHANGED oscVars

-----------------------------------------------------------------------------
\* Scripts

\* In the poll of Osc a script would run if a function of it were called.
ScriptIsCalled == InPoll => dpc = "call" /\ Listeners # {}

\* ~OscController ends the server's thread and forgets what is pending.
DeletesOsc == life[Osc] # "deleted" /\ life'[Osc] = "deleted"
Follows == /\ IF DeletesOsc THEN spc = "idle" /\ listening' = FALSE /\ pending' = <<>>
              ELSE UNCHANGED <<listening, pending>>
           /\ UNCHANGED <<spc, received, dpc, dispatched>>

\* js_osc_ctrl_start, js_osc_ctrl_stop: a stop waits for the thread.
OscStart == /\ ScriptRuns /\ ScriptIsCalled
            /\ life[Osc] = "alive"
            /\ listening' = TRUE
            /\ UNCHANGED <<vars, spc, received, pending, dpc, dispatched>>
OscStop == /\ ScriptRuns /\ ScriptIsCalled
           /\ life[Osc] = "alive" /\ spc = "idle"
           /\ listening' = FALSE
           /\ UNCHANGED <<vars, spc, received, pending, dpc, dispatched>>

ScriptElse == ScriptIsCalled /\ (Script \/ Quit) /\ Follows
GuiElse == Gui /\ Follows
OtherElse == (QuitEvent \/ StartEngine) /\ UNCHANGED oscVars

OscEngine == EngineElse \/ Dispatch
OscNext == hurt = "no" /\ \/ OscEngine \/ Server \/ ScriptElse \/ OscStart \/ OscStop
                          \/ GuiElse \/ OtherElse
allVars == <<vars, oscVars>>
OscSpec == OscInit /\ [][OscNext]_allVars

\* The engine's loop goes on, and the server's thread ends what it has begun.
OscFairness == /\ WF_allVars(hurt = "no" /\ OscEngine)
               /\ WF_allVars(hurt = "no" /\ (Belong \/ Count))
FairOscSpec == OscSpec /\ OscFairness

-----------------------------------------------------------------------------
Taken == IF dpc = "call" THEN 1 ELSE 0

\* Every command is handed to JSCall once, in the order of the messages, and
\* before the next is looked at, unless Osc is deleted (osc_ctrl.cpp:154-185).
\* No function of a script is called then: JSCall finds no Listeners.
CommandsInOrder == hurt = "no" /\ life[Osc] # "deleted" =>
                     dispatched \o SubSeq(pending, 1 + Taken, Len(pending))
                       = [i \in 1 .. received |-> i]

\* As long as the engine runs, and Osc is on the list and active, what it has
\* received is handed to JSCall, whatever other controllers and the GUI do, unless
\* frames do not end (FrameEnds).
CommandsAreDispatched ==
  received > Len(dispatched) ~> \/ received = Len(dispatched) \/ hurt # "no" \/ again
                                \/ quit \/ epc = "loading"
                                \/ ~(Listed(Osc) /\ active[Osc])
=============================================================================
