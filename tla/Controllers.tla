----------------------------- MODULE Controllers -----------------------------
(***************************************************************************)
(* The controllers of a Context (src/src/context.cpp): a Linklist that the *)
(* engine walks on every frame, polling each active controller, while the  *)
(* scripts that the polls call, and a GUI in a thread of its own           *)
(* (scripts/python/gtkgui/main.py), register, remove and reset them.       *)
(*                                                                         *)
(* The mutex of the list is recursive: the engine holds it from Lock to    *)
(* the end of the walk, the script inside a poll passes it, the GUI waits. *)
(*                                                                         *)
(* Some legal calls make the engine or a caller touch a controller that    *)
(* has been deleted.  Each is an action here; `hurt' names the one that    *)
(* happened, and nothing is said of what comes after it.                   *)
(***************************************************************************)
EXTENDS Naturals, Sequences, SequencesExt, FiniteSets

CONSTANTS
  Ctrls,       \* Controller objects
  Singletons,  \* those made by the Factory once, with `indestructible' set
  None         \* the NULL pointer

ASSUME CtrlsAssumption == Singletons \subseteq Ctrls /\ None \notin Ctrls

VARIABLES
  controllers, \* the list, first to last
  life,        \* [Ctrls -> not constructed, alive, or deleted]
  active,      \* [Ctrls -> the flag `active']
  quit,        \* bool quit
  epc,         \* where the engine is: loading a script, in a frame ...
  ctrl,        \* the pointer that handle_controllers walks with
  gpc, garg,   \* where the GUI is in a call, and the controller it is about
  polls,       \* history: [Ctrls -> polls in this walk], 2 for two or more
  steady,      \* history: see PolledOnce
  again,       \* history: in this walk a listed controller was registered again
  hurt         \* history: "no", or how a deleted controller came to be used

vars == <<controllers, life, active, quit, epc, ctrl, gpc, garg, polls, steady,
          again, hurt>>
engineVars  == <<quit, epc, ctrl>>
guiVars     == <<gpc, garg>>

\* What stays of a list without those of a set: its k-th entry is the one up to
\* which k of the list stay.
Stay(list, gone, i) == Cardinality({j \in 1..i : list[j] \notin gone})
Kept(list, gone) ==
  [k \in 1..Stay(list, gone, Len(list)) |->
     list[CHOOSE i \in 1..Len(list) : list[i] \notin gone /\ Stay(list, gone, i) = k]]

Listed(c)  == Contains(controllers, c)
Without(c) == Kept(controllers, {c})
Start      == IF controllers = <<>> THEN None ELSE controllers[1]
EngineHolds == epc \in {"walk", "poll"}

Init == /\ controllers = <<>>
        /\ life = [c \in Ctrls |-> "none"]
        /\ active = [c \in Ctrls |-> FALSE]
        /\ quit = FALSE
        /\ epc = "loading" /\ ctrl = None
        /\ gpc = "idle" /\ garg = None
        /\ polls = [c \in Ctrls |-> 0]
        /\ steady = {}
        /\ again = FALSE
        /\ hurt = "no"

-----------------------------------------------------------------------------
(* Context::handle_controllers *)

BeginFrame == /\ epc = "idle" /\ ~quit
              /\ ctrl' = Start               \* controllers.begin(), no lock yet
              /\ epc' = IF controllers = <<>> THEN "idle" ELSE "begun"
              /\ UNCHANGED <<controllers, life, active, quit, guiVars, polls,
                             steady, again, hurt>>

\* The window was closed: this frame polls nobody and is the last.
QuitEvent == /\ epc = "idle" /\ ~quit
             /\ quit' = TRUE
             /\ UNCHANGED <<controllers, life, active, epc, ctrl, guiVars, polls,
                            steady, again, hurt>>

Lock == /\ epc = "begun"
        /\ epc' = "walk"
        /\ polls' = [c \in Ctrls |-> 0]
        /\ steady' = {c \in Ctrls : Listed(c) /\ active[c]}
        /\ again' = FALSE
        /\ UNCHANGED <<controllers, life, active, quit, ctrl, guiVars, hurt>>

\* ctrl->next: NULL in the last entry, and in one that is in no list.
Next_(c) == IF Listed(c) /\ c # Last(controllers)
            THEN controllers[1 + CHOOSE i \in DOMAIN controllers : controllers[i] = c]
            ELSE None

Poll == /\ epc = "walk" /\ ctrl # None
        /\ active[ctrl]
        /\ epc' = "poll"
        /\ polls' = [polls EXCEPT ![ctrl] = IF @ = 2 THEN 2 ELSE @ + 1]
        /\ UNCHANGED <<controllers, life, active, quit, ctrl, guiVars,
                       steady, again, hurt>>

\* Mutant: the walk begins anew after each controller.
AdvanceAgain == /\ \/ epc = "walk" /\ ctrl # None /\ ~active[ctrl]
                   \/ epc = "poll"
                /\ ctrl' = Start
                /\ epc' = "walk"
                /\ UNCHANGED <<controllers, life, active, quit, guiVars, polls,
                               steady, again, hurt>>

\* Past an inactive controller, or past one whose poll has returned.
Advance == /\ \/ epc = "walk" /\ ctrl # None /\ ~active[ctrl]
              \/ epc = "poll"
           /\ ctrl' = Next_(ctrl)
           /\ epc' = "walk"
           /\ UNCHANGED <<controllers, life, active, quit, guiVars, polls,
                          steady, again, hurt>>

Unlock == /\ epc = "walk" /\ ctrl = None
          /\ epc' = "idle"
          /\ UNCHANGED <<controllers, life, active, quit, ctrl, guiVars, polls,
                         steady, again, hurt>>

Engine == BeginFrame \/ Lock \/ Poll \/ Advance \/ Unlock

-----------------------------------------------------------------------------
(* What a call does to the list *)

\* The script deletes the controller whose poll it is called from.
InItsPoll(gone) ==
  hurt' = IF epc = "poll" /\ ctrl \in gone THEN "deleted in its own poll" ELSE hurt

\* The GUI takes away the controller that the engine has read without the lock.
BeforeTheLock(gone) ==
  hurt' = IF epc = "begun" /\ ctrl \in gone THEN "taken away before the lock" ELSE hurt

\* delete: ~Entry takes the controller off its list.
Delete(gone) == /\ controllers' = Kept(controllers, gone)
                /\ life' = [c \in Ctrls |-> IF c \in gone THEN "deleted" ELSE life[c]]

\* Context::reset, under the lock: each listed controller is deleted, or, if
\* indestructible, made inactive.  Its listeners and the screens are left out.
Doomed == {c \in Ctrls \ Singletons : Listed(c)}
Reset == /\ Delete(Doomed)
         /\ active' = [c \in Ctrls |-> IF c \in Singletons /\ Listed(c)
                                       THEN FALSE ELSE active[c]]
         /\ steady' = {c \in steady : ~Listed(c)}
         /\ UNCHANGED <<polls, again>>

\* What the others behind a controller lose when it is moved to the end while
\* the walk stands at it.
Behind(c) == IF EngineHolds /\ c = ctrl THEN {d \in steady : polls[d] = 0} ELSE {}

\* Linklist::append: off the list it is in, then to the end.
AppendEntry(c) == /\ controllers' = Append(Without(c), c)
                  /\ steady' = steady \ ({c} \union Behind(c))
                  /\ again' = (again \/ Listed(c))

UseDeleted == /\ hurt' = "call on a deleted controller"
              /\ UNCHANGED <<controllers, life, active, polls, steady, again>>

-----------------------------------------------------------------------------
(* Scripts: the one executed before the engine starts, then those that the *)
(* polls call                                                              *)

ScriptRuns == epc \in {"loading", "poll"}

\* new of a controller, in a script.  For a singleton the Factory hands out the
\* same object ever after, also once it is deleted.
Construct(c) == /\ life[c] = "none"
                /\ life' = [life EXCEPT ![c] = "alive"]
                /\ UNCHANGED <<controllers, active, polls, steady, again, hurt>>

\* Context::register_controller
RegisterController(c) ==
  /\ life[c] # "none"
  /\ IF life[c] = "deleted" THEN UseDeleted
     ELSE /\ active' = [active EXCEPT ![c] = TRUE]
          /\ AppendEntry(c)
          /\ UNCHANGED <<life, polls, hurt>>

\* Context::rem_controller, which deletes whatever it is given.
RemController(c) ==
  /\ life[c] # "none"
  /\ IF life[c] = "deleted" THEN UseDeleted
     ELSE /\ Delete({c})
          /\ InItsPoll({c})
          /\ active' = [active EXCEPT ![c] = FALSE]
          /\ steady' = steady \ {c}
          /\ UNCHANGED <<polls, again>>

\* controller_activate, in a script.
Activate(c, b) ==
  /\ life[c] # "none"
  /\ IF life[c] = "deleted" THEN UseDeleted
     ELSE /\ active' = [active EXCEPT ![c] = b]
          /\ steady' = IF b THEN steady ELSE steady \ {c}
          /\ UNCHANGED <<controllers, life, polls, again, hurt>>

Script == /\ ScriptRuns
          /\ \/ \E c \in Ctrls : \/ Construct(c) \/ RegisterController(c) \/ RemController(c)
                                 \/ \E b \in BOOLEAN : Activate(c, b)
             \/ Reset /\ InItsPoll(Doomed)
          /\ UNCHANGED <<engineVars, guiVars>>

\* quit(), in a script.
Quit == /\ ScriptRuns
        /\ quit' = TRUE
        /\ UNCHANGED <<controllers, life, active, epc, ctrl, guiVars, polls,
                       steady, again, hurt>>

\* A script that calls quit() while it is loaded ends the program.
StartEngine == /\ epc = "loading" /\ ~quit
               /\ epc' = "idle"
               /\ UNCHANGED <<controllers, life, active, quit, ctrl, guiVars,
                              polls, steady, again, hurt>>

-----------------------------------------------------------------------------
(* The GUI's thread: the same calls, in the steps that its locks make *)

GuiBegins(c, place) == /\ gpc = "idle" /\ epc # "loading"
                       /\ life[c] = "alive"
                       /\ gpc' = place /\ garg' = c

GuiReturns == gpc' = "idle" /\ garg' = None

GuiDeactivate(c) == /\ GuiBegins(c, "unlink")
                    /\ active' = [active EXCEPT ![c] = FALSE]
                    /\ steady' = steady \ {c}
                    /\ UNCHANGED <<controllers, life, engineVars, polls, again, hurt>>

GuiActivate(c) == /\ GuiBegins(c, "append")
                  /\ active' = [active EXCEPT ![c] = TRUE]
                  /\ UNCHANGED <<controllers, life, engineVars, polls, steady,
                                 again, hurt>>

\* Mutant: Entry::rem without the lock of the list.
UnlinkUnlocked == /\ gpc = "unlink"
                  /\ IF life[garg] = "deleted"
                     THEN UseDeleted /\ UNCHANGED <<engineVars, guiVars>>
                     ELSE /\ controllers' = Without(garg)
                          /\ gpc' = "delete"
                          /\ BeforeTheLock({garg})
                          /\ UNCHANGED <<life, active, engineVars, garg, polls,
                                         steady, again>>

\* Entry::rem
Unlink == /\ gpc = "unlink" /\ ~EngineHolds
          /\ IF life[garg] = "deleted"
             THEN UseDeleted /\ UNCHANGED <<engineVars, guiVars>>
             ELSE /\ controllers' = Without(garg)
                  /\ gpc' = "delete"
                  /\ BeforeTheLock({garg})
                  /\ UNCHANGED <<life, active, engineVars, garg, polls, steady,
                                 again>>

\* The delete that ends rem_controller.
GuiDelete == /\ gpc = "delete"
             /\ IF life[garg] = "deleted"
                THEN UseDeleted /\ UNCHANGED <<engineVars, guiVars>>
                ELSE /\ Delete({garg})
                     /\ hurt' = IF Listed(garg) THEN "registered while deleted" ELSE hurt
                     /\ GuiReturns
                     /\ steady' = steady \ {garg}
                     /\ UNCHANGED <<active, engineVars, polls, again>>

\* Linklist::append, which takes the entry off first if it is in a list.
GuiAppend == /\ gpc = "append" /\ ~EngineHolds
             /\ IF life[garg] = "deleted"
                THEN UseDeleted /\ UNCHANGED <<engineVars, guiVars>>
                ELSE /\ IF Listed(garg)
                        THEN /\ controllers' = Without(garg)
                             /\ BeforeTheLock({garg})
                             /\ UNCHANGED guiVars
                        ELSE /\ controllers' = Append(controllers, garg)
                             /\ GuiReturns
                             /\ UNCHANGED hurt
                     /\ UNCHANGED <<life, active, engineVars, polls, steady, again>>

GuiReset == /\ gpc = "idle" /\ epc # "loading" /\ ~EngineHolds
            /\ Reset /\ BeforeTheLock(Doomed)
            /\ UNCHANGED <<engineVars, guiVars>>

Gui == \/ \E c \in Ctrls : GuiDeactivate(c) \/ GuiActivate(c)
       \/ Unlink \/ GuiDelete \/ GuiAppend \/ GuiReset

-----------------------------------------------------------------------------
Next == hurt = "no" /\ (Engine \/ QuitEvent \/ Script \/ Quit \/ StartEngine \/ Gui)

Spec == Init /\ [][Next]_vars

\* The engine's loop goes on.  No script is obliged to do anything.
FairSpec == Spec /\ WF_vars(hurt = "no" /\ Engine)

-----------------------------------------------------------------------------
(* Properties *)

\* Unless a controller is deleted in its own poll, or between begin() and the
\* lock, or a deleted one is passed to a call, the engine walks on controllers
\* that exist and are on the list, and the list holds no others, whatever the
\* scripts and the GUI do to the rest of the list (context.cpp:327-336).
WalksOnTheLiving ==
  hurt = "no" =>
    /\ \A c \in Ctrls : Listed(c) => life[c] = "alive"
    /\ ctrl # None /\ epc # "idle" => life[ctrl] = "alive"
    /\ EngineHolds /\ ctrl # None => Listed(ctrl)

\* A frame polls every controller that is on the list and active when it takes
\* the lock once and only once, but for those that are removed, deactivated or
\* registered again meanwhile, and those behind a controller that registers
\* itself again from its own poll, which ends the walk (context.cpp:330-334).
PolledOnce ==
  /\ \A c \in steady : EngineHolds => polls[c] <= 1
  /\ epc = "walk" /\ ctrl = None => \A c \in steady : polls[c] = 1

\* Every frame ends, although polls may register new controllers behind the one
\* that is polled: only controllers that keep registering listed ones again
\* can keep the engine in it.
FrameEnds == (EngineHolds /\ hurt = "no") ~> (epc = "idle" \/ again \/ hurt # "no")
=============================================================================
