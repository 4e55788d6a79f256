----------------------------- MODULE MC_OscQueue -----------------------------
EXTENDS OscQueue

\* A bound: a program with a GUI that calls, or one that gets OSC messages.
VARIABLE gui

MCInit == OscInit /\ gui \in BOOLEAN
MCNext == /\ hurt = "no"
          /\ \/ OscEngine \/ Server \/ ScriptElse \/ OscStop \/ OtherElse
             \/ gui /\ GuiElse
             \/ ~gui /\ OscStart
          /\ UNCHANGED gui
MCSpec == MCInit /\ [][MCNext]_<<allVars, gui>> /\ OscFairness
=============================================================================
