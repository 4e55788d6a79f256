----------------------------- MODULE JobService -----------------------------
(***************************************************************************)
(* What a ThreadedClosureQueue promises, without threads or locks: every   *)
(* job submitted is executed once, one at a time and in the order of       *)
(* submission, and the service closes only when nothing is left to do.     *)
(***************************************************************************)
EXTENDS Naturals, Sequences

CONSTANT Jobs

VARIABLES submitted, completed, closed

serviceVars == <<submitted, completed, closed>>

Init == submitted = <<>> /\ completed = <<>> /\ closed = FALSE

Submit(j) == /\ ~closed
             /\ submitted' = Append(submitted, j)
             /\ UNCHANGED <<completed, closed>>

Complete == /\ ~closed
            /\ Len(completed) < Len(submitted)
            /\ completed' = Append(completed, submitted[Len(completed) + 1])
            /\ UNCHANGED <<submitted, closed>>

Close == /\ ~closed
         /\ completed = submitted
         /\ closed' = TRUE
         /\ UNCHANGED <<submitted, completed>>

Next == Complete \/ Close \/ \E j \in Jobs : Submit(j)

Spec == Init /\ [][Next]_serviceVars
=============================================================================
