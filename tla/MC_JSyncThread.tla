--------------------------- MODULE MC_JSyncThread ---------------------------
(* Three deferred calls over a start, a stop, a second start and a delete. *)
EXTENDS JSyncThread, TLC

MCRunners == Created \union {Owner}
=============================================================================
