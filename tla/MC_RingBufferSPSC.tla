-------------------------- MODULE MC_RingBufferSPSC --------------------------
(* Four slots and blocks of one to four bytes: calls that wrap, that end at   *)
(* the end of the block and that are cut; enough bytes to go round twice.     *)
EXTENDS RingBufferSPSC
=============================================================================
