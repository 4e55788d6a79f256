--------------------------- MODULE MC_VideoEncoder ---------------------------
(* A ring of eight slots and frames of up to two pages, one of which fills   *)
(* most of it: pages wrap, wait for room and find none.                      *)
EXTENDS VideoEncoder
MCBytes == 0..MaxBytes
MCFrames == {<<>>, <<2>>, <<3, 5>>, <<5>>}
MCInputs == UNION {{[k \in 1..n |-> from + k] : from \in 0..MaxBytes - n} : n \in 0..5}
MCCounts == 0..Size
=============================================================================
