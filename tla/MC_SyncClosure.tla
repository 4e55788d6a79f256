--------------------------- MODULE MC_SyncClosure ---------------------------
(* Two threads that add, two synchronized closures and a plain one, a delete *)
(* and one spurious wakeup of the worker.                                    *)
EXTENDS SyncClosure

MCRunners == {Worker, Deleter}
=============================================================================
