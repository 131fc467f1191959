--------------------------- MODULE MCTaskRuntime ---------------------------
(* TaskRuntime on small instances. *)
EXTENDS TaskRuntime, TLC

\* Threads are interchangeable: sound for the safety runs.
Symmetry == Permutations(Callers)
=============================================================================
