------------------------- MODULE MCSessionPipeline -------------------------
(* SessionPipeline on small instances. *)
EXTENDS SessionPipeline, TLC

\* Drivers and cancellers are interchangeable: sound for the safety runs.
Symmetry == Permutations(Drivers) \cup Permutations(Cancellers)
=============================================================================
