--------------------------- MODULE MCSessionNode ---------------------------
(* SessionNode on small instances. *)
EXTENDS SessionNode, TLC

\* Clients, work_ids and objects are interchangeable: sound for the safety runs.
Symmetry == Permutations(Clients) \cup Permutations(WorkIds) \cup Permutations(Sids)
=============================================================================
