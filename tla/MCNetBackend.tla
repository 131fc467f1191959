---------------------------- MODULE MCNetBackend ----------------------------
(* NetBackend on small instances. *)
EXTENDS NetBackend, TLC
=============================================================================
