---------------------------- MODULE MCRkllmNode ----------------------------
(* RkllmNode on small instances. *)
EXTENDS RkllmNode, TLC
=============================================================================
