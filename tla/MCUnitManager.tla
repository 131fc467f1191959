--------------------------- MODULE MCUnitManager ---------------------------
(* UnitManager on small instances. *)
EXTENDS UnitManager
=============================================================================
