--------------------------- MODULE MCEdgeGateway ---------------------------
(* EdgeGateway on small instances. *)
EXTENDS EdgeGateway, TLC
CONSTANTS c1, c2

\* One client sends two frames, and the other one.
QuotaValue == [c \in {c1, c2} |-> IF c = c1 THEN 2 ELSE 1]
=============================================================================
