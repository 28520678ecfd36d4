------------------------- MODULE MCPliPacerHandler -------------------------
(* Instances of PliPacerHandler for TLC. *)
EXTENDS PliPacerHandler
=============================================================================
