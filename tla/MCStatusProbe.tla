--------------------------- MODULE MCStatusProbe ---------------------------
(* StatusProbe for TLC. *)
EXTENDS StatusProbe
=============================================================================
