--------------------------- MODULE MCOutputLevel ---------------------------
(* OutputLevel for TLC: silence, full scale and one level between. *)
EXTENDS OutputLevel
=============================================================================
