--------------------------- MODULE MCHranaStreams ---------------------------
(* A small instance of HranaStreams. *)
EXTENDS HranaStreams

CONSTANTS s1, s2, r1, r2
=============================================================================
