--------------------------- MODULE MCScaledParser ---------------------------
(***************************************************************************)
(* Constants for checking ScaledParser: an eight-bit result with two       *)
(* decimals, and the characters - . 0 1 2 7 8 and x.                       *)
(***************************************************************************)
EXTENDS ScaledParser

=============================================================================
