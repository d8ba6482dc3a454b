----------------------------- MODULE MCTopCache -----------------------------
(***************************************************************************)
(* Constants for checking TopCache: six prices against an array of four    *)
(* levels of which two are visible, so that hidden levels can be cached or *)
(* not, the array can be full, and a hidden deletion can leave it shorter  *)
(* than the book; snapshots that overfill it, fill it and leave it short.  *)
(***************************************************************************)
EXTENDS TopCache

MCSnapshots ==
  { [p \in Price |-> IF p \in P THEN 1 ELSE 0] : P \in {{}, {2}, {1, 3, 5}, Price} }

=============================================================================
