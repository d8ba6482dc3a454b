----------------------------- MODULE MCCapture ------------------------------
(***************************************************************************)
(* Constants for checking Capture: one level and a history in which it     *)
(* vanishes, comes back with an earlier quantity and changes again.        *)
(***************************************************************************)
EXTENDS Capture

MCHistories == { [i \in UpdateId |-> [k \in Key |-> <<1, 2, 0, 1, 3>>[i + 1]]] }

=============================================================================
