------------------------------ MODULE MCReplay ------------------------------
(***************************************************************************)
(* Constants for checking Replay: two bid prices of which a depth5 frame   *)
(* shows one, and a history in which the best one leaves and returns.      *)
(***************************************************************************)
EXTENDS Replay

MCHistories ==
  { [i \in UpdateId |-> [k \in Key |-> IF k = 2 THEN <<1, 0, 2, 1>>[i + 1] ELSE <<1, 2, 2, 1>>[i + 1]]] }

=============================================================================
