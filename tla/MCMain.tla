------------------------------- MODULE MCMain -------------------------------
(***************************************************************************)
(* Constants for checking Main: up to three symbols on one or two shards.  *)
(* A connection has room for two symbols: a limit of seven streams is no   *)
(* multiple of three, as the code's 1024 is not.                           *)
(***************************************************************************)
EXTENDS Main

CONSTANTS A, B, C

(* --shards below one, and 2, which may be more or fewer than the symbols. *)
MCShardArgs == {-1, 2}

=============================================================================
