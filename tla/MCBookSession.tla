---------------------------- MODULE MCBookSession ---------------------------
(***************************************************************************)
(* Constants for checking BookSession: two levels, update ids 0..4, and    *)
(* histories in which levels appear, change, vanish and come back.         *)
(***************************************************************************)
EXTENDS BookSession

CONSTANTS Bid, Ask

MCKey == {Bid, Ask}

Levels2(b, a) == [k \in MCKey |-> IF k = Bid THEN b ELSE a]

FromPairs(p) == [i \in UpdateId |-> Levels2(p[i + 1][1], p[i + 1][2])]

MCHistories ==
  { FromPairs(<< <<1, 1>>, <<2, 1>>, <<0, 1>>, <<0, 2>>, <<1, 2>> >>),
    FromPairs(<< <<0, 0>>, <<0, 1>>, <<0, 0>>, <<1, 0>>, <<1, 2>> >>),
    FromPairs(<< <<1, 2>>, <<1, 1>>, <<1, 2>>, <<1, 0>>, <<2, 0>> >>) }

=============================================================================
