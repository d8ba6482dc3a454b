------------------------------ MODULE OrderBook -----------------------------
(***************************************************************************)
(* OrderBook (src/include/order_book.hpp, src/src/order_book.cpp): the     *)
(* sequence state and the full-depth levels of one symbol's local book.    *)
(* The cached top of the book is modelled separately, in TopCache.         *)
(*                                                                         *)
(* Update ids are uint64 in the code.  The one sum, last_update_id_ + 1,   *)
(* is only reached when u > last_update_id_, so it cannot wrap and the     *)
(* ids are naturals here.                                                  *)
(***************************************************************************)
EXTENDS DepthTypes

VARIABLES
  initialized,       \* initialized_
  last_update_id,    \* last_update_id_
  started,           \* started_: a diff was applied since the last snapshot
  levels             \* bids_ and asks_

bookVars == <<initialized, last_update_id, started, levels>>

BookInit ==
  /\ initialized = FALSE
  /\ last_update_id = 0
  /\ started = FALSE
  /\ levels = NoLevels

BookTypeOK ==
  /\ initialized \in BOOLEAN
  /\ last_update_id \in UpdateId
  /\ started \in BOOLEAN
  /\ levels \in Book

-----------------------------------------------------------------------------

set_snapshot(snapshot, id) ==
  /\ levels' = snapshot
  /\ last_update_id' = id
  /\ initialized' = TRUE
  /\ started' = FALSE

reset ==
  /\ levels' = NoLevels
  /\ initialized' = FALSE
  /\ last_update_id' = 0
  /\ started' = FALSE

(* Quantities are absolute, 0 removes the level, other levels are kept.    *)
apply_levels(lv) ==
  levels' = [k \in Key |-> IF k \in DOMAIN lv THEN lv[k] ELSE levels[k]]

-----------------------------------------------------------------------------
(* Faults a plausible edit could introduce, for the mutation runs.         *)

SpotResult_GapOffByOne(e) ==
  IF ~initialized THEN "NeedSnapshot"
  ELSE IF e.u <= last_update_id THEN "IgnoredOld"
  ELSE IF e.U > last_update_id + 2 THEN "Gap"
  ELSE "Applied"

SpotResult_EagerGap(e) ==
  IF ~initialized THEN "NeedSnapshot"
  ELSE IF e.u <= last_update_id THEN "IgnoredOld"
  ELSE IF e.U > last_update_id THEN "Gap"
  ELSE "Applied"

SpotResult_NoStaleCheck(e) ==
  IF ~initialized THEN "NeedSnapshot"
  ELSE IF e.U > last_update_id + 1 THEN "Gap"
  ELSE "Applied"

AcceptDiff_OneTooFar(e, lv) ==
  /\ apply_levels(lv)
  /\ last_update_id' = e.u + 1
  /\ started' = TRUE
  /\ UNCHANGED initialized

-----------------------------------------------------------------------------

(* The ApplyResult of apply_diff_spot.                                     *)
SpotResult(e) ==
  IF ~initialized THEN "NeedSnapshot"
  ELSE IF e.u <= last_update_id THEN "IgnoredOld"
  ELSE IF e.U > last_update_id + 1 THEN "Gap"
  ELSE "Applied"

(* The ApplyResult of apply_diff_usdm: before the first applied diff the   *)
(* event must start at or before the snapshot, afterwards pu must match.   *)
UsdmResult(e) ==
  IF ~initialized THEN "NeedSnapshot"
  ELSE IF e.u <= last_update_id THEN "IgnoredOld"
  ELSE IF ~started /\ e.U > last_update_id THEN "Gap"
  ELSE IF started /\ e.pu # last_update_id THEN "Gap"
  ELSE "Applied"

(* What apply_diff_spot and apply_diff_usdm do once the event is accepted. *)
AcceptDiff(e, lv) ==
  /\ apply_levels(lv)
  /\ last_update_id' = e.u
  /\ started' = TRUE
  /\ UNCHANGED initialized

=============================================================================
