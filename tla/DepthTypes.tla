----------------------------- MODULE DepthTypes -----------------------------
(***************************************************************************)
(* The values the depth pipeline passes around: include/types.hpp (Venue), *)
(* include/order_book.hpp (Level) and include/json_min.hpp (DepthEvent).   *)
(*                                                                         *)
(* A price level is named by a Key, a (side, price) pair: nothing in the   *)
(* sequencing logic looks inside it.  A book is a function from Key to     *)
(* quantity; quantity 0 stands for "no such entry in the hash map", which  *)
(* is what set_snapshot and apply_bid_level/apply_ask_level make of it.    *)
(***************************************************************************)
EXTENDS Naturals

CONSTANTS
  Key,      \* the (side, price) pairs a level can have
  Qty,      \* the quantities a level can have, 0 included
  MaxId,    \* bound: the exchange's update ids are 0..MaxId
  Venue     \* cfg.venue

ASSUME DepthAssumption ==
  /\ Qty \subseteq Nat
  /\ 0 \in Qty
  /\ MaxId \in Nat
  /\ Venue \in {"Spot", "Usdm"}

UpdateId == 0..MaxId

Book == [Key -> Qty]

NoLevels == [k \in Key |-> 0]

(***************************************************************************)
(* A diff: U and u are the first and last update id it covers, pu the u of *)
(* the diff before it (which only USD-M payloads carry).  Its levels are   *)
(* DepthFeed!Diff.                                                         *)
(***************************************************************************)
DepthEvent == [U: UpdateId, u: UpdateId, pu: UpdateId]

=============================================================================
