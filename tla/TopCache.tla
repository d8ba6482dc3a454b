------------------------------ MODULE TopCache ------------------------------
(***************************************************************************)
(* The cached top of one side of an OrderBook (src/src/order_book.cpp).    *)
(* The full side is a hash map from price to quantity; beside it a sorted  *)
(* array keeps some of its best levels, so that fill_top5 need not search  *)
(* the map.  The array is patched level by level and rebuilt from the map  *)
(* only when a deletion could have exposed a level it does not hold.       *)
(*                                                                         *)
(* The bid and the ask functions of the source are mirror images: side     *)
(* selects one pair, and better is better_bid or better_ask.  A rebuild    *)
(* walks the hash map in an order nobody controls, so it is modelled one   *)
(* insertion per step, the next entry being any that is still to do.       *)
(***************************************************************************)
EXTENDS Naturals, Sequences, SequencesExt

CONSTANTS
  Price,       \* the prices a level can have
  Qty,         \* the quantities a level can have, 0 included
  KTopCache,   \* kTopCache, 64 in the source
  Visible,     \* the number of levels in a row, 5 in the source
  Snapshots    \* the sides a snapshot may bring

ASSUME TopCacheAssumption ==
  /\ Price \subseteq Nat
  /\ Qty \subseteq Nat
  /\ 0 \in Qty
  /\ Visible \in Nat \ {0}
  /\ KTopCache \in Nat
  /\ Visible <= KTopCache
  /\ Snapshots \subseteq [Price -> Qty]

VARIABLES
  side,    \* "Bid" or "Ask"; never changes
  map,     \* bids_ or asks_; quantity 0 is "no such entry"
  cache,   \* bid_cache_ or ask_cache_: levels[0..count-1]
  todo     \* the prices a rebuild in progress has yet to visit

vars == <<side, map, cache, todo>>

Level == [price: Price, qty: Qty]

Prices(m) == {p \in Price : m[p] # 0}

EmptySide == [p \in Price |-> 0]

Init ==
  /\ side \in {"Bid", "Ask"}
  /\ map = EmptySide
  /\ cache = <<>>
  /\ todo = {}

(* better_bid and better_ask.                                              *)
better(a, b) == IF side = "Bid" THEN a > b ELSE a < b

-----------------------------------------------------------------------------

(* The index of the level at price p, 0 when it is not cached.             *)
IndexOf(c, p) == SelectInSeq(c, LAMBDA l : l.price = p)

(* remove_cache_price: the cache afterwards, and its result (the level was *)
(* among the visible ones).                                                *)
remove_cache_price(c, p) == RemoveFirstMatch(c, LAMBDA l : l.price = p)

WasVisible(c, p) == IndexOf(c, p) \in 1..Visible

(* Where upsert_bid_cache/upsert_ask_cache insert price p.                 *)
Position(c, p) ==
  Min({i \in 1..(Len(c) + 1) : i = Len(c) + 1 \/ ~better(c[i].price, p)})

upsert_cache_WhileNotFull(c, l) ==
  IF Len(c) = KTopCache THEN c ELSE InsertAt(c, Position(c, l.price), l)

upsert_cache_NoDrop(c, l) ==
  IF Len(c) = KTopCache /\ ~better(l.price, c[KTopCache].price)
  THEN c
  ELSE InsertAt(c, Position(c, l.price), l)

(* upsert_bid_cache/upsert_ask_cache: a full array drops its worst level,  *)
(* or the new one if that is no better.                                    *)
upsert_cache(c, l) ==
  IF Len(c) = KTopCache /\ ~better(l.price, c[KTopCache].price)
  THEN c
  ELSE SubSeq(InsertAt(c, Position(c, l.price), l), 1, Min({Len(c) + 1, KTopCache}))

-----------------------------------------------------------------------------

StartRebuild_NoSkip(m) ==
  /\ cache' = <<>>
  /\ todo' = Price

(* The start of rebuild_bid_cache/rebuild_ask_cache for the side m.        *)
StartRebuild(m) ==
  /\ cache' = <<>>
  /\ todo' = Prices(m)

(* One iteration of its loop.                                              *)
RebuildStep ==
  \E p \in todo :
    /\ cache' = upsert_cache(cache, [price |-> p, qty |-> map[p]])
    /\ todo' = todo \ {p}
    /\ UNCHANGED <<side, map>>

DeleteLevel_RebuildWhenShort(p) ==
  LET c == remove_cache_price(cache, p)
  IN  /\ todo = {}
      /\ map' = [map EXCEPT ![p] = 0]
      /\ IF Len(c) < Visible
         THEN StartRebuild(map')
         ELSE cache' = c /\ UNCHANGED todo
      /\ UNCHANGED side

(* apply_bid_level/apply_ask_level with quantity 0.                        *)
DeleteLevel(p) ==
  LET c == remove_cache_price(cache, p)
  IN  /\ todo = {}
      /\ map' = [map EXCEPT ![p] = 0]
      /\ IF WasVisible(cache, p) \/ Len(c) < Visible
         THEN StartRebuild(map')
         ELSE cache' = c /\ UNCHANGED todo
      /\ UNCHANGED side

(* apply_bid_level/apply_ask_level with a quantity.                        *)
SetLevel(p, q) ==
  /\ todo = {}
  /\ map' = [map EXCEPT ![p] = q]
  /\ cache' = upsert_cache(remove_cache_price(cache, p), [price |-> p, qty |-> q])
  /\ UNCHANGED <<side, todo>>

set_snapshot(s) ==
  /\ todo = {}
  /\ map' = s
  /\ StartRebuild(s)
  /\ UNCHANGED side

reset ==
  /\ todo = {}
  /\ map' = EmptySide
  /\ cache' = <<>>
  /\ UNCHANGED <<side, todo>>

(* What fill_top5 writes into a row.                                       *)
fill_top5 == SubSeq(cache, 1, Min({Visible, Len(cache)}))

Next ==
  \/ RebuildStep
  \/ \E p \in Price : DeleteLevel(p)
  \/ \E p \in Price, q \in Qty \ {0} : SetLevel(p, q)
  \/ \E s \in Snapshots : set_snapshot(s)
  \/ reset

Spec == Init /\ [][Next]_vars

-----------------------------------------------------------------------------

Cached(c) == {c[i].price : i \in DOMAIN c}

(* The list c is what a sorted map would list first: the best n levels of  *)
(* the side m among the prices P, best first, or all of them if they are   *)
(* fewer.  There is one such list.                                         *)
IsBest(c, m, P, n) ==
  /\ Len(c) <= n
  /\ \A i \in DOMAIN c :
       /\ c[i].price \in P
       /\ c[i].qty = m[c[i].price]
       /\ i > 1 => better(c[i - 1].price, c[i].price)
  /\ \A p \in P \ Cached(c) : Len(c) = n /\ \A i \in DOMAIN c : better(c[i].price, p)

(* Every variable has its type.                                            *)
TypeOK ==
  /\ side \in {"Bid", "Ask"}
  /\ map \in [Price -> Qty]
  /\ cache \in Seq(Level)
  /\ todo \subseteq Prices(map)

(* The rows fill_top5 writes are the true top of the full book, with       *)
(* current quantities, after any mix of level updates, deletions and       *)
(* snapshots: whenever a hidden level becomes visible, apply_bid_level /   *)
(* apply_ask_level have it in the cache or rebuild the cache.              *)
RowIsTopOfBook == todo = {} => IsBest(fill_top5, map, Prices(map), Visible)

(* Even beyond the visible levels the array holds only levels of the full  *)
(* book, with their current quantity, best first, no price twice, and      *)
(* never more of them than it has room for: the shifting loops of          *)
(* remove_cache_price and the upserts stay inside levels[kTopCache].       *)
CacheSound ==
  /\ Len(cache) <= KTopCache
  /\ \A i \in DOMAIN cache :
       /\ cache[i].qty = map[cache[i].price]
       /\ cache[i].qty # 0
       /\ i > 1 => better(cache[i - 1].price, cache[i].price)

(* A rebuild keeps the best kTopCache of the entries visited so far, in    *)
(* whatever order rebuild_bid_cache/rebuild_ask_cache visit the hash map.  *)
RebuildOrderFree ==
  todo # {} => IsBest(cache, map, Prices(map) \ todo, KTopCache)

=============================================================================
