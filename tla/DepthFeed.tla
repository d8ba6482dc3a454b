----------------------------- MODULE DepthFeed ------------------------------
(***************************************************************************)
(* The exchange, modelled from how src/src/book_session.cpp and            *)
(* src/src/main.cpp use it (external: it is not part of the repository).   *)
(*                                                                         *)
(* hist is the exchange's own book after every update id.  The exchange    *)
(* cuts the ids into consecutive batches and publishes each batch as one   *)
(* diff carrying the final quantity of every level that varied in it.      *)
(* A published diff may reach the session late, twice, out of order or     *)
(* never: `published' is a set that is only ever added to.                 *)
(***************************************************************************)
EXTENDS DepthTypes

CONSTANT Histories   \* the exchange histories considered

ASSUME HistoriesAssumption == Histories \subseteq [UpdateId -> Book]

VARIABLES
  hist,        \* the exchange's book at every update id; never changes
  cut,         \* the last update id of the batch published last
  published    \* the diffs published so far

feedVars == <<hist, cut, published>>

FeedInit ==
  /\ hist \in Histories
  /\ cut = 0
  /\ published = {}

(* Publish the ids after the last cut up to u.  Spot ids are contiguous     *)
(* (U = previous u + 1); a USD-M diff may start later, its pu still names   *)
(* the diff before it.                                                      *)
PublishDiff(U, u) ==
  /\ cut < U /\ U <= u
  /\ Venue = "Spot" => U = cut + 1
  /\ published' = published \cup {[U |-> U, u |-> u, pu |-> cut]}
  /\ cut' = u
  /\ UNCHANGED hist

(* The levels that took more than one quantity between update ids a and b. *)
Varied(a, b) == {k \in Key : \E i, j \in a..b : hist[i][k] # hist[j][k]}

(* The levels a diff carries: absolute quantities as of its last id.       *)
Diff(e) == [k \in Varied(e.pu, e.u) |-> hist[e.u][k]]

(* What the exchange guarantees about a diff.                              *)
GoodDiff(e) ==
  /\ e \in DepthEvent
  /\ e.pu < e.U
  /\ e.U <= e.u
  /\ Venue = "Spot" => e.U = e.pu + 1

=============================================================================
