----------------------------- MODULE BookSession ----------------------------
(***************************************************************************)
(* BookSession (src/include/book_session.hpp, src/src/book_session.cpp):   *)
(* diffs are buffered until a snapshot seeds the book, the buffer is then  *)
(* replayed on top of it, and a sequence gap sends the session back to     *)
(* waiting for a snapshot.                                                 *)
(*                                                                         *)
(* The session is owned by one shard thread, so its operations do not      *)
(* interleave.  The loop of on_snapshot is modelled one iteration per      *)
(* step because the on_applied callback sees the book between iterations;  *)
(* while it runs (replaying) no other operation of the session can.        *)
(***************************************************************************)
EXTENDS DepthFeed, OrderBook, Sequences

CONSTANTS
  KMaxBuffer,     \* kMaxBuffer
  MaxOverflows    \* bound on overflows_

ASSUME SessionAssumption ==
  /\ KMaxBuffer \in Nat \ {0}
  /\ MaxOverflows \in Nat

VARIABLES
  resync_pending,   \* resync_pending_
  overflows,        \* overflows_
  buffer,           \* buffer_
  replaying,        \* inside the loop of on_snapshot
  snap_id,          \* its parameter snapshot_last_update_id
  seen              \* history: highest u handed to on_diff since the session
                    \* last dropped its state

sessionVars == <<resync_pending, overflows, buffer, replaying, snap_id, seen>>

vars == <<feedVars, bookVars, sessionVars>>

Init ==
  /\ FeedInit
  /\ BookInit
  /\ resync_pending = TRUE
  /\ overflows = 0
  /\ buffer = <<>>
  /\ replaying = FALSE
  /\ snap_id = 0
  /\ seen = 0

(* The verdict on a diff, by the venue's rule (the call in apply_one).     *)
(* apply_one's NeedSnapshot answer cannot occur: both callers have a       *)
(* seeded book.                                                            *)
ApplyResult(e) == IF Venue = "Usdm" THEN UsdmResult(e) ELSE SpotResult(e)

NewSeen(e) == IF e.u > seen THEN e.u ELSE seen

-----------------------------------------------------------------------------
(* Faults a plausible edit could introduce, for the mutation runs.         *)

buffer_event_OffByOne(e, pending) ==
  /\ resync_pending' = (pending \/ Len(buffer) > KMaxBuffer)
  /\ IF Len(buffer) > KMaxBuffer
     THEN /\ overflows < MaxOverflows
          /\ overflows' = overflows + 1
          /\ buffer' = <<e>>
          /\ reset
          /\ seen' = e.u
     ELSE /\ buffer' = Append(buffer, e)
          /\ seen' = NewSeen(e)
          /\ UNCHANGED <<overflows, bookVars>>

on_gap_Dropped(e) ==
  /\ ApplyResult(e) = "Gap"
  /\ resync_pending' = TRUE
  /\ seen' = NewSeen(e)
  /\ UNCHANGED <<bookVars, buffer, overflows>>

ReplayDrop_Break ==
  /\ replaying
  /\ buffer # <<>>
  /\ Head(buffer).u <= snap_id \/ ApplyResult(Head(buffer)) = "IgnoredOld"
  /\ buffer' = Tail(buffer)
  /\ replaying' = FALSE
  /\ UNCHANGED <<feedVars, bookVars, resync_pending, overflows, snap_id, seen>>

-----------------------------------------------------------------------------

(* buffer_event, called with resync_pending_ = pending: a full buffer is   *)
(* dropped and the book with it.                                           *)
buffer_event(e, pending) ==
  /\ resync_pending' = (pending \/ Len(buffer) >= KMaxBuffer)
  /\ IF Len(buffer) >= KMaxBuffer
     THEN /\ overflows < MaxOverflows
          /\ overflows' = overflows + 1
          /\ buffer' = <<e>>
          /\ reset
          /\ seen' = e.u
     ELSE /\ buffer' = Append(buffer, e)
          /\ seen' = NewSeen(e)
          /\ UNCHANGED <<overflows, bookVars>>

(* The three ways a diff fares on a seeded book.  The event that shows a   *)
(* gap is kept for the next snapshot.                                      *)
on_applied(e) ==
  /\ ApplyResult(e) = "Applied"
  /\ AcceptDiff(e, Diff(e))
  /\ seen' = NewSeen(e)
  /\ UNCHANGED <<resync_pending, buffer, overflows>>

on_ignored(e) ==
  /\ ApplyResult(e) = "IgnoredOld"
  /\ seen' = NewSeen(e)
  /\ UNCHANGED <<bookVars, resync_pending, buffer, overflows>>

on_gap(e) ==
  /\ ApplyResult(e) = "Gap"
  /\ buffer_event(e, TRUE)

on_diff(e) ==
  /\ ~replaying
  /\ \/ /\ resync_pending \/ ~initialized
        /\ buffer_event(e, resync_pending)
     \/ /\ ~resync_pending /\ initialized
        /\ on_applied(e) \/ on_ignored(e) \/ on_gap(e)
  /\ UNCHANGED <<feedVars, replaying, snap_id>>

(* on_snapshot up to its loop.                                             *)
on_snapshot(snapshot, id) ==
  /\ ~replaying
  /\ set_snapshot(snapshot, id)
  /\ resync_pending' = FALSE
  /\ replaying' = TRUE
  /\ snap_id' = id
  /\ UNCHANGED <<feedVars, buffer, overflows, seen>>

(* An iteration that drops a diff: older than the snapshot, or older than  *)
(* what has been replayed since.                                           *)
ReplayDrop ==
  /\ replaying
  /\ buffer # <<>>
  /\ Head(buffer).u <= snap_id \/ ApplyResult(Head(buffer)) = "IgnoredOld"
  /\ buffer' = Tail(buffer)
  /\ UNCHANGED <<feedVars, bookVars, resync_pending, replaying, overflows, snap_id, seen>>

(* An iteration that applies a diff.                                       *)
ReplayApply ==
  /\ replaying
  /\ buffer # <<>>
  /\ Head(buffer).u > snap_id
  /\ ApplyResult(Head(buffer)) = "Applied"
  /\ AcceptDiff(Head(buffer), Diff(Head(buffer)))
  /\ buffer' = Tail(buffer)
  /\ UNCHANGED <<feedVars, resync_pending, replaying, overflows, snap_id, seen>>

(* A gap: the loop ends, the event and all after it stay in the buffer.    *)
ReplayGap ==
  /\ replaying
  /\ buffer # <<>>
  /\ Head(buffer).u > snap_id
  /\ ApplyResult(Head(buffer)) = "Gap"
  /\ resync_pending' = TRUE
  /\ replaying' = FALSE
  /\ UNCHANGED <<feedVars, bookVars, buffer, overflows, snap_id, seen>>

ReplayDone ==
  /\ replaying
  /\ buffer = <<>>
  /\ replaying' = FALSE
  /\ UNCHANGED <<feedVars, bookVars, resync_pending, buffer, overflows, snap_id, seen>>

request_resync ==
  /\ ~replaying
  /\ resync_pending' = TRUE
  /\ reset
  /\ buffer' = <<>>
  /\ seen' = 0
  /\ UNCHANGED <<feedVars, overflows, replaying, snap_id>>

-----------------------------------------------------------------------------
(***************************************************************************)
(* The callers.  The shard's handler (src/src/main.cpp) hands every diff   *)
(* it receives to on_diff, asks for a snapshot only while the session is   *)
(* pending, and calls request_resync on a new connection epoch.  The       *)
(* snapshot may be of any id, older or newer than the diffs received: the  *)
(* REST answer is not ordered with the stream.                             *)
(***************************************************************************)

PublishSome == \E U, u \in UpdateId : PublishDiff(U, u) /\ UNCHANGED <<bookVars, sessionVars>>

DeliverSome == \E e \in published : on_diff(e)

SnapshotSome == resync_pending /\ \E s \in UpdateId : on_snapshot(hist[s], s)

Next ==
  \/ PublishSome
  \/ DeliverSome
  \/ SnapshotSome
  \/ ReplayDrop
  \/ ReplayApply
  \/ ReplayGap
  \/ ReplayDone
  \/ request_resync

Spec == Init /\ [][Next]_vars

-----------------------------------------------------------------------------

(* Every variable of the session, its book and the feed has its type.      *)
TypeOK ==
  /\ hist \in Histories
  /\ cut \in UpdateId
  /\ published \subseteq DepthEvent
  /\ BookTypeOK
  /\ resync_pending \in BOOLEAN
  /\ overflows \in Nat
  /\ buffer \in Seq(DepthEvent)
  /\ replaying \in BOOLEAN
  /\ snap_id \in UpdateId
  /\ seen \in UpdateId

(* The session can be emitted from: main.cpp's fail-closed test passes.    *)
Ready == initialized /\ ~resync_pending

(* A seeded book is exactly the exchange's book at last_update_id_, in     *)
(* whatever order, how often and with whichever losses the diffs and the   *)
(* snapshots came: apply_diff_spot/apply_diff_usdm accept a diff only when *)
(* it continues the book, and never take a stale one.                      *)
BookFaithful == initialized => levels = hist[last_update_id]

(* A session that reports ready has caught up with every diff it was given *)
(* since it last dropped its state: no diff is lost between the buffer,    *)
(* the event that showed a gap, and the suffix kept by on_snapshot.        *)
NeverBehind == Ready /\ ~replaying => last_update_id >= seen

(* A session that is not waiting for a snapshot has a seeded book and      *)
(* nothing left in its buffer, so live diffs are never applied ahead of    *)
(* older buffered ones.                                                    *)
DrainedWhenLive == ~resync_pending => initialized /\ (replaying \/ buffer = <<>>)

(* kMaxBuffer bounds the backlog kept while no snapshot arrives.           *)
BufferBounded == Len(buffer) <= KMaxBuffer

(* A seeded session that went back to waiting for a snapshot did miss an   *)
(* update: the diff that stopped it starts from an update the book has not *)
(* reached.                                                                *)
GapIsReal ==
  resync_pending /\ initialized => Head(buffer).pu > last_update_id

(* Between two snapshots the book only moves forward: a duplicated or      *)
(* reordered diff can never take a ready session's book to an older id     *)
(* (the u <= last_update_id_ return of apply_diff_spot/apply_diff_usdm).   *)
ForwardOnly == [][Ready /\ initialized' => last_update_id' >= last_update_id]_vars

=============================================================================
