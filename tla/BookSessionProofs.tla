-------------------------- MODULE BookSessionProofs -------------------------
(***************************************************************************)
(* The safety invariants of BookSession, for every set of levels,          *)
(* quantities and exchange histories, every range of update ids, either    *)
(* venue and every buffer bound.                                           *)
(*                                                                         *)
(* BookFaithful is not inductive: it needs to know that what waits in the  *)
(* feed and in the buffer are well-formed diffs.  NeverBehind needs, for   *)
(* every phase of a resync, where the newest diff went: it is still in the *)
(* buffer or it is covered by the book (SeenCovered).                      *)
(***************************************************************************)
EXTENDS BookSession, TLAPS

GoodFeed == \A e \in published : GoodDiff(e)

GoodBuffer == \A i \in DOMAIN buffer : GoodDiff(buffer[i])

ReplayState == replaying => ~resync_pending /\ snap_id <= last_update_id

SeenMax == \A i \in DOMAIN buffer : buffer[i].u <= seen

SeenCovered ==
  \/ \E i \in DOMAIN buffer : buffer[i].u = seen
  \/ IF resync_pending THEN seen = 0 ELSE last_update_id >= seen

(* Why a seeded spot session waits: the oldest buffered diff starts beyond *)
(* the id that would continue the book.                                    *)
GapHead ==
  Venue = "Spot" /\ resync_pending /\ initialized
    => buffer # <<>> /\ buffer[1].U > last_update_id + 1

IInv ==
  /\ TypeOK
  /\ GoodFeed
  /\ GoodBuffer
  /\ BookFaithful
  /\ DrainedWhenLive
  /\ BufferBounded
  /\ ReplayState
  /\ SeenMax
  /\ SeenCovered
  /\ GapHead

-----------------------------------------------------------------------------

(* The ids of a diff are natural numbers.                                  *)
LEMMA EventIds ==
  ASSUME NEW e \in DepthEvent
  PROVE  e.U \in Nat /\ e.u \in Nat /\ e.pu \in Nat
BY DepthAssumption DEF DepthEvent, UpdateId

(* Applying a diff to the exchange's book at an id the diff reaches back   *)
(* to gives the exchange's book at the diff's last id: what apply_levels   *)
(* leaves alone did not vary in between.                                   *)
LEMMA AcceptFaithful ==
  ASSUME TypeOK, NEW e, GoodDiff(e),
         levels = hist[last_update_id],
         e.pu <= last_update_id, last_update_id < e.u,
         apply_levels(Diff(e))
  PROVE  levels' = hist[e.u] /\ levels' \in Book
<1> DEFINE L == last_update_id
<1>1. hist \in [UpdateId -> Book]
  BY HistoriesAssumption DEF TypeOK
<1>2. L \in e.pu..e.u /\ e.u \in e.pu..e.u /\ L \in UpdateId /\ e.u \in UpdateId
  BY DepthAssumption DEF TypeOK, BookTypeOK, GoodDiff, DepthEvent, UpdateId
<1>3. hist[e.u] \in Book
  BY <1>1, <1>2
<1>4. ASSUME NEW k \in Key, k \notin Varied(e.pu, e.u)
      PROVE  levels[k] = hist[e.u][k]
  BY <1>2, <1>4 DEF Varied
<1>5. levels' = [k \in Key |-> hist[e.u][k]]
  BY <1>4 DEF apply_levels, Diff, Varied
<1> QED
  BY <1>3, <1>5 DEF Book

(* A diff that apply_diff_spot or apply_diff_usdm accepts is newer than    *)
(* the book and reaches back to it.                                        *)
LEMMA AppliedContinues ==
  ASSUME TypeOK, NEW e, GoodDiff(e), ApplyResult(e) = "Applied"
  PROVE  initialized /\ e.pu <= last_update_id /\ last_update_id < e.u
BY DepthAssumption
DEF TypeOK, BookTypeOK, GoodDiff, DepthEvent, UpdateId, ApplyResult, SpotResult, UsdmResult

(* A diff is reported as a gap only if it is newer than the book, and by   *)
(* apply_diff_spot only if it leaves out an id.                            *)
LEMMA GapBeyond ==
  ASSUME TypeOK, NEW e, GoodDiff(e), ApplyResult(e) = "Gap"
  PROVE  /\ initialized
         /\ last_update_id < e.u
         /\ Venue = "Spot" => e.U > last_update_id + 1
BY DepthAssumption
DEF TypeOK, BookTypeOK, GoodDiff, DepthEvent, UpdateId, ApplyResult, SpotResult, UsdmResult

(* A diff is ignored only if the book already covers it.                   *)
LEMMA IgnoredCovered ==
  ASSUME NEW e, ApplyResult(e) = "IgnoredOld"
  PROVE  initialized /\ e.u <= last_update_id
BY DEF ApplyResult, SpotResult, UsdmResult

(* The empty book that reset leaves is a book.                             *)
LEMMA NoLevelsIsBook == NoLevels \in Book
BY DepthAssumption DEF NoLevels, Book

-----------------------------------------------------------------------------

(* A newly constructed session satisfies the invariant.                    *)
LEMMA InitInv == Init => IInv
<1> SUFFICES ASSUME Init PROVE IInv
  OBVIOUS
<1>1. 0 \in UpdateId
  BY DepthAssumption DEF UpdateId
<1>2. buffer = <<>> /\ Len(buffer) = 0 /\ DOMAIN buffer = {} /\ buffer \in Seq(DepthEvent)
  BY DEF Init
<1>3. TypeOK
  BY <1>1, <1>2, NoLevelsIsBook DEF Init, FeedInit, BookInit, TypeOK, BookTypeOK
<1> QED
  BY <1>1, <1>2, <1>3, SessionAssumption
  DEF IInv, Init, FeedInit, BookInit, GoodFeed, GoodBuffer, BookFaithful,
      DrainedWhenLive, BufferBounded, ReplayState, SeenMax, SeenCovered, GapHead

(* buffer_event keeps the invariant when the session ends up pending, and, *)
(* on a seeded book, was pending before or has just seen a gap at e.       *)
LEMMA BufferEventInv ==
  ASSUME IInv, NEW e, GoodDiff(e), ~replaying,
         buffer_event(e, TRUE),
         UNCHANGED <<feedVars, replaying, snap_id>>,
         ~resync_pending =>
            /\ last_update_id < e.u
            /\ Venue = "Spot" => e.U > last_update_id + 1
  PROVE  IInv'
<1> USE SessionAssumption DEF IInv
<1>t. /\ e \in DepthEvent /\ e.u \in UpdateId /\ e.u \in Nat /\ e.u > 0
      /\ 0 \in UpdateId
  BY DepthAssumption DEF GoodDiff, DepthEvent, UpdateId
<1>d. buffer \in Seq(DepthEvent) /\ DOMAIN buffer = 1..Len(buffer) /\ Len(buffer) \in Nat
  BY DEF TypeOK
<1>r. resync_pending' = TRUE
  BY DEF buffer_event
<1>1. CASE Len(buffer) >= KMaxBuffer
  <2>1. buffer' = <<e>> /\ seen' = e.u /\ reset /\ overflows' = overflows + 1
    BY <1>1 DEF buffer_event
  <2>2. Len(buffer') = 1 /\ DOMAIN buffer' = {1} /\ buffer'[1] = e /\ buffer' \in Seq(DepthEvent)
    BY <2>1, <1>t
  <2>3. TypeOK'
    <3>1. BookTypeOK'
      BY <1>t, <2>1, NoLevelsIsBook DEF reset, BookTypeOK
    <3>2. overflows' \in Nat
      BY <2>1 DEF TypeOK
    <3> QED
      BY <1>t, <1>r, <2>1, <2>2, <3>1, <3>2 DEF TypeOK, feedVars
  <2>4. (GoodFeed /\ GoodBuffer)'
    BY <2>2 DEF GoodFeed, GoodBuffer, feedVars, GoodDiff
  <2> QED
    BY <1>t, <1>r, <2>1, <2>2, <2>3, <2>4
    DEF reset, BookFaithful, DrainedWhenLive, BufferBounded, ReplayState, SeenMax,
        SeenCovered, GapHead
<1>2. CASE ~(Len(buffer) >= KMaxBuffer)
  <2>1. buffer' = Append(buffer, e) /\ seen' = NewSeen(e) /\ UNCHANGED <<overflows, bookVars>>
    BY <1>2 DEF buffer_event
  <2>2. /\ Len(buffer') = Len(buffer) + 1
        /\ DOMAIN buffer' = 1..(Len(buffer) + 1)
        /\ \A i \in 1..Len(buffer) : buffer'[i] = buffer[i]
        /\ buffer'[Len(buffer) + 1] = e
        /\ buffer' \in Seq(DepthEvent)
    BY <2>1, <1>t, <1>d
  <2>3. TypeOK'
    <3>1. BookTypeOK'
      BY <2>1 DEF TypeOK, BookTypeOK, bookVars
    <3>2. seen' \in UpdateId
      BY <1>t, <2>1 DEF TypeOK, NewSeen
    <3> QED
      BY <1>r, <2>1, <2>2, <3>1, <3>2 DEF TypeOK, feedVars
  <2>4. GoodFeed'
    BY DEF GoodFeed, feedVars, GoodDiff
  <2>5. GoodBuffer'
    BY <1>d, <2>2 DEF GoodBuffer, GoodDiff
  <2>6. BookFaithful' /\ DrainedWhenLive' /\ ReplayState'
    BY <1>r, <2>1 DEF BookFaithful, DrainedWhenLive, ReplayState, bookVars, feedVars
  <2>7. BufferBounded'
    BY <1>2, <1>d, <2>2 DEF BufferBounded
  <2>8. SeenMax' /\ SeenCovered'
    <3>1. seen \in Nat /\ last_update_id \in Nat
      BY DepthAssumption DEF TypeOK, BookTypeOK, UpdateId
    <3>2. ASSUME ~(e.u > seen) PROVE \E i \in DOMAIN buffer : buffer[i].u = seen
      <4>1. CASE resync_pending
        BY <4>1, <3>1, <3>2, <1>t DEF SeenCovered
      <4>2. CASE ~resync_pending
        BY <4>2, <3>1, <3>2, <1>t DEF SeenCovered
      <4> QED BY <4>1, <4>2
    <3>3. SeenMax'
      <4>1. seen <= seen' /\ e.u <= seen' /\ seen' \in Nat
        BY <1>t, <2>1, <3>1 DEF NewSeen
      <4>2. ASSUME NEW i \in 1..Len(buffer) PROVE buffer[i].u \in Nat
        <5>1. buffer[i] \in DepthEvent
          BY <1>d
        <5> QED BY <5>1, EventIds
      <4> QED
        BY <1>d, <2>2, <3>1, <4>1, <4>2 DEF SeenMax
    <3>4. \E i \in DOMAIN buffer' : buffer'[i].u = seen'
      <4>1. CASE e.u > seen
        BY <4>1, <1>d, <2>1, <2>2 DEF NewSeen
      <4>2. CASE ~(e.u > seen)
        BY <4>2, <1>d, <2>1, <2>2, <3>2 DEF NewSeen
      <4> QED BY <4>1, <4>2
    <3> QED BY <3>3, <3>4 DEF SeenCovered
  <2>9. GapHead'
    <3> SUFFICES ASSUME Venue = "Spot", initialized'
                 PROVE  buffer' # <<>> /\ buffer'[1].U > last_update_id' + 1
      BY DEF GapHead
    <3>1. buffer' # <<>>
      BY <1>d, <2>2
    <3>2. CASE resync_pending
      BY <3>1, <3>2, <1>d, <2>1, <2>2 DEF GapHead, bookVars
    <3>3. CASE ~resync_pending
      <4>1. buffer = <<>>
        BY <3>3 DEF DrainedWhenLive
      <4>2. buffer'[1] = e
        BY <4>1, <2>2
      <4> QED BY <3>1, <3>3, <4>2, <2>1 DEF bookVars
    <3> QED BY <3>2, <3>3
  <2> QED
    BY <2>3, <2>4, <2>5, <2>6, <2>7, <2>8, <2>9
<1> QED
  BY <1>1, <1>2

(* The two ways the replay loop of on_snapshot consumes a diff: it is      *)
(* covered by the book, or it was just applied.                            *)
LEMMA ConsumeHeadInv ==
  ASSUME IInv, replaying, buffer # <<>>, buffer' = Tail(buffer),
         UNCHANGED <<feedVars, resync_pending, replaying, overflows, snap_id, seen>>,
         BookTypeOK', BookFaithful', initialized',
         last_update_id <= last_update_id', Head(buffer).u <= last_update_id'
  PROVE  IInv'
<1> USE DEF IInv
<1>n. /\ last_update_id \in Nat /\ last_update_id' \in Nat /\ snap_id \in Nat /\ seen \in Nat
      /\ ~resync_pending /\ snap_id <= last_update_id
  BY DepthAssumption DEF TypeOK, BookTypeOK, UpdateId, ReplayState
<1>d. buffer \in Seq(DepthEvent) /\ DOMAIN buffer = 1..Len(buffer) /\ Len(buffer) \in Nat
      /\ Len(buffer) > 0
  BY DEF TypeOK
<1>b. /\ buffer' \in Seq(DepthEvent)
      /\ Len(buffer') = Len(buffer) - 1
      /\ DOMAIN buffer' = 1..(Len(buffer) - 1)
      /\ \A i \in DOMAIN buffer' : buffer'[i] = buffer[i + 1] /\ i + 1 \in DOMAIN buffer
      /\ Head(buffer) = buffer[1]
  BY <1>d
<1>1. TypeOK'
  BY <1>b DEF TypeOK, feedVars
<1>2. GoodFeed'
  BY DEF GoodFeed, GoodDiff, feedVars
<1>3. GoodBuffer'
  BY <1>b DEF GoodBuffer, GoodDiff
<1>4. DrainedWhenLive' /\ ReplayState' /\ GapHead'
  BY <1>n DEF DrainedWhenLive, ReplayState, GapHead
<1>5. BufferBounded'
  BY <1>b, <1>d, SessionAssumption DEF BufferBounded
<1>6. SeenMax'
  BY <1>b DEF SeenMax
<1>7. SeenCovered'
  <2>1. CASE last_update_id >= seen
    BY <2>1, <1>n DEF SeenCovered
  <2>2. CASE ~(last_update_id >= seen)
    <3>1. PICK i \in DOMAIN buffer : buffer[i].u = seen
      BY <2>2, <1>n DEF SeenCovered
    <3>2. CASE i = 1
      BY <3>1, <3>2, <1>b, <1>n DEF SeenCovered
    <3>3. CASE i # 1
      <4>1. i - 1 \in DOMAIN buffer' /\ buffer'[i - 1] = buffer[i]
        BY <3>3, <1>b, <1>d
      <4> QED BY <3>1, <4>1 DEF SeenCovered
    <3> QED BY <3>2, <3>3
  <2> QED BY <2>1, <2>2
<1> QED
  BY <1>1, <1>2, <1>3, <1>4, <1>5, <1>6, <1>7

(* Every step, of the feed, of on_diff, of on_snapshot and its loop and of *)
(* request_resync, preserves the invariant.                                *)
LEMMA NextInv == IInv /\ [Next]_vars => IInv'
<1> SUFFICES ASSUME IInv, [Next]_vars PROVE IInv'
  OBVIOUS
<1> USE DEF IInv
<1>n. /\ last_update_id \in Nat /\ snap_id \in Nat /\ seen \in Nat /\ cut \in Nat
      /\ \A s \in UpdateId : s \in Nat
  BY DepthAssumption DEF TypeOK, BookTypeOK, UpdateId
<1>1. CASE PublishSome
  <2>1. PICK U \in UpdateId, u \in UpdateId : PublishDiff(U, u)
    BY <1>1 DEF PublishSome
  <2>2. UNCHANGED <<bookVars, sessionVars>>
    BY <1>1 DEF PublishSome
  <2> DEFINE e == [U |-> U, u |-> u, pu |-> cut]
  <2>3. GoodDiff(e) /\ e \in DepthEvent
    BY <2>1 DEF PublishDiff, GoodDiff, DepthEvent, TypeOK
  <2>4. TypeOK'
    BY <2>1, <2>2, <2>3 DEF TypeOK, BookTypeOK, PublishDiff, bookVars, sessionVars
  <2>5. GoodFeed'
    BY <2>1, <2>3 DEF GoodFeed, PublishDiff, GoodDiff
  <2> QED
    BY <2>1, <2>2, <2>4, <2>5
    DEF PublishDiff, bookVars, sessionVars, GoodBuffer, GoodDiff, BookFaithful,
        DrainedWhenLive, BufferBounded, ReplayState, SeenMax, SeenCovered, GapHead
<1>2. CASE DeliverSome
  <2>1. PICK e \in published : on_diff(e)
    BY <1>2 DEF DeliverSome
  <2>2. GoodDiff(e) /\ e \in DepthEvent
    BY DEF GoodFeed, GoodDiff
  <2>3. ~replaying /\ UNCHANGED <<feedVars, replaying, snap_id>>
    BY <2>1 DEF on_diff
  <2>4. CASE resync_pending
    <3>1. buffer_event(e, TRUE)
      BY <2>1, <2>4 DEF on_diff, buffer_event
    <3> QED BY <3>1, <2>2, <2>3, <2>4, BufferEventInv
  <2>5. CASE ~resync_pending
    <3>1. initialized /\ buffer = <<>> /\ last_update_id >= seen
      BY <2>3, <2>5 DEF DrainedWhenLive, SeenCovered
    <3>2. CASE on_applied(e)
      <4>1. /\ initialized' = initialized /\ started' = TRUE /\ last_update_id' = e.u
            /\ UNCHANGED <<resync_pending, buffer, overflows>>
            /\ seen' = NewSeen(e) /\ apply_levels(Diff(e))
        BY <3>2 DEF on_applied, AcceptDiff
      <4>2. e.pu <= last_update_id /\ last_update_id < e.u
        BY <3>2, <2>2, AppliedContinues DEF on_applied
      <4>3. levels' = hist[e.u] /\ levels' \in Book
        BY <4>1, <4>2, <3>1, <2>2, AcceptFaithful DEF BookFaithful
      <4>4. seen' = e.u /\ e.u \in UpdateId
        BY <4>1, <4>2, <3>1, <2>2, <1>n, EventIds DEF NewSeen, GoodDiff, DepthEvent
      <4>5. BookTypeOK'
        BY <4>1, <4>3, <4>4 DEF TypeOK, BookTypeOK
      <4>6. TypeOK'
        BY <4>1, <4>4, <4>5, <2>3 DEF TypeOK, feedVars
      <4> QED
        BY <4>1, <4>3, <4>4, <4>6, <3>1, <2>3, <2>5, <2>2, EventIds
        DEF feedVars, GoodFeed, GoodBuffer, GoodDiff, BookFaithful,
            DrainedWhenLive, BufferBounded, ReplayState, SeenMax, SeenCovered, GapHead
    <3>3. CASE on_ignored(e)
      <4>1. UNCHANGED <<bookVars, resync_pending, buffer, overflows>> /\ seen' = NewSeen(e)
        BY <3>3 DEF on_ignored
      <4>2. e.u <= last_update_id
        BY <3>3, IgnoredCovered DEF on_ignored
      <4>3. seen' \in UpdateId /\ seen' <= last_update_id
        BY <4>1, <4>2, <3>1, <2>2 DEF NewSeen, TypeOK, DepthEvent
      <4>4. TypeOK'
        BY <4>1, <4>3, <2>3 DEF TypeOK, BookTypeOK, bookVars, feedVars
      <4> QED
        BY <4>1, <4>3, <4>4, <3>1, <2>3, <2>5
        DEF bookVars, feedVars, GoodFeed, GoodBuffer, GoodDiff, BookFaithful,
            DrainedWhenLive, BufferBounded, ReplayState, SeenMax, SeenCovered, GapHead
    <3>4. CASE on_gap(e)
      <4>1. buffer_event(e, TRUE)
        BY <3>4 DEF on_gap
      <4> QED
        BY <4>1, <3>4, <2>2, <2>3, GapBeyond, BufferEventInv DEF on_gap
    <3> QED
      BY <2>1, <2>5, <3>1, <3>2, <3>3, <3>4 DEF on_diff
  <2> QED
    BY <2>4, <2>5
<1>3. CASE SnapshotSome
  <2>1. PICK s \in UpdateId : on_snapshot(hist[s], s)
    BY <1>3 DEF SnapshotSome
  <2>2. /\ levels' = hist[s] /\ last_update_id' = s /\ initialized' = TRUE
        /\ started' = FALSE /\ resync_pending' = FALSE /\ replaying' = TRUE /\ snap_id' = s
        /\ UNCHANGED <<feedVars, buffer, overflows, seen>>
    BY <2>1 DEF on_snapshot, set_snapshot
  <2>3. hist[s] \in Book
    BY HistoriesAssumption DEF TypeOK
  <2>4. TypeOK'
    BY <2>2, <2>3 DEF TypeOK, BookTypeOK, feedVars
  <2>5. SeenCovered'
    BY <1>3, <1>n, <2>2 DEF SnapshotSome, SeenCovered
  <2> QED
    BY <1>n, <2>2, <2>4, <2>5
    DEF feedVars, GoodFeed, GoodBuffer, GoodDiff, BookFaithful,
        DrainedWhenLive, BufferBounded, ReplayState, SeenMax, GapHead
<1>h. ASSUME buffer # <<>>
      PROVE  /\ Head(buffer) = buffer[1] /\ 1 \in DOMAIN buffer
             /\ GoodDiff(Head(buffer)) /\ Head(buffer) \in DepthEvent
  <2>1. Head(buffer) = buffer[1] /\ 1 \in DOMAIN buffer
    BY <1>h DEF TypeOK
  <2> QED BY <2>1 DEF GoodBuffer, GoodDiff
<1>4. CASE ReplayDrop
  <2>1. /\ replaying /\ buffer # <<>> /\ buffer' = Tail(buffer)
        /\ UNCHANGED <<feedVars, bookVars, resync_pending, replaying, overflows, snap_id, seen>>
    BY <1>4 DEF ReplayDrop
  <2>2. Head(buffer).u <= last_update_id
    <3>1. CASE Head(buffer).u <= snap_id
      BY <3>1, <1>n, <1>h, <2>1, EventIds DEF ReplayState
    <3>2. CASE ApplyResult(Head(buffer)) = "IgnoredOld"
      BY <3>2, IgnoredCovered
    <3> QED BY <1>4, <3>1, <3>2 DEF ReplayDrop
  <2>3. BookTypeOK' /\ BookFaithful' /\ initialized'
    BY <2>1 DEF TypeOK, BookTypeOK, BookFaithful, bookVars, feedVars, DrainedWhenLive, ReplayState
  <2> QED
    BY <1>n, <2>1, <2>2, <2>3, ConsumeHeadInv DEF bookVars
<1>5. CASE ReplayApply
  <2> DEFINE e == Head(buffer)
  <2>1. /\ replaying /\ buffer # <<>> /\ buffer' = Tail(buffer)
        /\ UNCHANGED <<feedVars, resync_pending, replaying, overflows, snap_id, seen>>
        /\ initialized' = initialized /\ started' = TRUE /\ last_update_id' = e.u
        /\ apply_levels(Diff(e)) /\ ApplyResult(e) = "Applied"
    BY <1>5 DEF ReplayApply, AcceptDiff
  <2>2. GoodDiff(e) /\ e \in DepthEvent /\ e.u \in Nat
    BY <1>h, <2>1, EventIds
  <2>3. initialized /\ e.pu <= last_update_id /\ last_update_id < e.u
    BY <2>1, <2>2, AppliedContinues
  <2>4. levels' = hist[e.u] /\ levels' \in Book
    BY <2>1, <2>2, <2>3, AcceptFaithful DEF BookFaithful
  <2>5. BookTypeOK' /\ BookFaithful' /\ initialized'
    BY <2>1, <2>2, <2>3, <2>4 DEF TypeOK, BookTypeOK, BookFaithful, feedVars, DepthEvent
  <2>6. last_update_id <= last_update_id' /\ e.u <= last_update_id'
    BY <1>n, <2>1, <2>2, <2>3
  <2> HIDE DEF e
  <2> QED
    BY <2>1, <2>5, <2>6, ConsumeHeadInv DEF e
<1>6. CASE ReplayGap
  <2>1. /\ replaying /\ buffer # <<>> /\ resync_pending' = TRUE /\ replaying' = FALSE
        /\ UNCHANGED <<feedVars, bookVars, buffer, overflows, snap_id, seen>>
    BY <1>6 DEF ReplayGap
  <2>2. /\ last_update_id < buffer[1].u
        /\ Venue = "Spot" => buffer[1].U > last_update_id + 1
    BY <1>6, <1>h, <2>1, GapBeyond DEF ReplayGap
  <2>3. buffer[1].u <= seen /\ buffer[1].u \in Nat /\ ~resync_pending
    BY <1>h, <2>1, EventIds DEF SeenMax, ReplayState
  <2>4. \E i \in DOMAIN buffer : buffer[i].u = seen
    BY <1>n, <2>2, <2>3 DEF SeenCovered
  <2>5. TypeOK'
    BY <2>1 DEF TypeOK, BookTypeOK, bookVars, feedVars
  <2> QED
    BY <2>1, <2>2, <2>4, <2>5
    DEF bookVars, feedVars, GoodFeed, GoodBuffer, GoodDiff, BookFaithful,
        DrainedWhenLive, BufferBounded, ReplayState, SeenMax, SeenCovered, GapHead
<1>7. CASE ReplayDone
  <2>1. /\ buffer = <<>> /\ replaying' = FALSE
        /\ UNCHANGED <<feedVars, bookVars, resync_pending, buffer, overflows, snap_id, seen>>
    BY <1>7 DEF ReplayDone
  <2>2. TypeOK'
    BY <2>1 DEF TypeOK, BookTypeOK, bookVars, feedVars
  <2> QED
    BY <2>1, <2>2
    DEF bookVars, feedVars, GoodFeed, GoodBuffer, GoodDiff, BookFaithful,
        DrainedWhenLive, BufferBounded, ReplayState, SeenMax, SeenCovered, GapHead
<1>8. CASE request_resync
  <2>1. /\ ~replaying /\ resync_pending' = TRUE /\ buffer' = <<>> /\ seen' = 0
        /\ levels' = NoLevels /\ initialized' = FALSE /\ last_update_id' = 0
        /\ started' = FALSE /\ UNCHANGED <<feedVars, overflows, replaying, snap_id>>
    BY <1>8 DEF request_resync, reset
  <2>2. buffer' \in Seq(DepthEvent) /\ Len(buffer') = 0 /\ DOMAIN buffer' = {}
    BY <2>1
  <2>3. 0 \in UpdateId
    BY DepthAssumption DEF UpdateId
  <2>4. TypeOK'
    BY <2>1, <2>2, <2>3, NoLevelsIsBook DEF TypeOK, BookTypeOK, feedVars
  <2> QED
    BY <2>1, <2>2, <2>4, SessionAssumption
    DEF feedVars, GoodFeed, GoodBuffer, GoodDiff, BookFaithful,
        DrainedWhenLive, BufferBounded, ReplayState, SeenMax, SeenCovered, GapHead
<1>9. CASE UNCHANGED vars
  BY <1>9
  DEF vars, feedVars, bookVars, sessionVars, TypeOK, BookTypeOK, GoodFeed, GoodBuffer, GoodDiff,
      BookFaithful, DrainedWhenLive, BufferBounded, ReplayState, SeenMax, SeenCovered, GapHead
<1> QED
  BY <1>1, <1>2, <1>3, <1>4, <1>5, <1>6, <1>7, <1>8, <1>9 DEF Next

-----------------------------------------------------------------------------

(* The strengthened invariant holds throughout.                            *)
THEOREM InductiveInvariant == Spec => []IInv
<1>1. Init => IInv
  BY InitInv
<1>2. IInv /\ [Next]_vars => IInv'
  BY NextInv
<1> QED
  BY <1>1, <1>2, PTL DEF Spec

(* Types are kept by every operation of the session.                       *)
THEOREM TypeCorrect == Spec => []TypeOK
<1>1. IInv => TypeOK
  BY DEF IInv
<1> QED
  BY <1>1, InductiveInvariant, PTL

(* A seeded book is the exchange's book at its update id, whatever the     *)
(* network does to diffs and snapshots.                                    *)
THEOREM BookIsFaithful == Spec => []BookFaithful
<1>1. IInv => BookFaithful
  BY DEF IInv
<1> QED
  BY <1>1, InductiveInvariant, PTL

(* A ready session has caught up with every diff it was handed: on_diff    *)
(* and on_snapshot lose none.                                              *)
THEOREM ReadyIsCaughtUp == Spec => []NeverBehind
<1>1. IInv => NeverBehind
  <2> SUFFICES ASSUME IInv, Ready, ~replaying PROVE last_update_id >= seen
    BY DEF NeverBehind
  <2>1. ~resync_pending /\ DOMAIN buffer = {}
    BY DEF IInv, Ready, DrainedWhenLive
  <2> QED
    BY <2>1 DEF IInv, SeenCovered
<1> QED
  BY <1>1, InductiveInvariant, PTL

(* A session that waits for no snapshot has drained its buffer.            *)
THEOREM LiveIsDrained == Spec => []DrainedWhenLive
<1>1. IInv => DrainedWhenLive
  BY DEF IInv
<1> QED
  BY <1>1, InductiveInvariant, PTL

(* The buffer never outgrows kMaxBuffer.                                   *)
THEOREM BufferIsBounded == Spec => []BufferBounded
<1>1. IInv => BufferBounded
  BY DEF IInv
<1> QED
  BY <1>1, InductiveInvariant, PTL

(* On the spot venue a seeded session only gives up its book when an       *)
(* update is really missing.  The same is false for USD-M.                 *)
THEOREM SpotGapIsReal ==
  ASSUME Venue = "Spot"
  PROVE  Spec => []GapIsReal
<1>1. IInv => GapIsReal
  <2> SUFFICES ASSUME IInv, resync_pending, initialized
               PROVE  Head(buffer).pu > last_update_id
    BY DEF GapIsReal
  <2>1. buffer # <<>> /\ buffer[1].U > last_update_id + 1
    BY DEF IInv, GapHead
  <2>2. Head(buffer) = buffer[1] /\ 1 \in DOMAIN buffer
    BY <2>1 DEF IInv, TypeOK
  <2>3. GoodDiff(buffer[1]) /\ buffer[1] \in DepthEvent
    BY <2>2 DEF IInv, GoodBuffer, GoodDiff
  <2>4. last_update_id \in Nat
    BY DepthAssumption DEF IInv, TypeOK, BookTypeOK, UpdateId
  <2>5. buffer[1].U = buffer[1].pu + 1
    BY <2>3 DEF GoodDiff
  <2> QED
    BY <2>1, <2>2, <2>3, <2>4, <2>5, EventIds
<1> QED
  BY <1>1, InductiveInvariant, PTL

(* The book of a ready session never moves back to an older id.            *)
THEOREM BookMovesForward == Spec => ForwardOnly
<1>1. IInv /\ [Next]_vars => [Ready /\ initialized' => last_update_id' >= last_update_id]_vars
  <2> SUFFICES ASSUME IInv, Next, Ready, initialized'
               PROVE  last_update_id' >= last_update_id
    OBVIOUS
  <2>1. last_update_id \in Nat /\ ~resync_pending
    BY DepthAssumption DEF IInv, TypeOK, BookTypeOK, UpdateId, Ready
  <2>2. CASE PublishSome
    BY <2>1, <2>2 DEF PublishSome, bookVars
  <2>3. CASE DeliverSome
    <3>1. PICK e \in published : on_diff(e)
      BY <2>3 DEF DeliverSome
    <3>2. GoodDiff(e) /\ e \in DepthEvent
      BY DEF IInv, GoodFeed, GoodDiff
    <3>3. CASE on_applied(e)
      <4>1. last_update_id < e.u
        BY <3>2, <3>3, AppliedContinues DEF on_applied, IInv
      <4> QED
        BY <2>1, <3>2, <3>3, <4>1, EventIds DEF on_applied, AcceptDiff
    <3>4. CASE on_ignored(e)
      BY <2>1, <3>4 DEF on_ignored, bookVars
    <3>5. CASE on_gap(e)
      <4>1. CASE Len(buffer) >= KMaxBuffer
        <5>1. initialized' = FALSE
          BY <3>5, <4>1 DEF on_gap, buffer_event, reset
        <5> QED BY <5>1
      <4>2. CASE ~(Len(buffer) >= KMaxBuffer)
        <5>1. last_update_id' = last_update_id
          BY <3>5, <4>2 DEF on_gap, buffer_event, bookVars
        <5> QED BY <5>1, <2>1
      <4> QED BY <4>1, <4>2
    <3> QED
      BY <2>1, <3>1, <3>3, <3>4, <3>5 DEF on_diff, Ready
  <2>4. CASE SnapshotSome
    BY <2>1, <2>4 DEF SnapshotSome
  <2>5. CASE ReplayApply
    <3>1. Head(buffer) = buffer[1] /\ 1 \in DOMAIN buffer
      BY <2>5 DEF ReplayApply, IInv, TypeOK
    <3>2. GoodDiff(Head(buffer)) /\ Head(buffer) \in DepthEvent
      BY <3>1 DEF IInv, GoodBuffer, GoodDiff
    <3>3. last_update_id < Head(buffer).u
      BY <2>5, <3>2, AppliedContinues DEF ReplayApply, IInv
    <3> QED
      BY <2>1, <2>5, <3>2, <3>3, EventIds DEF ReplayApply, AcceptDiff
  <2>6. CASE ReplayDrop \/ ReplayGap \/ ReplayDone
    <3>1. last_update_id' = last_update_id
      BY <2>6 DEF ReplayDrop, ReplayGap, ReplayDone, bookVars
    <3> QED BY <3>1, <2>1
  <2>7. CASE request_resync
    BY <2>1, <2>7 DEF request_resync, reset
  <2> QED
    BY <2>2, <2>3, <2>4, <2>5, <2>6, <2>7 DEF Next
<1> QED
  BY <1>1, InductiveInvariant, PTL DEF Spec, ForwardOnly

=============================================================================
