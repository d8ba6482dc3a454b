---------------------------- MODULE ReplayProofs ----------------------------
(***************************************************************************)
(* What holds of the rows replay writes, for every history of the          *)
(* exchange, wherever the live run was killed, however little of its two   *)
(* files survived, with the sidecar or, on the spot venue, without it;     *)
(* and that, with the sidecar, they are the rows the live run wrote.       *)
(*                                                                         *)
(* A book seeded from a depth5 row is only a part of the exchange's, so    *)
(* the invariant of BookSession does not hold of replay's session.  PInv   *)
(* keeps what does: the book is part of the exchange's at its update id,   *)
(* all of it with a sidecar, and what is in the buffer and in the rows yet *)
(* to be read was published, which the live run guarantees (LiveInv).      *)
(*                                                                         *)
(* The rows are compared by running the loop of replay on values instead   *)
(* of variables (Goes, one step; Reaches, any number of them).  While the  *)
(* live run goes on, that loop, from its first row, reaches a state that   *)
(* stands where the handler stands (LInv); when the new process starts it  *)
(* is at the beginning of this path, and each of its steps is the next one *)
(* on it (JInv).  The induction over the length of a path is SetInduction. *)
(***************************************************************************)
EXTENDS Replay, CaptureProofs, WellFoundedInduction

(* The levels lv are some of book's.                                       *)
PartOf(lv, book) == \A k \in Key : lv[k] \in {0, book[k]}

(* The rows of the order-book file.                                        *)
RowSet == [type: {"D", "S", "T"}, id: UpdateId, top: Book]

(* The diffs that the audit rows hold were published, and what was         *)
(* published is well formed.                                               *)
FeedInv ==
  /\ hist \in [UpdateId -> Book]
  /\ \A e \in published : GoodDiff(e)
  /\ md \in Seq([kind: Kinds, ev: DepthEvent, epoch: 0..MaxEpoch, seq: Nat])
  /\ \A i \in DOMAIN md : md[i].kind = "Diff" => md[i].ev \in published
  /\ rep_rows \in Seq(RowSet)
  /\ at \in Nat

(* While the live run goes on its own invariant holds.                     *)
LiveInv == mode = "live" => CInv /\ rep_rows = <<>>

(* The book of replay's session.                                           *)
BookIsPart ==
  initialized => IF have_sidecar THEN levels = hist[last_update_id]
                 ELSE PartOf(levels, hist[last_update_id])

(* Replay's session, the row it handles and what is left of the sidecar.   *)
PInv ==
  mode # "live" =>
    /\ last_update_id \in UpdateId /\ levels \in Book
    /\ buffer \in Seq(DepthEvent) /\ \A i \in DOMAIN buffer : GoodDiff(buffer[i])
    /\ frame.ev \in DepthEvent /\ (frame.kind = "Diff" => frame.ev \in published)
    /\ sidecar \in Seq(UpdateId) /\ (phase = "fetch" => sidecar # <<>>)
    /\ have_sidecar \in Sidecars
    /\ BookIsPart

(* All of it.                                                              *)
RInv ==
  /\ FeedInv
  /\ LiveInv
  /\ PInv
  /\ ReplayFaithful

-----------------------------------------------------------------------------

(* The ids of a diff are natural numbers.                                  *)
LEMMA DiffIds ==
  ASSUME NEW e \in DepthEvent
  PROVE  e.U \in Nat /\ e.u \in Nat /\ e.pu \in Nat /\ e.u \in UpdateId
BY DepthAssumption DEF DepthEvent, UpdateId

(* What a depth5 payload shows is part of the book.                        *)
LEMMA PartialIsPart ==
  ASSUME NEW book \in Book
  PROVE  Partial(book) \in Book /\ PartOf(Partial(book), book)
BY DepthAssumption DEF Partial, Book, PartOf

(* A book is part of itself.                                               *)
LEMMA WholeIsPart ==
  ASSUME NEW book \in Book
  PROVE  PartOf(book, book)
BY DEF PartOf

(* A diff that is accepted is newer than the book and reaches back to it.  *)
LEMMA AcceptedContinues ==
  ASSUME last_update_id \in UpdateId, NEW e, GoodDiff(e), Session!ApplyResult(e) = "Applied"
  PROVE  initialized /\ e.pu <= last_update_id /\ last_update_id < e.u
<1>1. e \in DepthEvent /\ e.pu < e.U /\ e.U <= e.u /\ (Venue = "Spot" => e.U = e.pu + 1)
  BY DEF GoodDiff
<1>2. e.U \in Nat /\ e.u \in Nat /\ e.pu \in Nat /\ last_update_id \in Nat
  BY <1>1, DiffIds, DepthAssumption DEF UpdateId
<1>3. CASE Venue = "Spot"
  BY <1>1, <1>2, <1>3 DEF Session!ApplyResult, Session!SpotResult
<1>4. CASE Venue = "Usdm"
  BY <1>1, <1>2, <1>4 DEF Session!ApplyResult, Session!UsdmResult
<1> QED
  BY <1>3, <1>4, DepthAssumption

(* Applying such a diff to part of the exchange's book gives part of the   *)
(* exchange's book at the diff's last id, and to all of it all of it.      *)
LEMMA AcceptKeepsPart ==
  ASSUME NEW h \in [UpdateId -> Book], NEW e, GoodDiff(e), NEW id \in UpdateId,
         e.pu <= id, id < e.u, NEW lv \in Book, NEW new,
         new = [k \in Key |-> IF \E i, j \in e.pu..e.u : h[i][k] # h[j][k]
                              THEN h[e.u][k] ELSE lv[k]]
  PROVE  /\ new \in Book
         /\ lv = h[id] => new = h[e.u]
         /\ PartOf(lv, h[id]) => PartOf(new, h[e.u])
<1>1. e \in DepthEvent /\ e.u \in UpdateId /\ h[e.u] \in Book /\ h[id] \in Book
  BY DiffIds DEF GoodDiff
<1>2. id \in e.pu..e.u /\ e.u \in e.pu..e.u
  BY <1>1, DiffIds, DepthAssumption DEF UpdateId
<1>3. ASSUME NEW k \in Key
      PROVE  \/ new[k] = h[e.u][k]
             \/ new[k] = lv[k] /\ h[id][k] = h[e.u][k]
  BY <1>2
<1>4. new \in Book
  BY <1>1 DEF Book
<1>5. ASSUME lv = h[id] PROVE new = h[e.u]
  <2>1. \A k \in Key : new[k] = h[e.u][k]
    BY <1>3, <1>5
  <2> QED BY <1>1, <1>4, <2>1 DEF Book
<1>6. ASSUME PartOf(lv, h[id]) PROVE PartOf(new, h[e.u])
  BY <1>3, <1>6 DEF PartOf
<1> QED BY <1>4, <1>5, <1>6

(* The same of the session's book.                                         *)
LEMMA AcceptInv ==
  ASSUME RInv, mode # "live", NEW e, GoodDiff(e), Session!ApplyResult(e) = "Applied",
         Session!AcceptDiff(e, Session!Diff(e)), UNCHANGED <<hist, have_sidecar>>
  PROVE  last_update_id' \in UpdateId /\ levels' \in Book /\ BookIsPart' /\ last_update_id' = e.u
<1>1. /\ hist \in [UpdateId -> Book] /\ last_update_id \in UpdateId /\ levels \in Book
      /\ BookIsPart
  BY DEF RInv, FeedInv, PInv
<1>2. initialized /\ e.pu <= last_update_id /\ last_update_id < e.u
  BY <1>1, AcceptedContinues
<1>3. levels' = [k \in Key |-> IF \E i, j \in e.pu..e.u : hist[i][k] # hist[j][k]
                               THEN hist[e.u][k] ELSE levels[k]]
  BY DEF Session!AcceptDiff, Session!apply_levels, Session!Diff, Session!Varied
<1>4. /\ levels' \in Book
      /\ levels = hist[last_update_id] => levels' = hist[e.u]
      /\ PartOf(levels, hist[last_update_id]) => PartOf(levels', hist[e.u])
  BY <1>1, <1>2, <1>3, AcceptKeepsPart
<1>5. last_update_id' = e.u /\ e.u \in UpdateId
  BY DiffIds DEF Session!AcceptDiff, GoodDiff
<1> QED
  BY <1>1, <1>2, <1>4, <1>5 DEF BookIsPart

(* A row that is written.                                                  *)
LEMMA WriteRow ==
  ASSUME RInv, UNCHANGED <<hist, have_sidecar>>, NEW row \in RowSet,
         rep_rows' = Append(rep_rows, row),
         IF have_sidecar /\ row.type # "S" THEN row.top = hist[row.id]
         ELSE PartOf(row.top, hist[row.id])
  PROVE  rep_rows' \in Seq(RowSet) /\ ReplayFaithful'
<1>1. rep_rows \in Seq(RowSet)
  BY DEF RInv, FeedInv
<1>2. /\ rep_rows' \in Seq(RowSet)
      /\ \A i \in DOMAIN rep_rows' :
           rep_rows'[i] = row \/ (i \in DOMAIN rep_rows /\ rep_rows'[i] = rep_rows[i])
  BY <1>1
<1>3. ReplayFaithful'
  BY <1>2 DEF RInv, ReplayFaithful, PartOf
<1> QED BY <1>2, <1>3

(* What is known of the session's diffs while the capture is live.         *)
LEMMA LiveFacts ==
  ASSUME CInv
  PROVE  /\ hist \in [UpdateId -> Book]
         /\ \A e \in published : GoodDiff(e)
         /\ md \in Seq([kind: Kinds, ev: DepthEvent, epoch: 0..MaxEpoch, seq: Nat])
         /\ snaps \in Seq(UpdateId)
<1>1. hist \in [UpdateId -> Book] /\ published \subseteq DepthEvent
  BY SessionTypes DEF CInv
<1>2. \A e \in published : GoodDiff(e)
  BY <1>1 DEF CInv, SP!IInv, SP!GoodFeed, SP!GoodDiff, GoodDiff
<1> QED
  BY <1>1, <1>2 DEF CInv, TypeOK

(* The same of the next state.                                             *)
LEMMA LiveFactsNext ==
  ASSUME CInv'
  PROVE  /\ hist' \in [UpdateId -> Book]
         /\ \A e \in published' : GoodDiff(e)
         /\ md' \in Seq([kind: Kinds, ev: DepthEvent, epoch: 0..MaxEpoch, seq: Nat])
<1>1. hist' \in [UpdateId -> Book] /\ published' \subseteq DepthEvent
  BY HistoriesAssumption
  DEF CInv, SP!IInv, SP!TypeOK, UpdateId, Book, DepthEvent, SP!UpdateId, SP!Book, SP!DepthEvent
<1>2. \A e \in published' : GoodDiff(e)
  BY <1>1 DEF CInv, SP!IInv, SP!GoodFeed, SP!GoodDiff, GoodDiff
<1> QED
  BY <1>1, <1>2 DEF CInv, TypeOK

(* The live run records published diffs only.                              *)
LEMMA LiveStep ==
  ASSUME RInv, Live
  PROVE  RInv'
<1>1. /\ mode = "live" /\ mode' = "live" /\ Next /\ CInv
      /\ rep_rows = <<>> /\ rep_rows' = <<>> /\ at' = at
  BY DEF RInv, LiveInv, Live
<1>2. CInv'
  BY <1>1, CaptureNext
<1>3. /\ hist' \in [UpdateId -> Book] /\ \A e \in published' : GoodDiff(e)
      /\ md' \in Seq([kind: Kinds, ev: DepthEvent, epoch: 0..MaxEpoch, seq: Nat])
  BY <1>2, LiveFactsNext
<1>4. \A i \in DOMAIN md' : md'[i].kind = "Diff" => md'[i].ev \in published'
  <2>1. /\ published \subseteq published'
        /\ \A i \in DOMAIN md : md[i].kind = "Diff" => md[i].ev \in published
    <3>1. published \subseteq published'
      BY <1>1
      DEF Next, SendDiff, SendMangled, SendOther, Reconnect, handler, fetch_snapshot, ReadGarbage, ReadFrame,
          Read, NewEpoch, HandleDiff, HandleTrade, HandleDepth5, EmitRow, FetchFails,
          FetchSucceeds, ReplayDrop, ReplayApply, ReplayEnd, PublishDiff, feedVars,
          Session!feedVars, Session!request_resync, Session!on_diff, Session!on_snapshot,
          Session!ReplayDrop, Session!ReplayApply, Session!ReplayGap, Session!ReplayDone
    <3> QED BY <3>1 DEF RInv, FeedInv
  <2>2. CASE ReadFrame
    <3>1. wire # <<>> /\ md' = Append(md, AuditRow(Head(wire), epoch, conn_seq'))
      BY <2>2 DEF ReadFrame, Read
    <3>2. wire \in Seq([kind: Kinds, ev: DepthEvent])
      BY <1>1 DEF CInv, TypeOK
    <3>3. 1 \in DOMAIN wire /\ Head(wire) = wire[1]
      BY <3>1, <3>2
    <3>4. Head(wire).kind = "Diff" => Head(wire).ev \in published
      BY <1>1, <3>3 DEF CInv, WireGood
    <3> DEFINE row == AuditRow(Head(wire), epoch, conn_seq')
    <3>5. row.kind = "Diff" => row.ev \in published
      BY <3>4 DEF AuditRow
    <3>6. md \in Seq([kind: Kinds, ev: DepthEvent, epoch: 0..MaxEpoch, seq: Nat])
      BY DEF RInv, FeedInv
    <3> HIDE DEF row
    <3>7. md' = Append(md, row)
      BY <3>1 DEF row
    <3>8. \A i \in DOMAIN md' : md'[i] = row \/ (i \in DOMAIN md /\ md'[i] = md[i])
      BY <3>6, <3>7
    <3> QED BY <2>1, <3>5, <3>8
  <2>3. CASE ~ReadFrame
    <3>1. md' = md
      BY <1>1, <2>3
      DEF Next, SendDiff, SendMangled, SendOther, Reconnect, handler, fetch_snapshot, ReadGarbage,
          NewEpoch, HandleDiff, HandleTrade, HandleDepth5, EmitRow, FetchFails,
          FetchSucceeds, ReplayDrop, ReplayApply, ReplayEnd, rowVars
    <3> QED BY <2>1, <3>1
  <2> QED BY <2>2, <2>3
<1>5. FeedInv'
  BY <1>1, <1>3, <1>4 DEF FeedInv, RInv
<1>6. LiveInv' /\ PInv' /\ ReplayFaithful'
  BY <1>1, <1>2 DEF LiveInv, PInv, ReplayFaithful
<1> QED BY <1>5, <1>6 DEF RInv

(* What is left of a file.                                                 *)
LEMMA PrefixIs ==
  ASSUME NEW T, NEW q \in Seq(T), NEW n \in Nat, n <= Len(q)
  PROVE  /\ SubSeq(q, 1, n) \in Seq(T)
         /\ \A i \in DOMAIN SubSeq(q, 1, n) : i \in DOMAIN q /\ SubSeq(q, 1, n)[i] = q[i]
OBVIOUS

(* A new process, on what is left of the files.                            *)
LEMMA StartStep ==
  ASSUME RInv, NEW m \in Nat, m <= Len(md), NEW s \in Nat, s <= Len(snaps), StartReplay(m, s)
  PROVE  RInv'
<1>1. /\ mode = "live" /\ CInv /\ rep_rows = <<>> /\ FeedInv
      /\ snaps \in Seq(UpdateId)
      /\ md \in Seq([kind: Kinds, ev: DepthEvent, epoch: 0..MaxEpoch, seq: Nat])
  BY LiveFacts DEF StartReplay, RInv, LiveInv
<1>2. /\ mode' = "replay" /\ UNCHANGED <<hist, published, rep_rows, at>>
      /\ md' = SubSeq(md, 1, m) /\ have_sidecar' \in Sidecars
      /\ sidecar' = IF have_sidecar' THEN SubSeq(snaps, 1, s) ELSE <<>>
      /\ ~initialized' /\ last_update_id' = 0 /\ levels' = NoLevels /\ buffer' = <<>>
      /\ frame' = NoFrame /\ phase' = "idle"
  BY DEF StartReplay, Session!reset, Session!NoLevels, NoLevels, Finish, feedVars
<1>3. /\ md' \in Seq([kind: Kinds, ev: DepthEvent, epoch: 0..MaxEpoch, seq: Nat])
      /\ \A i \in DOMAIN md' : i \in DOMAIN md /\ md'[i] = md[i]
  <2> DEFINE Audit == [kind: Kinds, ev: DepthEvent, epoch: 0..MaxEpoch, seq: Nat]
  <2> HIDE DEF Audit
  <2>1. md \in Seq(Audit)
    BY <1>1 DEF Audit
  <2>2. md' \in Seq(Audit) /\ \A i \in DOMAIN md' : i \in DOMAIN md /\ md'[i] = md[i]
    BY <1>2, <2>1, PrefixIs
  <2> QED BY <2>2 DEF Audit
<1>4. sidecar' \in Seq(UpdateId)
  <2>1. SubSeq(snaps, 1, s) \in Seq(UpdateId) /\ <<>> \in Seq(UpdateId)
    BY <1>1
  <2> QED BY <1>2, <2>1
<1>5. /\ last_update_id' \in UpdateId /\ levels' \in Book
      /\ buffer' \in Seq(DepthEvent) /\ DOMAIN buffer' = {}
  BY <1>2, DepthAssumption DEF UpdateId, NoLevels, Book
<1>6. frame'.ev \in DepthEvent /\ frame'.kind # "Diff"
  BY <1>2, DepthAssumption DEF NoFrame, NoEvent, DepthEvent, UpdateId
<1>7. FeedInv'
  BY <1>1, <1>2, <1>3 DEF FeedInv
<1>8. LiveInv' /\ ReplayFaithful'
  BY <1>1, <1>2 DEF LiveInv, ReplayFaithful
<1>9. PInv'
  BY <1>2, <1>4, <1>5, <1>6 DEF PInv, BookIsPart
<1> QED BY <1>7, <1>8, <1>9 DEF RInv

(* What replay's steps leave alone.                                        *)
LEMMA KeepFeed ==
  ASSUME RInv, mode # "live", mode' # "live",
         UNCHANGED <<hist, published, md, have_sidecar, rep_rows>>, at' \in {at, at + 1}, PInv'
  PROVE  RInv'
BY DEF RInv, FeedInv, LiveInv, ReplayFaithful

(* The diff of a row, buffered, applied or ignored.                        *)
LEMMA RowDiffInv ==
  ASSUME RInv, mode # "live", NEW e, GoodDiff(e), Session!on_diff(e), have_sidecar' = have_sidecar
  PROVE  /\ UNCHANGED <<hist, published>>
         /\ last_update_id' \in UpdateId /\ levels' \in Book /\ BookIsPart'
         /\ buffer' \in Seq(DepthEvent) /\ \A i \in DOMAIN buffer' : GoodDiff(buffer'[i])
<1>1. UNCHANGED <<hist, published>>
  BY DEF Session!on_diff, Session!feedVars
<1>2. /\ last_update_id \in UpdateId /\ levels \in Book /\ BookIsPart
      /\ buffer \in Seq(DepthEvent) /\ \A i \in DOMAIN buffer : GoodDiff(buffer[i])
      /\ e \in DepthEvent
  BY DEF RInv, PInv, GoodDiff
<1>3. ASSUME NEW pending, Session!buffer_event(e, pending)
      PROVE  /\ last_update_id' \in UpdateId /\ levels' \in Book /\ BookIsPart'
             /\ buffer' \in Seq(DepthEvent) /\ \A i \in DOMAIN buffer' : GoodDiff(buffer'[i])
  <2>1. CASE Len(buffer) >= KMaxBuffer
    <3>1. buffer' = <<e>> /\ ~initialized' /\ last_update_id' = 0 /\ levels' = NoLevels
      BY <1>3, <2>1 DEF Session!buffer_event, Session!reset, Session!NoLevels, NoLevels
    <3>2. last_update_id' \in UpdateId /\ levels' \in Book
      BY <3>1, DepthAssumption DEF UpdateId, NoLevels, Book
    <3>3. buffer' \in Seq(DepthEvent) /\ \A i \in DOMAIN buffer' : buffer'[i] = e
      BY <1>2, <3>1
    <3> QED BY <3>1, <3>2, <3>3 DEF BookIsPart
  <2>2. CASE ~(Len(buffer) >= KMaxBuffer)
    <3>1. buffer' = Append(buffer, e) /\ UNCHANGED <<initialized, last_update_id, levels>>
      BY <1>3, <2>2 DEF Session!buffer_event, Session!bookVars
    <3>2. /\ buffer' \in Seq(DepthEvent)
          /\ \A i \in DOMAIN buffer' : buffer'[i] = e \/ (i \in DOMAIN buffer /\ buffer'[i] = buffer[i])
      BY <1>2, <3>1
    <3> QED BY <1>1, <1>2, <3>1, <3>2 DEF BookIsPart
  <2> QED BY <2>1, <2>2
<1>4. CASE (resync_pending \/ ~initialized) /\ Session!buffer_event(e, resync_pending)
  BY <1>1, <1>3, <1>4
<1>5. CASE Session!on_applied(e)
  <2>1. /\ Session!ApplyResult(e) = "Applied" /\ Session!AcceptDiff(e, Session!Diff(e))
        /\ buffer' = buffer
    BY <1>5 DEF Session!on_applied
  <2>2. last_update_id' \in UpdateId /\ levels' \in Book /\ BookIsPart'
    BY <1>1, <2>1, AcceptInv
  <2> QED BY <1>1, <1>2, <2>1, <2>2
<1>6. CASE Session!on_ignored(e)
  BY <1>1, <1>2, <1>6 DEF Session!on_ignored, Session!bookVars, BookIsPart
<1>7. CASE Session!on_gap(e)
  BY <1>1, <1>3, <1>7 DEF Session!on_gap
<1> QED
  BY <1>4, <1>5, <1>6, <1>7 DEF Session!on_diff

-----------------------------------------------------------------------------
(* The loop over the rows.                                                 *)

(* A row is read, its epoch looked at, and it is handed to the session.    *)
LEMMA RowStep ==
  ASSUME RInv, ReadRow \/ RowEpoch \/ RowUnparsed \/ RowDiff \/ RowTrade
  PROVE  RInv'
<1>1. /\ mode = "replay" /\ UNCHANGED <<mode, sidecar, have_sidecar, rep_rows, md>>
      /\ at' \in {at, at + 1}
  BY DEF ReadRow, RowEpoch, RowUnparsed, RowDiff, RowTrade, NewEpoch, HandleTrade, rowVars,
         replayVars
<1>2. /\ last_update_id \in UpdateId /\ levels \in Book /\ BookIsPart
      /\ buffer \in Seq(DepthEvent) /\ \A i \in DOMAIN buffer : GoodDiff(buffer[i])
      /\ frame.ev \in DepthEvent /\ (frame.kind = "Diff" => frame.ev \in published)
      /\ sidecar \in Seq(UpdateId) /\ (phase = "fetch" => sidecar # <<>>)
      /\ have_sidecar \in Sidecars
  BY <1>1 DEF RInv, PInv
<1>3. NoFrame.ev \in DepthEvent /\ NoFrame.kind # "Diff"
  BY DepthAssumption DEF NoFrame, NoEvent, DepthEvent, UpdateId
<1>4. CASE ReadRow
  <2>1. /\ at < Len(md) /\ at' = at + 1 /\ phase' = "dispatch"
        /\ frame' = [kind |-> md[at'].kind, ev |-> md[at'].ev]
        /\ UNCHANGED <<hist, published, last_update_id, levels, initialized, buffer>>
    BY <1>4 DEF ReadRow, feedVars, bookVars, sessionVars
  <2>2. at \in Nat /\ md \in Seq([kind: Kinds, ev: DepthEvent, epoch: 0..MaxEpoch, seq: Nat])
    BY DEF RInv, FeedInv
  <2>3. at' \in DOMAIN md /\ md[at'].ev \in DepthEvent
    <3>1. DOMAIN md = 1..Len(md) /\ Len(md) \in Nat
      BY <2>2
    <3>2. at + 1 \in 1..Len(md)
      BY <2>1, <2>2, <3>1
    <3> DEFINE Audit == [kind: Kinds, ev: DepthEvent, epoch: 0..MaxEpoch, seq: Nat]
    <3> HIDE DEF Audit
    <3>3. md \in Seq(Audit)
      BY <2>2 DEF Audit
    <3>4. md[at + 1] \in Audit
      BY <3>2, <3>3
    <3>5. md[at + 1].ev \in DepthEvent
      BY <3>4 DEF Audit
    <3> QED BY <2>1, <3>1, <3>2, <3>5
  <2>4. frame'.ev \in DepthEvent /\ (frame'.kind = "Diff" => frame'.ev \in published)
    BY <2>1, <2>3 DEF RInv, FeedInv
  <2>5. PInv'
    BY <1>1, <1>2, <2>1, <2>4 DEF PInv, BookIsPart
  <2> QED BY <1>1, <2>1, <2>5, KeepFeed
<1>5. CASE RowEpoch
  <2>1. phase = "dispatch" /\ UNCHANGED <<phase, frame>>
    BY <1>5 DEF RowEpoch, NewEpoch
  <2>2. CASE UNCHANGED <<feedVars, bookVars, sessionVars>>
    <3>1. UNCHANGED <<hist, published, last_update_id, levels, initialized, buffer>>
      BY <2>2 DEF feedVars, bookVars, sessionVars
    <3>2. PInv'
      BY <1>1, <1>2, <2>1, <3>1 DEF PInv, BookIsPart
    <3> QED BY <1>1, <3>1, <3>2, KeepFeed
  <2>3. CASE Session!request_resync
    <3>1. /\ UNCHANGED <<hist, published>> /\ ~initialized' /\ last_update_id' = 0
          /\ levels' = NoLevels /\ buffer' = <<>>
      BY <2>3 DEF Session!request_resync, Session!reset, Session!feedVars, Session!NoLevels, NoLevels
    <3>2. /\ last_update_id' \in UpdateId /\ levels' \in Book
          /\ buffer' \in Seq(DepthEvent) /\ DOMAIN buffer' = {}
      BY <3>1, DepthAssumption DEF UpdateId, NoLevels, Book
    <3>3. PInv'
      BY <1>1, <1>2, <2>1, <3>1, <3>2 DEF PInv, BookIsPart
    <3> QED BY <1>1, <3>1, <3>3, KeepFeed
  <2> QED BY <1>5, <2>2, <2>3 DEF RowEpoch, NewEpoch
<1>6. CASE RowUnparsed \/ RowTrade
  <2>1. /\ UNCHANGED <<hist, published, last_update_id, levels, initialized, buffer>>
        /\ phase' # "fetch" /\ (frame' = frame \/ frame' = NoFrame)
    BY <1>6 DEF RowUnparsed, RowTrade, HandleTrade, Finish, feedVars, bookVars, sessionVars
  <2>2. PInv'
    BY <1>1, <1>2, <1>3, <2>1 DEF PInv, BookIsPart
  <2> QED BY <1>1, <2>1, <2>2, KeepFeed
<1>7. CASE RowDiff
  <2>1. /\ frame.kind = "Diff" /\ Session!on_diff(frame.ev)
        /\ frame' = frame \/ frame' = NoFrame
        /\ phase' = "fetch" => sidecar # <<>>
    BY <1>7 DEF RowDiff, Dispatch, Finish
  <2>2. GoodDiff(frame.ev)
    BY <1>2, <2>1 DEF RInv, FeedInv
  <2>3. /\ UNCHANGED <<hist, published>>
        /\ last_update_id' \in UpdateId /\ levels' \in Book /\ BookIsPart'
        /\ buffer' \in Seq(DepthEvent) /\ \A i \in DOMAIN buffer' : GoodDiff(buffer'[i])
    BY <1>1, <2>1, <2>2, RowDiffInv
  <2>4. PInv'
    BY <1>1, <1>2, <1>3, <2>1, <2>3 DEF PInv
  <2> QED BY <1>1, <2>3, <2>4, KeepFeed
<1> QED BY <1>4, <1>5, <1>6, <1>7

(* The book is seeded, from the sidecar or from a depth5 row.  Only a spot *)
(* row says which book it shows.                                           *)
LEMMA SeedStep ==
  ASSUME RInv, RowDepth5 \/ seed_from_sidecar, Venue = "Spot" \/ have_sidecar
  PROVE  RInv'
<1>1. /\ mode = "replay" /\ UNCHANGED <<mode, have_sidecar, rep_rows, md, frame, at>>
      /\ phase' # "fetch"
  BY DEF RowDepth5, seed_from_sidecar, rowVars, replayVars
<1>2. /\ last_update_id \in UpdateId /\ levels \in Book /\ BookIsPart
      /\ buffer \in Seq(DepthEvent) /\ \A i \in DOMAIN buffer : GoodDiff(buffer[i])
      /\ frame.ev \in DepthEvent /\ (frame.kind = "Diff" => frame.ev \in published)
      /\ sidecar \in Seq(UpdateId) /\ (phase = "fetch" => sidecar # <<>>)
      /\ have_sidecar \in Sidecars /\ hist \in [UpdateId -> Book]
  BY <1>1 DEF RInv, PInv, FeedInv
<1>3. ASSUME NEW lv \in Book, NEW id \in UpdateId, Session!on_snapshot(lv, id),
             IF have_sidecar THEN lv = hist[id] ELSE PartOf(lv, hist[id]),
             sidecar' \in Seq(UpdateId)
      PROVE  RInv'
  <2>1. /\ UNCHANGED <<hist, published, buffer>> /\ levels' = lv /\ last_update_id' = id
    BY <1>3 DEF Session!on_snapshot, Session!set_snapshot, Session!feedVars
  <2>2. PInv'
    BY <1>1, <1>2, <1>3, <2>1 DEF PInv, BookIsPart
  <2> QED BY <1>1, <2>1, <2>2, KeepFeed
<1>4. CASE seed_from_sidecar
  <2>1. /\ sidecar # <<>> /\ sidecar' = Tail(sidecar)
        /\ Session!on_snapshot(hist[Head(sidecar)], Head(sidecar))
    BY <1>2, <1>4 DEF seed_from_sidecar
  <2>2. Head(sidecar) \in UpdateId /\ sidecar' \in Seq(UpdateId)
    BY <1>2, <2>1
  <2>3. hist[Head(sidecar)] \in Book
    BY <1>2, <2>2
  <2> QED BY <1>3, <2>1, <2>2, <2>3, WholeIsPart
<1>5. CASE RowDepth5 /\ have_sidecar
  <2>1. UNCHANGED <<hist, published, last_update_id, levels, initialized, buffer, sidecar>>
    BY <1>5 DEF RowDepth5, feedVars, bookVars, sessionVars, replayVars
  <2>2. PInv'
    BY <1>1, <1>2, <2>1 DEF PInv, BookIsPart
  <2> QED BY <1>1, <2>1, <2>2, KeepFeed
<1>6. CASE RowDepth5 /\ ~have_sidecar
  <2>1. Venue = "Spot"
    BY <1>6
  <2>2. /\ Session!on_snapshot(Partial(hist[frame.ev.u]), frame.ev.u) /\ sidecar' = sidecar
    BY <1>6, <2>1 DEF RowDepth5, lastUpdateId, replayVars
  <2>3. frame.ev.u \in UpdateId /\ hist[frame.ev.u] \in Book
    BY <1>2, DiffIds
  <2>4. /\ Partial(hist[frame.ev.u]) \in Book
        /\ PartOf(Partial(hist[frame.ev.u]), hist[frame.ev.u])
    BY <2>3, PartialIsPart
  <2> QED BY <1>2, <1>3, <1>6, <2>2, <2>3, <2>4
<1> QED BY <1>4, <1>5, <1>6

(* The loop of on_snapshot and the rows of its callback.                   *)
LEMMA LoopStep ==
  ASSUME RInv, SeedDrop \/ emit_replayed_diff \/ SeedEnd
  PROVE  RInv'
<1>1. /\ mode = "replay" /\ UNCHANGED <<mode, sidecar, have_sidecar, md, hist, published, at>>
  BY DEF SeedDrop, emit_replayed_diff, SeedEnd, ReplayDrop, rowVars, replayVars,
         Session!ReplayDrop, Session!ReplayApply, Session!ReplayGap, Session!ReplayDone,
         Session!feedVars
<1>2. /\ last_update_id \in UpdateId /\ levels \in Book /\ BookIsPart
      /\ buffer \in Seq(DepthEvent) /\ \A i \in DOMAIN buffer : GoodDiff(buffer[i])
      /\ frame.ev \in DepthEvent /\ (frame.kind = "Diff" => frame.ev \in published)
      /\ sidecar \in Seq(UpdateId) /\ (phase = "fetch" => sidecar # <<>>)
      /\ have_sidecar \in Sidecars /\ hist \in [UpdateId -> Book]
  BY <1>1 DEF RInv, PInv, FeedInv
<1>3. NoFrame.ev \in DepthEvent /\ NoFrame.kind # "Diff"
  BY DepthAssumption DEF NoFrame, NoEvent, DepthEvent, UpdateId
<1>4. ASSUME buffer # <<>>, buffer' = Tail(buffer)
      PROVE  /\ GoodDiff(Head(buffer)) /\ buffer' \in Seq(DepthEvent)
             /\ \A i \in DOMAIN buffer' : GoodDiff(buffer'[i])
  <2>1. /\ 1 \in DOMAIN buffer /\ Head(buffer) = buffer[1] /\ buffer' \in Seq(DepthEvent)
        /\ \A i \in DOMAIN buffer' : i + 1 \in DOMAIN buffer /\ buffer'[i] = buffer[i + 1]
    BY <1>2, <1>4
  <2> QED BY <1>2, <2>1
<1>5. CASE SeedDrop
  <2>1. /\ buffer # <<>> /\ buffer' = Tail(buffer)
        /\ UNCHANGED <<initialized, last_update_id, levels, phase, frame, rep_rows>>
    BY <1>5 DEF SeedDrop, ReplayDrop, Session!ReplayDrop, Session!bookVars, handlerVars, replayVars
  <2>2. PInv'
    BY <1>1, <1>2, <1>4, <2>1 DEF PInv, BookIsPart
  <2> QED BY <1>1, <2>1, <2>2, KeepFeed
<1>6. CASE emit_replayed_diff
  <2>1. /\ buffer # <<>> /\ buffer' = Tail(buffer) /\ UNCHANGED <<phase, frame>>
        /\ Session!ApplyResult(Head(buffer)) = "Applied"
        /\ Session!AcceptDiff(Head(buffer), Session!Diff(Head(buffer)))
        /\ rep_rows' = Append(rep_rows, Row("D", last_update_id', levels'))
    BY <1>6 DEF emit_replayed_diff, Session!ReplayApply, handlerVars
  <2>2. /\ last_update_id' \in UpdateId /\ levels' \in Book /\ BookIsPart'
    BY <1>1, <1>4, <2>1, AcceptInv
  <2>3. initialized'
    <3>1. initialized
      BY <1>2, <1>4, <2>1, AcceptedContinues
    <3> QED BY <2>1, <3>1 DEF Session!AcceptDiff
  <2>4. Row("D", last_update_id', levels') \in RowSet
    BY <2>2 DEF Row, RowSet
  <2>5. rep_rows' \in Seq(RowSet) /\ ReplayFaithful'
    <3> DEFINE row == Row("D", last_update_id', levels')
    <3>1. row.type = "D" /\ row.id = last_update_id' /\ row.top = levels'
      BY DEF Row
    <3>2. IF have_sidecar /\ row.type # "S" THEN row.top = hist[row.id]
          ELSE PartOf(row.top, hist[row.id])
      BY <1>1, <2>2, <2>3, <3>1 DEF BookIsPart
    <3> HIDE DEF row
    <3> QED BY <1>1, <2>1, <2>4, <3>2, WriteRow DEF row
  <2>6. PInv'
    BY <1>1, <1>2, <1>4, <2>1, <2>2 DEF PInv
  <2> QED BY <1>1, <2>5, <2>6 DEF RInv, FeedInv, LiveInv
<1>7. CASE SeedEnd
  <2>1. /\ UNCHANGED <<initialized, last_update_id, levels, buffer, rep_rows>>
        /\ phase' # "fetch" /\ (frame' = frame \/ frame' = NoFrame)
    BY <1>7 DEF SeedEnd, Session!ReplayGap, Session!ReplayDone, Session!bookVars, Finish, replayVars
  <2>2. PInv'
    BY <1>1, <1>2, <1>3, <2>1 DEF PInv, BookIsPart
  <2> QED BY <1>1, <2>1, <2>2, KeepFeed
<1> QED BY <1>5, <1>6, <1>7

(* The row at the end of an iteration, and the end of the file.            *)
LEMMA EndStep ==
  ASSUME RInv, RowEmit \/ ReplayReturns
  PROVE  RInv'
<1>1. /\ mode = "replay" /\ mode' # "live"
      /\ UNCHANGED <<sidecar, have_sidecar, md, at, feedVars, bookVars, sessionVars>>
  BY DEF RowEmit, ReplayReturns, rowVars, vars
<1>2. /\ last_update_id \in UpdateId /\ levels \in Book /\ BookIsPart
      /\ buffer \in Seq(DepthEvent) /\ \A i \in DOMAIN buffer : GoodDiff(buffer[i])
      /\ frame.ev \in DepthEvent /\ (frame.kind = "Diff" => frame.ev \in published)
      /\ sidecar \in Seq(UpdateId) /\ (phase = "fetch" => sidecar # <<>>)
      /\ have_sidecar \in Sidecars /\ hist \in [UpdateId -> Book]
  BY <1>1 DEF RInv, PInv, FeedInv
<1>3. NoFrame.ev \in DepthEvent /\ NoFrame.kind # "Diff"
  BY DepthAssumption DEF NoFrame, NoEvent, DepthEvent, UpdateId
<1>4. PInv'
  <2>1. (phase' = phase /\ frame' = frame) \/ (phase' = "idle" /\ frame' = NoFrame)
    BY DEF RowEmit, ReplayReturns, vars, handlerVars, Finish
  <2> QED BY <1>1, <1>2, <1>3, <2>1 DEF PInv, BookIsPart, feedVars, bookVars, sessionVars
<1>5. CASE ReplayReturns
  <2>1. rep_rows' = rep_rows
    BY <1>5 DEF ReplayReturns
  <2> QED BY <1>1, <1>4, <2>1, KeepFeed DEF feedVars
<1>6. CASE RowEmit
  <2>1. rep_rows' = rep_rows \o NewRows /\ rep_rows \in Seq(RowSet)
    BY <1>6 DEF RowEmit, RInv, FeedInv
  <2>2. ASSUME NEW row \in RowSet, NewRows = <<row>>,
               IF have_sidecar /\ row.type # "S" THEN row.top = hist[row.id]
               ELSE PartOf(row.top, hist[row.id])
        PROVE  RInv'
    <3>1. rep_rows' = Append(rep_rows, row)
      BY <2>1, <2>2
    <3>2. rep_rows' \in Seq(RowSet) /\ ReplayFaithful'
      BY <1>1, <2>2, <3>1, WriteRow DEF feedVars
    <3> QED BY <1>1, <1>4, <3>2 DEF RInv, FeedInv, LiveInv, feedVars
  <2>3. CASE frame.kind = "Depth5"
    <3> DEFINE row == Row("S", frame.ev.u, Partial(hist[frame.ev.u]))
    <3>1. NewRows = <<row>> /\ row.type = "S" /\ row.id = frame.ev.u
          /\ row.top = Partial(hist[frame.ev.u])
      BY <2>3 DEF NewRows, Row
    <3>2. frame.ev.u \in UpdateId /\ hist[frame.ev.u] \in Book
      BY <1>2, DiffIds
    <3>3. /\ Partial(hist[frame.ev.u]) \in Book
          /\ PartOf(Partial(hist[frame.ev.u]), hist[frame.ev.u])
      BY <3>2, PartialIsPart
    <3>4. row \in RowSet
      BY <3>2, <3>3 DEF Row, RowSet
    <3> HIDE DEF row
    <3> QED BY <2>2, <3>1, <3>3, <3>4
  <2>4. CASE frame.kind # "Depth5" /\ Session!Ready
    <3> DEFINE row == Row(IF frame.kind = "Diff" THEN "D" ELSE "T", last_update_id, levels)
    <3>1. NewRows = <<row>> /\ row.type # "S" /\ row.id = last_update_id /\ row.top = levels
      BY <2>4 DEF NewRows, Row
    <3>2. row \in RowSet
      BY <1>2 DEF Row, RowSet
    <3>3. initialized
      BY <2>4 DEF Session!Ready
    <3> HIDE DEF row
    <3> QED BY <1>2, <2>2, <3>1, <3>2, <3>3 DEF BookIsPart
  <2>5. CASE frame.kind # "Depth5" /\ ~Session!Ready
    <3>1. NewRows = <<>>
      BY <2>5 DEF NewRows
    <3>2. rep_rows' = rep_rows
      BY <2>1, <3>1
    <3> QED BY <1>1, <1>4, <3>2, KeepFeed DEF feedVars
  <2> QED BY <2>3, <2>4, <2>5
<1> QED BY <1>5, <1>6

-----------------------------------------------------------------------------

(* What the steps of the loop leave alone.                                 *)
Steady == UNCHANGED <<hist, md, snaps, ob_rows, complete, have_sidecar, whole, failed>>

(* They change neither the files nor what is known of the live run.        *)
LEMMA RepSteady ==
  ASSUME mode = "replay", ReplayNext
  PROVE  Steady /\ mode' # "live"
<1>1. ~Live /\ ~StopAndReplay /\ ~KillAndReplay
  BY DEF Live, StopAndReplay, KillAndReplay, StartReplay
<1>2. CASE RowDiff
  BY <1>2 DEF RowDiff, Steady, rowVars, replayVars, Session!on_diff, Session!feedVars
<1>3. CASE seed_from_sidecar
  BY <1>3 DEF seed_from_sidecar, Steady, rowVars, Session!on_snapshot, Session!feedVars
<1>4. CASE RowEpoch
  <2>1. UNCHANGED <<md, snaps, ob_rows, complete, have_sidecar, whole, failed, mode>>
    BY <1>4 DEF RowEpoch, NewEpoch, rowVars, replayVars
  <2>2. hist' = hist
    BY <1>4 DEF RowEpoch, NewEpoch, Session!request_resync, Session!feedVars, feedVars
  <2> QED BY <1>4, <2>1, <2>2 DEF Steady, RowEpoch
<1>5. CASE RowDepth5
  BY <1>5 DEF RowDepth5, Steady, rowVars, replayVars, Session!on_snapshot, Session!feedVars, feedVars
<1>6. CASE SeedDrop \/ emit_replayed_diff \/ SeedEnd
  BY <1>6 DEF SeedDrop, ReplayDrop, emit_replayed_diff, SeedEnd, Steady, rowVars, replayVars,
              Session!ReplayDrop, Session!ReplayApply, Session!ReplayGap, Session!ReplayDone,
              Session!feedVars
<1>7. CASE ReadRow \/ RowUnparsed \/ RowTrade \/ RowEmit \/ ReplayReturns
  BY <1>7 DEF ReadRow, RowUnparsed, RowTrade, HandleTrade, RowEmit, ReplayReturns, Steady, rowVars,
              replayVars, vars, feedVars
<1> QED BY <1>1, <1>2, <1>3, <1>4, <1>5, <1>6, <1>7 DEF ReplayNext

-----------------------------------------------------------------------------

(* Replay of a USD-M capture without a sidecar, whose depth5 payloads do   *)
(* not say which book they show: nothing is claimed of it.                 *)
Blind == mode # "live" /\ ~have_sidecar /\ Venue # "Spot" /\ have_sidecar \in Sidecars

(* The initial states.                                                     *)
LEMMA ReplayStarts ==
  ASSUME ReplayInit
  PROVE  RInv
<1>1. /\ Init /\ mode = "live" /\ rep_rows = <<>> /\ md = <<>> /\ at = 0
  BY DEF ReplayInit, Init
<1>2. CInv
  BY <1>1, CaptureInit
<1>3. FeedInv
  BY <1>1, <1>2, LiveFacts DEF FeedInv
<1> QED
  BY <1>1, <1>2, <1>3 DEF RInv, LiveInv, PInv, ReplayFaithful

(* The two files the new process reads are what is left of the old ones.   *)
LEMMA StartRows ==
  ASSUME RInv, StopAndReplay \/ KillAndReplay
  PROVE  \E m \in Nat, s \in Nat :
           /\ m <= Len(md) /\ s <= Len(snaps) /\ StartReplay(m, s)
           /\ ~complete' \/ (phase = "idle" /\ m = Len(md))
<1>1. mode = "live" /\ CInv
  BY DEF StopAndReplay, KillAndReplay, StartReplay, RInv, LiveInv
<1>2. Len(md) \in Nat /\ Len(snaps) \in Nat
  BY <1>1, LiveFacts
<1>3. CASE StopAndReplay
  BY <1>2, <1>3 DEF StopAndReplay
<1>4. CASE KillAndReplay
  BY <1>2, <1>4 DEF KillAndReplay
<1> QED BY <1>3, <1>4

(* Every step, of the live run and of replay.                              *)
LEMMA ReplayStep ==
  ASSUME RInv \/ Blind, [ReplayNext]_allVars
  PROVE  RInv' \/ Blind'
<1>1. CASE UNCHANGED allVars
  <2>1. UNCHANGED <<vars, mode, at, sidecar, have_sidecar, rep_rows>>
    BY <1>1 DEF allVars, replayVars
  <2>2. CInv => CInv'
    BY <2>1, CaptureNext
  <2>3. UNCHANGED <<hist, published, md, initialized, last_update_id, levels, buffer, frame, phase>>
    BY <2>1 DEF vars, feedVars, bookVars, sessionVars, handlerVars, rowVars
  <2>4. ASSUME RInv PROVE RInv'
    <3>1. LiveInv' /\ FeedInv' /\ ReplayFaithful'
      BY <2>1, <2>2, <2>3, <2>4 DEF RInv, LiveInv, FeedInv, ReplayFaithful
    <3>2. PInv'
      BY <2>1, <2>3, <2>4 DEF RInv, PInv, BookIsPart
    <3> QED BY <3>1, <3>2 DEF RInv
  <2>5. ASSUME Blind PROVE Blind'
    BY <2>1, <2>5, Zenon DEF Blind
  <2> QED BY <2>4, <2>5
<1>2. CASE ReplayNext /\ Blind
  <2>1. mode = "replay"
    BY <1>2 DEF ReplayNext, Blind, Live, StopAndReplay, KillAndReplay, StartReplay, ReadRow, RowEpoch,
                RowUnparsed, RowDiff, RowDepth5, RowTrade, seed_from_sidecar, SeedDrop,
                emit_replayed_diff, SeedEnd, RowEmit, ReplayReturns
  <2>2. Steady /\ mode' # "live"
    BY <1>2, <2>1, RepSteady
  <2>3. have_sidecar' = have_sidecar
    BY <2>2 DEF Steady
  <2> QED BY <1>2, <2>2, <2>3, Zenon DEF Blind
<1>3. CASE ReplayNext /\ RInv
  <2>1. CASE Live
    BY <1>3, <2>1, LiveStep
  <2>2. CASE StopAndReplay \/ KillAndReplay
    BY <1>3, <2>2, StartRows, StartStep
  <2>3. CASE ReadRow \/ RowEpoch \/ RowUnparsed \/ RowDiff \/ RowTrade
    BY <1>3, <2>3, RowStep
  <2>4. CASE RowDepth5 \/ seed_from_sidecar
    <3>1. CASE Venue = "Spot" \/ have_sidecar
      BY <1>3, <2>4, <3>1, SeedStep
    <3>2. CASE ~(Venue = "Spot" \/ have_sidecar)
      <4>1. mode = "replay"
        BY <2>4 DEF RowDepth5, seed_from_sidecar
      <4>2. have_sidecar \in Sidecars
        BY <1>3, <4>1 DEF RInv, PInv
      <4>3. Steady /\ mode' # "live"
        BY <1>3, <4>1, RepSteady
      <4>4. have_sidecar' = have_sidecar
        BY <4>3 DEF Steady
      <4> QED BY <3>2, <4>2, <4>3, <4>4, Zenon DEF Blind
    <3> QED BY <3>1, <3>2
  <2>5. CASE SeedDrop \/ emit_replayed_diff \/ SeedEnd
    BY <1>3, <2>5, LoopStep
  <2>6. CASE RowEmit \/ ReplayReturns
    BY <1>3, <2>6, EndStep
  <2> QED
    BY <1>3, <2>1, <2>2, <2>3, <2>4, <2>5, <2>6 DEF ReplayNext
<1> QED BY <1>1, <1>2, <1>3

(* The inductive invariant of the live run and the replay after it.        *)
THEOREM ReplayInvariant == ReplaySpec => [](RInv \/ Blind)
<1>1. ReplayInit => RInv
  BY ReplayStarts
<1>2. (RInv \/ Blind) /\ [ReplayNext]_allVars => (RInv \/ Blind)'
  BY ReplayStep
<1> QED
  BY <1>1, <1>2, PTL DEF ReplaySpec

(* However the live run ended, replay writes no level the exchange did not *)
(* have, and the whole book with a sidecar.  Without one this needs the    *)
(* update id that only a spot depth5 payload carries.                      *)
THEOREM ReplayIsFaithful ==
  ASSUME Venue = "Spot" \/ Sidecars = {TRUE}
  PROVE  ReplaySpec => []ReplayFaithful
<1>1. RInv \/ Blind => ReplayFaithful
  <2>1. ASSUME Blind PROVE FALSE
    <3>1. Sidecars = {TRUE} /\ have_sidecar \in Sidecars /\ ~have_sidecar
      BY <2>1 DEF Blind
    <3>2. have_sidecar \in {TRUE}
      BY <3>1, Zenon
    <3>3. have_sidecar = TRUE
      BY <3>2, Zenon
    <3> QED BY <3>1, <3>3, Zenon
  <2> QED BY <2>1 DEF RInv
<1> QED
  BY <1>1, ReplayInvariant, PTL

-----------------------------------------------------------------------------
(* The loop over the rows, on values instead of variables.                 *)

(* The session, its book included, as one value.                           *)
Ses ==
  [init |-> initialized, id |-> last_update_id, started |-> started, lv |-> levels,
   pend |-> resync_pending, ovf |-> overflows, buf |-> buffer, snap |-> snap_id]

(* The verdict of apply_diff, and the values the session takes: cleared,   *)
(* with a diff kept in the buffer, with a diff applied, after on_diff,     *)
(* seeded by a snapshot, and at the ends of an iteration of on_snapshot.   *)
Verdict(a, e) ==
  IF ~a.init THEN "NeedSnapshot"
  ELSE IF e.u <= a.id THEN "IgnoredOld"
  ELSE IF Venue = "Usdm"
  THEN IF ~a.started /\ e.U > a.id THEN "Gap"
       ELSE IF a.started /\ e.pu # a.id THEN "Gap" ELSE "Applied"
  ELSE IF e.U > a.id + 1 THEN "Gap" ELSE "Applied"

Cleared(a) ==
  [init |-> FALSE, id |-> 0, started |-> FALSE, lv |-> NoLevels,
   pend |-> TRUE, ovf |-> a.ovf, buf |-> <<>>, snap |-> a.snap]

Kept(a, e, pending) ==
  IF Len(a.buf) >= KMaxBuffer
  THEN [init |-> FALSE, id |-> 0, started |-> FALSE, lv |-> NoLevels,
        pend |-> TRUE, ovf |-> a.ovf + 1, buf |-> <<e>>, snap |-> a.snap]
  ELSE [init |-> a.init, id |-> a.id, started |-> a.started, lv |-> a.lv,
        pend |-> pending, ovf |-> a.ovf, buf |-> Append(a.buf, e), snap |-> a.snap]

Levels(h, lv, e) ==
  [k \in Key |-> IF \E i, j \in e.pu..e.u : h[i][k] # h[j][k] THEN h[e.u][k] ELSE lv[k]]

Accepted(h, a, e, rest) ==
  [init |-> a.init, id |-> e.u, started |-> TRUE, lv |-> Levels(h, a.lv, e),
   pend |-> a.pend, ovf |-> a.ovf, buf |-> rest, snap |-> a.snap]

Fed(h, a, e) ==
  IF a.pend \/ ~a.init THEN Kept(a, e, a.pend)
  ELSE IF Verdict(a, e) = "Applied" THEN Accepted(h, a, e, a.buf)
  ELSE IF Verdict(a, e) = "Gap" THEN Kept(a, e, TRUE)
  ELSE a

Seeded(h, a, id) ==
  [init |-> TRUE, id |-> id, started |-> FALSE, lv |-> h[id],
   pend |-> FALSE, ovf |-> a.ovf, buf |-> a.buf, snap |-> id]

Dropped(a) ==
  [init |-> a.init, id |-> a.id, started |-> a.started, lv |-> a.lv,
   pend |-> a.pend, ovf |-> a.ovf, buf |-> Tail(a.buf), snap |-> a.snap]

Stopped(a) ==
  [init |-> a.init, id |-> a.id, started |-> a.started, lv |-> a.lv,
   pend |-> TRUE, ovf |-> a.ovf, buf |-> a.buf, snap |-> a.snap]

-----------------------------------------------------------------------------
(* A state of the loop over the rows.                                      *)
State(ses, last, ep, ph, fr, n, used, rows) ==
  [ses |-> ses, last |-> last, epoch |-> ep, phase |-> ph, frame |-> fr,
   at |-> n, used |-> used, rows |-> rows]

(* The diff of the row is applied.                                         *)
Applies(x) == ~x.ses.pend /\ x.ses.init /\ Verdict(x.ses, x.frame.ev) = "Applied"

(* The diff of the row leaves the session waiting for a snapshot.          *)
Wants(h, x) ==
  /\ x.phase = "dispatch" /\ x.last = x.epoch /\ x.frame.kind = "Diff"
  /\ ~Applies(x) /\ Fed(h, x.ses, x.frame.ev).pend

(* A row is read.                                                          *)
ReadOf(M, x) ==
  State(x.ses, x.last, M[x.at + 1].epoch, "dispatch",
        [kind |-> M[x.at + 1].kind, ev |-> M[x.at + 1].ev], x.at + 1, x.used, x.rows)

(* It is the first of its connection.                                      *)
EpochOf(x) ==
  State(IF x.last # NoEpoch THEN Cleared(x.ses) ELSE x.ses, x.epoch, x.epoch,
        "dispatch", x.frame, x.at, x.used, x.rows)

(* The end of an iteration.                                                *)
Ended(x, ses, rows) == State(ses, x.last, x.epoch, "idle", NoFrame, x.at, x.used, rows)

(* It is a diff.                                                           *)
DiffOf(h, x) ==
  LET ses == Fed(h, x.ses, x.frame.ev) IN
  IF Applies(x) THEN State(ses, x.last, x.epoch, "emit", x.frame, x.at, x.used, x.rows)
  ELSE IF ses.pend THEN State(ses, x.last, x.epoch, "fetch", x.frame, x.at, x.used, x.rows)
  ELSE Ended(x, ses, x.rows)

(* It is none.                                                             *)
OtherOf(x) ==
  IF x.frame.kind = "Depth5" \/ (x.frame.kind = "Trade" /\ IntegrateTrades)
  THEN State(x.ses, x.last, x.epoch, "emit", x.frame, x.at, x.used, x.rows)
  ELSE Ended(x, x.ses, x.rows)

(* The next entry of the sidecar seeds the book.                           *)
SeedOf(S, h, x) ==
  State(Seeded(h, x.ses, S[x.used + 1]), x.last, x.epoch, "replay", x.frame, x.at,
        x.used + 1, x.rows)

(* An iteration of on_snapshot's loop.                                     *)
LoopOf(h, x) ==
  LET e == Head(x.ses.buf) IN
  IF x.ses.buf = <<>> THEN Ended(x, x.ses, x.rows)
  ELSE IF e.u <= x.ses.snap \/ Verdict(x.ses, e) = "IgnoredOld"
  THEN State(Dropped(x.ses), x.last, x.epoch, "replay", x.frame, x.at, x.used, x.rows)
  ELSE IF Verdict(x.ses, e) = "Applied"
  THEN State(Accepted(h, x.ses, e, Tail(x.ses.buf)), x.last, x.epoch, "replay", x.frame,
             x.at, x.used, Append(x.rows, Row("D", e.u, Levels(h, x.ses.lv, e))))
  ELSE Ended(x, Stopped(x.ses), x.rows)

(* The row at the end of an iteration.                                     *)
EmitOf(h, x) ==
  Ended(x, x.ses,
        IF x.frame.kind = "Depth5"
        THEN Append(x.rows, Row("S", x.frame.ev.u, Partial(h[x.frame.ev.u])))
        ELSE IF x.ses.init /\ ~x.ses.pend
        THEN Append(x.rows, Row(IF x.frame.kind = "Diff" THEN "D" ELSE "T", x.ses.id, x.ses.lv))
        ELSE x.rows)

(* The one step from x: M are the market-data rows, S the snapshots.       *)
StepOf(M, S, h, x) ==
  CASE x.phase = "idle" -> ReadOf(M, x)
    [] x.phase = "dispatch" /\ x.last # x.epoch -> EpochOf(x)
    [] x.phase = "dispatch" /\ x.last = x.epoch /\ x.frame.kind = "Diff" -> DiffOf(h, x)
    [] x.phase = "dispatch" /\ x.last = x.epoch /\ x.frame.kind # "Diff" -> OtherOf(x)
    [] x.phase = "fetch" -> SeedOf(S, h, x)
    [] x.phase = "replay" -> LoopOf(h, x)
    [] x.phase = "emit" -> EmitOf(h, x)

(* There is a step from x and it leads to y.                               *)
Goes(M, S, h, x, y) ==
  /\ x.phase \in {"idle", "dispatch", "fetch", "replay", "emit"}
  /\ x.phase = "idle" => x.at + 1 \in DOMAIN M
  /\ Wants(h, x) \/ x.phase = "fetch" => x.used + 1 \in DOMAIN S
  /\ y = StepOf(M, S, h, x)
  /\ y.rows \in Seq(RowSet)

(* From x to y in n steps, tr being the states on the way.                 *)
Path(M, S, h, x, y, n, tr) ==
  /\ tr[0] = x /\ tr[n] = y
  /\ \A i \in 0..(n - 1) : Goes(M, S, h, tr[i], tr[i + 1])

(* From x to y in any number of steps.                                     *)
Reaches(M, S, h, x, y) == \E n \in Nat : \E tr : Path(M, S, h, x, y, n, tr)

(* s is a prefix of t.                                                     *)
Starts(s, t) == Len(s) <= Len(t) /\ \A i \in 1..Len(s) : s[i] = t[i]

(* t has at most one row more than s.                                      *)
Grows(s, t) == t \in Seq(RowSet) /\ (t = s \/ \E r : t = Append(s, r))

(* M is the beginning of M2.                                               *)
Extends(M, M2) == \A i \in DOMAIN M : i \in DOMAIN M2 /\ M2[i] = M[i]

-----------------------------------------------------------------------------

(* The least-number principle.                                             *)
LEMMA LeastNumber ==
  ASSUME NEW T, T \subseteq Nat, T # {}
  PROVE  \E x \in T : \A y \in T : x <= y
<1> DEFINE R == OpToRel(<, Nat)
<1>1. IsWellFoundedOn(R, Nat)
  BY NatLessThanWellFounded, Zenon
<1>2. \A a, b \in Nat : a < b => <<a, b>> \in R
  BY DEF OpToRel
<1> HIDE DEF R
<1>3. PICK x \in T : \A y \in T : ~(<<y, x>> \in R)
  BY <1>1, WFMin
<1>4. \A y \in T : ~(y < x)
  BY <1>2, <1>3
<1>5. \A y \in T : x <= y
  BY <1>4
<1> QED BY <1>5

(* So a set that holds 0 and with every number the next holds them all.    *)
LEMMA SetInduction ==
  ASSUME NEW A, 0 \in A, \A n \in Nat : n \in A => n + 1 \in A
  PROVE  Nat \subseteq A
<1> DEFINE T == Nat \ A
<1> SUFFICES ASSUME T # {} PROVE FALSE
  OBVIOUS
<1>1. PICK x \in T : \A y \in T : x <= y
  BY LeastNumber
<1>2. x \in Nat /\ x # 0 /\ x - 1 \in Nat
  BY <1>1
<1>3. x - 1 \in A
  BY <1>1, <1>2
<1> QED BY <1>2, <1>3

(* A state reaches itself.                                                 *)
LEMMA ReachesSelf ==
  ASSUME NEW M, NEW S, NEW h, NEW x
  PROVE  Reaches(M, S, h, x, x)
<1> DEFINE tr == [i \in 0..0 |-> x]
<1>1. tr[0] = x
  OBVIOUS
<1>2. Path(M, S, h, x, x, 0, tr)
  BY <1>1 DEF Path
<1> QED BY <1>2 DEF Reaches

(* One more step.                                                          *)
LEMMA ReachesStep ==
  ASSUME NEW M, NEW S, NEW h, NEW x, NEW y, NEW z,
         Reaches(M, S, h, x, y), Goes(M, S, h, y, z)
  PROVE  Reaches(M, S, h, x, z)
<1>1. PICK n \in Nat : \E tr : Path(M, S, h, x, y, n, tr)
  BY DEF Reaches
<1>2. PICK tr : Path(M, S, h, x, y, n, tr)
  BY <1>1
<1> DEFINE new == [i \in 0..(n + 1) |-> IF i = n + 1 THEN z ELSE tr[i]]
<1>3. \A i \in 0..n : new[i] = tr[i]
  OBVIOUS
<1>4. new[n + 1] = z
  OBVIOUS
<1> HIDE DEF new
<1>5. ASSUME NEW i \in 0..n PROVE Goes(M, S, h, new[i], new[i + 1])
  <2>1. CASE i = n
    BY <1>2, <1>3, <1>4, <2>1 DEF Path
  <2>2. CASE i # n
    <3>1. i \in 0..(n - 1) /\ i + 1 \in 0..n
      BY <2>2
    <3> QED BY <1>2, <1>3, <3>1 DEF Path
  <2> QED BY <2>1, <2>2
<1>6. new[0] = x
  BY <1>2, <1>3 DEF Path
<1>7. (n + 1) - 1 = n /\ n + 1 \in Nat
  OBVIOUS
<1>8. Path(M, S, h, x, z, n + 1, new)
  BY <1>4, <1>5, <1>6, <1>7 DEF Path
<1> QED BY <1>7, <1>8 DEF Reaches

(* Longer files allow the same steps.                                      *)
LEMMA GoesExtends ==
  ASSUME NEW M, NEW S, NEW h, NEW x, NEW y, NEW M2, NEW S2,
         Extends(M, M2), Extends(S, S2), Goes(M, S, h, x, y)
  PROVE  Goes(M2, S2, h, x, y)
<1>1. x.phase = "idle" => x.at + 1 \in DOMAIN M2 /\ M2[x.at + 1] = M[x.at + 1]
  BY DEF Extends, Goes
<1>2. Wants(h, x) \/ x.phase = "fetch" => x.used + 1 \in DOMAIN S2 /\ S2[x.used + 1] = S[x.used + 1]
  BY DEF Extends, Goes
<1>3. StepOf(M2, S2, h, x) = StepOf(M, S, h, x)
  <2>1. x.phase = "idle" => ReadOf(M2, x) = ReadOf(M, x)
    BY <1>1 DEF ReadOf
  <2>2. x.phase = "fetch" => SeedOf(S2, h, x) = SeedOf(S, h, x)
    BY <1>2 DEF SeedOf
  <2>3. x.phase \in {"idle", "dispatch", "fetch", "replay", "emit"}
    BY DEF Goes
  <2> QED BY <2>1, <2>2, <2>3 DEF StepOf
<1> QED BY <1>1, <1>2, <1>3 DEF Goes

(* So they allow the same paths.                                           *)
LEMMA ReachesExtends ==
  ASSUME NEW M, NEW S, NEW h, NEW x, NEW y, NEW M2, NEW S2,
         Extends(M, M2), Extends(S, S2), Reaches(M, S, h, x, y)
  PROVE  Reaches(M2, S2, h, x, y)
<1>1. PICK n \in Nat : \E tr : Path(M, S, h, x, y, n, tr)
  BY DEF Reaches
<1>2. PICK tr : Path(M, S, h, x, y, n, tr)
  BY <1>1
<1>3. Path(M2, S2, h, x, y, n, tr)
  BY <1>2, GoesExtends, Zenon DEF Path
<1> QED BY <1>3 DEF Reaches

(* The first step of a path.                                               *)
LEMMA ReachesFirst ==
  ASSUME NEW M, NEW S, NEW h, NEW x, NEW y, Reaches(M, S, h, x, y), x # y
  PROVE  \E z : Goes(M, S, h, x, z) /\ Reaches(M, S, h, z, y)
<1>1. PICK n \in Nat : \E tr : Path(M, S, h, x, y, n, tr)
  BY DEF Reaches
<1>2. PICK tr : Path(M, S, h, x, y, n, tr)
  BY <1>1
<1>3. n # 0
  BY <1>2 DEF Path
<1>4. n - 1 \in Nat /\ 0 \in 0..(n - 1) /\ 0 + 1 = 1
  BY <1>3
<1>5. Goes(M, S, h, x, tr[1])
  <2>1. Goes(M, S, h, tr[0], tr[0 + 1])
    BY <1>2, <1>4 DEF Path
  <2> QED BY <1>2, <1>4, <2>1 DEF Path
<1> DEFINE new == [i \in 0..(n - 1) |-> tr[i + 1]]
<1>6. \A i \in 0..(n - 1) : new[i] = tr[i + 1]
  OBVIOUS
<1> HIDE DEF new
<1>7. new[0] = tr[1] /\ new[n - 1] = y
  <2>1. n - 1 \in 0..(n - 1) /\ (n - 1) + 1 = n
    BY <1>4
  <2> QED BY <1>2, <1>4, <1>6, <2>1 DEF Path
<1>8. ASSUME NEW i \in 0..((n - 1) - 1) PROVE Goes(M, S, h, new[i], new[i + 1])
  <2>1. i \in 0..(n - 1) /\ i + 1 \in 0..(n - 1)
    BY <1>4
  <2> QED BY <1>2, <1>6, <2>1 DEF Path
<1>9. Path(M, S, h, tr[1], y, n - 1, new)
  BY <1>7, <1>8 DEF Path
<1> QED BY <1>4, <1>5, <1>9 DEF Reaches

(* A step is the only one.                                                 *)
LEMMA ReachesNext ==
  ASSUME NEW M, NEW S, NEW h, NEW x, NEW y, NEW z,
         Reaches(M, S, h, x, y), x # y, Goes(M, S, h, x, z)
  PROVE  Reaches(M, S, h, z, y)
<1>1. PICK w : Goes(M, S, h, x, w) /\ Reaches(M, S, h, w, y)
  BY ReachesFirst
<1>2. w = z
  BY <1>1 DEF Goes
<1> QED BY <1>1, <1>2

(* A step keeps the rows there are.                                        *)
LEMMA GoesKeepsRows ==
  ASSUME NEW M, NEW S, NEW h, NEW x, NEW y, Goes(M, S, h, x, y), x.rows \in Seq(RowSet)
  PROVE  Grows(x.rows, y.rows)
<1>1. y.rows \in Seq(RowSet) /\ y = StepOf(M, S, h, x)
      /\ x.phase \in {"idle", "dispatch", "fetch", "replay", "emit"}
  BY DEF Goes
<1>2. ReadOf(M, x).rows = x.rows /\ EpochOf(x).rows = x.rows /\ OtherOf(x).rows = x.rows
      /\ SeedOf(S, h, x).rows = x.rows
  BY DEF ReadOf, EpochOf, OtherOf, SeedOf, State, Ended
<1>3. DiffOf(h, x).rows = x.rows
  BY DEF DiffOf, State, Ended
<1>4. LoopOf(h, x).rows = x.rows \/ \E r : LoopOf(h, x).rows = Append(x.rows, r)
  BY DEF LoopOf, State, Ended
<1>5. EmitOf(h, x).rows = x.rows \/ \E r : EmitOf(h, x).rows = Append(x.rows, r)
  BY DEF EmitOf, State, Ended
<1> QED BY <1>1, <1>2, <1>3, <1>4, <1>5 DEF StepOf, Grows

(* Appending keeps what there was.                                         *)
LEMMA AppendStarts ==
  ASSUME NEW s \in Seq(RowSet), NEW t \in Seq(RowSet), NEW u \in Seq(RowSet), NEW r,
         Starts(s, t), u = t \/ u = Append(t, r)
  PROVE  Starts(s, u)
<1>1. CASE u = t
  BY <1>1
<1>2. CASE u = Append(t, r)
  <2>1. Len(u) = Len(t) + 1 /\ \A i \in 1..Len(t) : u[i] = t[i]
    BY <1>2
  <2>2. Len(s) \in Nat /\ Len(t) \in Nat
    OBVIOUS
  <2> QED BY <2>1, <2>2 DEF Starts
<1> QED BY <1>1, <1>2

(* A path keeps the rows of its first state.                               *)
LEMMA ReachesKeepsRows ==
  ASSUME NEW M, NEW S, NEW h, NEW x, NEW y, Reaches(M, S, h, x, y), x.rows \in Seq(RowSet)
  PROVE  y.rows \in Seq(RowSet) /\ Starts(x.rows, y.rows)
<1>1. PICK n \in Nat : \E tr : Path(M, S, h, x, y, n, tr)
  BY DEF Reaches
<1>2. PICK tr : Path(M, S, h, x, y, n, tr)
  BY <1>1
<1> DEFINE A == {i \in Nat : i <= n => tr[i].rows \in Seq(RowSet) /\ Starts(x.rows, tr[i].rows)}
<1>3. 0 \in A
  BY <1>2 DEF Path, Starts
<1>4. ASSUME NEW i \in Nat, i \in A PROVE i + 1 \in A
  <2> SUFFICES ASSUME i + 1 <= n
               PROVE  tr[i + 1].rows \in Seq(RowSet) /\ Starts(x.rows, tr[i + 1].rows)
    BY <1>4
  <2>1. i <= n /\ i \in 0..(n - 1)
    OBVIOUS
  <2>2. tr[i].rows \in Seq(RowSet) /\ Starts(x.rows, tr[i].rows)
    BY <1>4, <2>1
  <2>3. Goes(M, S, h, tr[i], tr[i + 1])
    BY <1>2, <2>1 DEF Path
  <2>4. Grows(tr[i].rows, tr[i + 1].rows)
    BY <2>2, <2>3, GoesKeepsRows, Zenon
  <2>5. PICK r : tr[i + 1].rows = tr[i].rows \/ tr[i + 1].rows = Append(tr[i].rows, r)
    BY <2>4 DEF Grows
  <2>6. tr[i + 1].rows \in Seq(RowSet)
    BY <2>4 DEF Grows
  <2> QED BY <2>2, <2>5, <2>6, AppendStarts
<1> HIDE DEF A
<1>5. Nat \subseteq A
  BY <1>3, <1>4, SetInduction
<1>6. n \in A
  BY <1>5
<1> QED BY <1>2, <1>6 DEF A, Path

-----------------------------------------------------------------------------
(* The session's operations compute these values.                          *)

(* The verdict on a diff.                                                  *)
LEMMA SesVerdict ==
  ASSUME NEW e
  PROVE  Session!ApplyResult(e) = Verdict(Ses, e)
BY DepthAssumption
DEF Session!ApplyResult, Session!UsdmResult, Session!SpotResult, Verdict, Ses

(* What an accepted diff makes of the levels.                              *)
LEMMA SesLevels ==
  ASSUME NEW e, Session!AcceptDiff(e, Session!Diff(e))
  PROVE  /\ levels' = Levels(hist, levels, e) /\ last_update_id' = e.u
         /\ started' = TRUE /\ initialized' = initialized
BY DEF Session!AcceptDiff, Session!apply_levels, Session!Diff, Session!Varied, Levels

(* buffer_event.                                                           *)
LEMMA SesKept ==
  ASSUME NEW e, NEW pending \in BOOLEAN, Session!buffer_event(e, pending), snap_id' = snap_id
  PROVE  Ses' = Kept(Ses, e, pending)
<1>1. CASE Len(buffer) >= KMaxBuffer
  <2>1. /\ resync_pending' = TRUE /\ overflows' = overflows + 1 /\ buffer' = <<e>>
        /\ levels' = NoLevels /\ initialized' = FALSE /\ last_update_id' = 0 /\ started' = FALSE
    BY <1>1 DEF Session!buffer_event, Session!reset, Session!NoLevels, NoLevels
  <2> QED BY <1>1, <2>1 DEF Ses, Kept
<1>2. CASE ~(Len(buffer) >= KMaxBuffer)
  <2>1. /\ resync_pending' = pending /\ overflows' = overflows /\ buffer' = Append(buffer, e)
        /\ UNCHANGED <<initialized, last_update_id, started, levels>>
    BY <1>2 DEF Session!buffer_event, Session!bookVars
  <2> QED BY <1>2, <2>1 DEF Ses, Kept
<1> QED BY <1>1, <1>2

(* on_diff.                                                                *)
LEMMA SesFed ==
  ASSUME resync_pending \in BOOLEAN, NEW e, Session!on_diff(e)
  PROVE  Ses' = Fed(hist, Ses, e)
<1>1. snap_id' = snap_id
  BY DEF Session!on_diff
<1>2. Ses.pend = resync_pending /\ Ses.init = initialized
  BY DEF Ses
<1>3. CASE resync_pending \/ ~initialized
  <2>1. Session!buffer_event(e, resync_pending)
    BY <1>3 DEF Session!on_diff
  <2>2. Ses' = Kept(Ses, e, resync_pending)
    BY <1>1, <2>1, SesKept
  <2> QED BY <1>2, <1>3, <2>2 DEF Fed
<1>4. CASE ~resync_pending /\ initialized
  <2>1. Session!on_applied(e) \/ Session!on_ignored(e) \/ Session!on_gap(e)
    BY <1>4 DEF Session!on_diff
  <2>2. CASE Session!on_applied(e)
    <3>1. Verdict(Ses, e) = "Applied"
      BY <2>2, SesVerdict DEF Session!on_applied
    <3>2. Ses' = Accepted(hist, Ses, e, Ses.buf)
      BY <1>1, <2>2, SesLevels DEF Session!on_applied, Ses, Accepted
    <3> QED BY <1>2, <1>4, <3>1, <3>2 DEF Fed
  <2>3. CASE Session!on_ignored(e)
    <3>1. Verdict(Ses, e) = "IgnoredOld"
      BY <2>3, SesVerdict DEF Session!on_ignored
    <3>2. Ses' = Ses
      BY <1>1, <2>3 DEF Session!on_ignored, Session!bookVars, Ses
    <3> QED BY <1>2, <1>4, <3>1, <3>2 DEF Fed
  <2>4. CASE Session!on_gap(e)
    <3>1. Verdict(Ses, e) = "Gap" /\ Session!buffer_event(e, TRUE)
      BY <2>4, SesVerdict DEF Session!on_gap
    <3>2. Ses' = Kept(Ses, e, TRUE)
      BY <1>1, <3>1, SesKept
    <3> QED BY <1>2, <1>4, <3>1, <3>2 DEF Fed
  <2> QED BY <2>1, <2>2, <2>3, <2>4
<1> QED BY <1>3, <1>4

(* request_resync and on_snapshot.                                         *)
LEMMA SesCleared ==
  ASSUME Session!request_resync
  PROVE  Ses' = Cleared(Ses)
BY DEF Session!request_resync, Session!reset, Session!NoLevels, NoLevels, Ses, Cleared

(* The book is seeded.                                                     *)
LEMMA SesSeeded ==
  ASSUME NEW id, Session!on_snapshot(hist[id], id)
  PROVE  Ses' = Seeded(hist, Ses, id)
BY DEF Session!on_snapshot, Session!set_snapshot, Ses, Seeded

(* The steps of on_snapshot's loop.                                        *)
LEMMA SesLoop ==
  /\ Session!ReplayDrop => Ses' = Dropped(Ses)
  /\ Session!ReplayApply => Ses' = Accepted(hist, Ses, Head(buffer), Tail(buffer))
  /\ Session!ReplayGap => Ses' = Stopped(Ses)
  /\ Session!ReplayDone => Ses' = Ses
<1>1. Session!ReplayDrop => Ses' = Dropped(Ses)
  BY DEF Session!ReplayDrop, Session!bookVars, Ses, Dropped
<1>2. Session!ReplayApply => Ses' = Accepted(hist, Ses, Head(buffer), Tail(buffer))
  BY SesLevels DEF Session!ReplayApply, Ses, Accepted
<1>3. Session!ReplayGap => Ses' = Stopped(Ses)
  BY DEF Session!ReplayGap, Session!bookVars, Ses, Stopped
<1>4. Session!ReplayDone => Ses' = Ses
  BY DEF Session!ReplayDone, Session!bookVars, Ses
<1> QED BY <1>1, <1>2, <1>3, <1>4

-----------------------------------------------------------------------------
(* The live run and the loop of replay on what it has written so far.      *)

(* Where the loop over the rows begins.                                    *)
Start ==
  State([init |-> FALSE, id |-> 0, started |-> FALSE, lv |-> NoLevels,
         pend |-> TRUE, ovf |-> 0, buf |-> <<>>, snap |-> 0],
        NoEpoch, 0, "idle", NoFrame, 0, 0, <<>>)

(* Replay that has read the rows the live run has written stands at y, the *)
(* handler where y is: with the session's state, or with the cleared one   *)
(* if a row that could not be parsed was the first of its connection.      *)
InStep(y) == y.ses = Ses /\ y.last = last_epoch

(* The cleared session: the handler will clear its own at the next row     *)
(* that it can parse.                                                      *)
Lags(y) ==
  /\ y.ses = Cleared(Ses)
  /\ y.last \in 0..MaxEpoch /\ y.last <= epoch
  /\ last_epoch = NoEpoch \/ last_epoch < y.last

(* y stands where the handler stands.                                      *)
Follows(y) ==
  /\ y.at = Len(md) /\ y.used = Len(snaps) /\ y.rows = ob_rows /\ y.phase = phase
  /\ phase # "idle" => y.frame = frame /\ y.epoch = epoch
  /\ InStep(y) \/ (phase \in {"idle", "dispatch"} /\ Lags(y))

(* At y, with all rows read, replay needs a snapshot that it does not have.*)
Hungry(M, S, h, y) == y.at = Len(M) /\ y.used = Len(S) /\ Wants(h, y)

(* The handler's place as a state of the loop over the rows.               *)
LiveState(used) == State(Ses, last_epoch, epoch, phase, frame, Len(md), used, ob_rows)

(* The connection numbers of the handler.                                  *)
EpochsOK ==
  /\ last_epoch = NoEpoch => Ses = Cleared(Ses)
  /\ last_epoch = NoEpoch \/ last_epoch <= epoch
  /\ phase = "emit" => frame.kind \in {"Diff", "Trade"}

(* Replay of the rows there are ends where the handler stands.             *)
Following == \E y : Reaches(md, snaps, hist, Start, y) /\ Follows(y)

(* It ends with the diff whose snapshot the handler is still busy with.    *)
Asking ==
  \E y : /\ Reaches(md, snaps, hist, Start, y) /\ Hungry(md, snaps, hist, y)
         /\ Starts(y.rows, ob_rows)

(* The snapshot that is asked for goes to the sidecar after its replay.    *)
Pending ==
  /\ phase = "fetch" =>
       \A s \in UpdateId : Reaches(md, Append(snaps, s), hist, Start, LiveState(Len(snaps)))
  /\ phase = "replay" =>
       Reaches(md, Append(snaps, snap_id), hist, Start, LiveState(Len(snaps) + 1))

(* The invariant of the live run, as far as no REST request failed.        *)
LInv ==
  mode = "live" /\ ~failed =>
    /\ EpochsOK
    /\ phase \in {"idle", "dispatch", "emit"} => Following
    /\ phase \in {"fetch", "replay"} => Asking
    /\ Pending

-----------------------------------------------------------------------------
(* The steps that the live run and replay share.                           *)

(* A step of on_snapshot's loop.                                           *)
LEMMA LoopIs ==
  ASSUME NEW x, x.ses = Ses, buffer \in Seq(DepthEvent), snap_id \in UpdateId
  PROVE  /\ Session!ReplayDrop =>
              LoopOf(hist, x) = State(Ses', x.last, x.epoch, "replay", x.frame, x.at, x.used, x.rows)
         /\ Session!ReplayApply =>
              LoopOf(hist, x) = State(Ses', x.last, x.epoch, "replay", x.frame, x.at, x.used,
                                      Append(x.rows, Row("D", last_update_id', levels')))
         /\ Session!ReplayGap \/ Session!ReplayDone => LoopOf(hist, x) = Ended(x, Ses', x.rows)
<1>1. Ses.buf = buffer /\ Ses.snap = snap_id /\ Ses.lv = levels
  BY DEF Ses
<1>n. buffer # <<>> /\ Head(buffer).u > snap_id => ~(Head(buffer).u <= snap_id)
  <2>1. buffer # <<>> => Head(buffer) \in DepthEvent
    OBVIOUS
  <2>2. buffer # <<>> => Head(buffer).u \in Nat /\ snap_id \in Nat
    BY <2>1, DiffIds, DepthAssumption DEF UpdateId
  <2> QED BY <2>2
<1>2. ASSUME Session!ReplayDrop
      PROVE  LoopOf(hist, x) = State(Ses', x.last, x.epoch, "replay", x.frame, x.at, x.used, x.rows)
  <2>1. Ses' = Dropped(Ses)
    BY <1>2, SesLoop
  <2>2. buffer # <<>> /\ (Head(buffer).u <= snap_id \/ Verdict(Ses, Head(buffer)) = "IgnoredOld")
    BY <1>2, SesVerdict DEF Session!ReplayDrop
  <2> QED BY <1>1, <2>1, <2>2 DEF LoopOf
<1>3. ASSUME Session!ReplayApply
      PROVE  LoopOf(hist, x) = State(Ses', x.last, x.epoch, "replay", x.frame, x.at, x.used,
                                     Append(x.rows, Row("D", last_update_id', levels')))
  <2>1. Ses' = Accepted(hist, Ses, Head(buffer), Tail(buffer))
    BY <1>3, SesLoop
  <2>2. /\ buffer # <<>> /\ Head(buffer).u > snap_id /\ Verdict(Ses, Head(buffer)) = "Applied"
        /\ Session!AcceptDiff(Head(buffer), Session!Diff(Head(buffer)))
    BY <1>3, SesVerdict DEF Session!ReplayApply
  <2>3. levels' = Levels(hist, levels, Head(buffer)) /\ last_update_id' = Head(buffer).u
    BY <2>2, SesLevels
  <2>4. ~(Head(buffer).u <= snap_id)
    BY <1>n, <2>2
  <2> QED BY <1>1, <2>1, <2>2, <2>3, <2>4 DEF LoopOf
<1>4. ASSUME Session!ReplayGap PROVE LoopOf(hist, x) = Ended(x, Ses', x.rows)
  <2>1. Ses' = Stopped(Ses)
    BY <1>4, SesLoop
  <2>2. /\ buffer # <<>> /\ Head(buffer).u > snap_id /\ Verdict(Ses, Head(buffer)) = "Gap"
    BY <1>4, SesVerdict DEF Session!ReplayGap
  <2>3. ~(Head(buffer).u <= snap_id)
    BY <1>n, <2>2
  <2> QED BY <1>1, <2>1, <2>2, <2>3 DEF LoopOf
<1>5. ASSUME Session!ReplayDone PROVE LoopOf(hist, x) = Ended(x, Ses', x.rows)
  <2>1. Ses' = Ses
    BY <1>5, SesLoop
  <2>2. buffer = <<>>
    BY <1>5 DEF Session!ReplayDone
  <2> QED BY <1>1, <2>1, <2>2 DEF LoopOf
<1> QED BY <1>2, <1>3, <1>4, <1>5

(* A diff that is handed to the session.                                   *)
LEMMA DiffIs ==
  ASSUME NEW x, x.ses = Ses, x.frame = frame, resync_pending \in BOOLEAN,
         Session!on_diff(frame.ev)
  PROVE  /\ Fed(hist, x.ses, x.frame.ev) = Ses'
         /\ Fed(hist, x.ses, x.frame.ev).pend = resync_pending'
         /\ Applies(x) <=> DiffApplied
         /\ DiffApplied => DiffOf(hist, x) = State(Ses', x.last, x.epoch, "emit", frame, x.at, x.used, x.rows)
         /\ ~DiffApplied /\ resync_pending' =>
              DiffOf(hist, x) = State(Ses', x.last, x.epoch, "fetch", frame, x.at, x.used, x.rows)
         /\ ~DiffApplied /\ ~resync_pending' => DiffOf(hist, x) = Ended(x, Ses', x.rows)
<1>1. Fed(hist, x.ses, x.frame.ev) = Ses'
  BY SesFed
<1>2. Ses'.pend = resync_pending'
  BY DEF Ses
<1>3. Applies(x) <=> DiffApplied
  BY SesVerdict DEF Applies, DiffApplied, Ses
<1> QED BY <1>1, <1>2, <1>3 DEF DiffOf

(* The first row of a new connection.                                      *)
LEMMA EpochIs ==
  ASSUME NEW x, x.ses = Ses, x.last = last_epoch,
         IF last_epoch # NoEpoch THEN Session!request_resync
         ELSE UNCHANGED <<feedVars, bookVars, sessionVars>>
  PROVE  EpochOf(x) = State(Ses', x.epoch, x.epoch, "dispatch", x.frame, x.at, x.used, x.rows)
<1>1. CASE last_epoch # NoEpoch
  BY <1>1, SesCleared DEF EpochOf
<1>2. CASE last_epoch = NoEpoch
  <2>1. Ses' = Ses
    BY <1>2 DEF bookVars, sessionVars, Ses
  <2> QED BY <1>2, <2>1 DEF EpochOf
<1> QED BY <1>1, <1>2

-----------------------------------------------------------------------------
(* Every step of the live run keeps LInv.                                  *)

(* The rows of the market-data file, and the types of the live run.        *)
AuditSet == [kind: Kinds, ev: DepthEvent, epoch: 0..MaxEpoch, seq: Nat]

(* The types that the steps of the live run need.                          *)
LiveTypes ==
  /\ md \in Seq(AuditSet) /\ snaps \in Seq(UpdateId) /\ ob_rows \in Seq(RowSet)
  /\ resync_pending \in BOOLEAN /\ initialized \in BOOLEAN
  /\ buffer \in Seq(DepthEvent) /\ snap_id \in UpdateId
  /\ epoch \in 0..MaxEpoch /\ last_epoch \in 0..NoEpoch
  /\ phase \in {"idle", "dispatch", "fetch", "replay", "emit"}
  /\ replaying <=> phase = "replay"
  /\ phase \in {"fetch", "replay", "emit"} => last_epoch = epoch

(* They follow from the invariant of the live run.                         *)
LEMMA LiveTyped ==
  ASSUME CInv
  PROVE  LiveTypes
<1>1. /\ resync_pending \in BOOLEAN /\ initialized \in BOOLEAN
      /\ buffer \in Seq(DepthEvent) /\ snap_id \in UpdateId
  BY SessionTypes DEF CInv
<1>2. /\ md \in Seq(AuditSet) /\ snaps \in Seq(UpdateId) /\ ob_rows \in Seq(RowSet)
      /\ epoch \in 0..MaxEpoch /\ last_epoch \in 0..NoEpoch
      /\ phase \in {"idle", "dispatch", "fetch", "replay", "emit"}
  BY DEF CInv, TypeOK, AuditSet, RowSet
<1>3. /\ replaying <=> phase = "replay"
      /\ phase \in {"fetch", "replay", "emit"} => last_epoch = epoch
  BY DEF CInv, PhaseOK
<1> QED BY <1>1, <1>2, <1>3 DEF LiveTypes

(* The rows keep their type.                                               *)
LEMMA RowsTypedNext ==
  ASSUME CInv'
  PROVE  ob_rows' \in Seq(RowSet) /\ epoch' \in 0..MaxEpoch
BY DEF CInv, TypeOK, RowSet

(* A longer file begins with the shorter one.                              *)
LEMMA AppendExtends ==
  ASSUME NEW T, NEW q \in Seq(T), NEW e
  PROVE  /\ Extends(q, Append(q, e)) /\ Extends(q, q)
         /\ Len(Append(q, e)) = Len(q) + 1 /\ Append(q, e)[Len(q) + 1] = e
         /\ Len(q) + 1 \in DOMAIN Append(q, e)
BY DEF Extends

(* Steps that neither write nor touch the session.                         *)
LEMMA QuietStep ==
  ASSUME LiveTypes, mode = "live", ~failed, LInv,
         UNCHANGED <<hist, md, snaps, ob_rows, last_epoch, phase, frame, bookVars, sessionVars>>,
         epoch' = epoch \/ (phase = "idle" /\ epoch' = epoch + 1)
  PROVE  LInv'
<1>1. Ses' = Ses
  BY DEF bookVars, sessionVars, Ses
<1>2. /\ EpochsOK /\ Pending
      /\ phase \in {"idle", "dispatch", "emit"} => Following
      /\ phase \in {"fetch", "replay"} => Asking
  BY DEF LInv
<1>3. EpochsOK'
  BY <1>1, <1>2 DEF EpochsOK, LiveTypes, NoEpoch
<1>4. Asking => Asking'
  BY DEF Asking
<1>5. Following => Following'
  <2> SUFFICES ASSUME Following PROVE Following'
    OBVIOUS
  <2>1. PICK y : Reaches(md, snaps, hist, Start, y) /\ Follows(y)
    BY DEF Following
  <2>2. InStep(y) => InStep(y)'
    BY <1>1 DEF InStep
  <2>3. Lags(y) => Lags(y)'
    BY <1>1 DEF Lags, LiveTypes
  <2>4. Follows(y)'
    BY <2>1, <2>2, <2>3 DEF Follows
  <2> QED BY <2>1, <2>4 DEF Following
<1>6. Pending'
  <2>1. phase # "idle" => LiveState(Len(snaps))' = LiveState(Len(snaps))
    BY <1>1 DEF LiveState, State
  <2>2. phase # "idle" => LiveState(Len(snaps) + 1)' = LiveState(Len(snaps) + 1)
    BY <1>1 DEF LiveState, State
  <2>3. snap_id' = snap_id
    BY DEF sessionVars
  <2> QED BY <1>2, <2>1, <2>2, <2>3 DEF Pending
<1> QED BY <1>2, <1>3, <1>4, <1>5, <1>6 DEF LInv

(* A frame that is handed on has its audit row.                            *)
LEMMA ReadFrameStep ==
  ASSUME CInv, CInv', mode = "live", ~failed, LInv, ReadFrame
  PROVE  LInv'
<1>1. LiveTypes
  BY LiveTyped
<1>2. /\ phase = "idle" /\ wire # <<>> /\ Ses' = Ses
      /\ UNCHANGED <<hist, snaps, ob_rows, epoch, last_epoch>>
      /\ md' = Append(md, AuditRow(Head(wire), epoch, conn_seq'))
  BY DEF ReadFrame, Read, feedVars, bookVars, sessionVars, Ses
<1>3. EpochsOK /\ Following
  BY <1>2 DEF LInv
<1>4. PICK y : Reaches(md, snaps, hist, Start, y) /\ Follows(y)
  BY <1>3 DEF Following
<1>5. /\ y.at = Len(md) /\ y.used = Len(snaps) /\ y.rows = ob_rows /\ y.phase = "idle"
      /\ InStep(y) \/ Lags(y)
  BY <1>2, <1>4 DEF Follows
<1> DEFINE row == AuditRow(Head(wire), epoch, conn_seq')
<1>6. row.epoch = epoch /\ row.kind = Head(wire).kind /\ row.ev = Head(wire).ev
  BY DEF AuditRow
<1>7. [kind |-> row.kind, ev |-> row.ev] = Head(wire)
  <2>1. wire \in Seq([kind: Kinds, ev: DepthEvent])
    BY DEF CInv, TypeOK
  <2>2. Head(wire) \in [kind: Kinds, ev: DepthEvent]
    <3> DEFINE F == [kind: Kinds, ev: DepthEvent]
    <3> HIDE DEF F
    <3>1. wire \in Seq(F)
      BY <2>1 DEF F
    <3>2. Head(wire) \in F
      BY <1>2, <3>1
    <3> QED BY <3>2 DEF F
  <2> QED BY <1>6, <2>2
<1> HIDE DEF row
<1>8. /\ Extends(md, md') /\ Extends(snaps, snaps) /\ Len(md') = Len(md) + 1
      /\ md'[Len(md) + 1] = row /\ Len(md) + 1 \in DOMAIN md'
  BY <1>1, <1>2, AppendExtends DEF LiveTypes, row
<1>z. PICK z : z = ReadOf(md', y)
  OBVIOUS
<1>9. z = State(y.ses, y.last, epoch, "dispatch", Head(wire), Len(md'), Len(snaps), ob_rows)
  BY <1>5, <1>6, <1>7, <1>8, <1>z DEF ReadOf
<1>10. Goes(md', snaps, hist, y, z)
  <2>1. z = StepOf(md', snaps, hist, y)
    BY <1>5, <1>z DEF StepOf
  <2>2. z.rows \in Seq(RowSet)
    BY <1>1, <1>9 DEF State, LiveTypes
  <2>3. ~Wants(hist, y) /\ y.phase # "fetch"
    BY <1>5 DEF Wants
  <2> QED BY <1>5, <1>8, <2>1, <2>2, <2>3 DEF Goes
<1>11. Reaches(md', snaps, hist, Start, z)
  <2>1. Reaches(md', snaps, hist, Start, y)
    BY <1>4, <1>8, ReachesExtends
  <2> QED BY <1>10, <2>1, ReachesStep
<1>12. EpochsOK'
  <2>1. phase' # "emit"
    BY <1>2 DEF ReadFrame
  <2> QED BY <1>2, <1>3, <2>1 DEF EpochsOK
<1>13. CASE parse_depth(Head(wire))
  <2>1. phase' = "dispatch" /\ frame' = Head(wire)
    BY <1>13 DEF ReadFrame
  <2>2. InStep(z)' \/ Lags(z)'
    BY <1>2, <1>5, <1>9 DEF InStep, Lags, State
  <2>3. Follows(z)'
    BY <1>2, <1>9, <2>1, <2>2 DEF Follows, State
  <2>4. Following'
    BY <1>2, <1>11, <2>3 DEF Following
  <2> QED BY <1>12, <2>1, <2>4 DEF LInv, Pending
<1>14. CASE ~parse_depth(Head(wire))
  <2>1. phase' = "idle" /\ Head(wire).kind = "Unparsed"
    BY <1>2, <1>14 DEF ReadFrame, parse_depth
  <2>2. PICK w : /\ Reaches(md', snaps, hist, Start, w)
                 /\ w.phase = "dispatch" /\ w.last = epoch /\ w.epoch = epoch
                 /\ w.frame = Head(wire) /\ w.at = Len(md') /\ w.used = Len(snaps)
                 /\ w.rows = ob_rows
                 /\ IF y.last = epoch \/ y.last = NoEpoch THEN w.ses = y.ses ELSE w.ses = Cleared(y.ses)
    <3>1. CASE y.last = epoch
      BY <1>9, <1>11, <3>1 DEF State
    <3>2. CASE y.last # epoch
      <4> DEFINE w == EpochOf(z)
      <4>1. w = State(IF y.last # NoEpoch THEN Cleared(y.ses) ELSE y.ses, epoch, epoch, "dispatch",
                      Head(wire), Len(md'), Len(snaps), ob_rows)
        BY <1>9 DEF EpochOf, State
      <4>2. w = StepOf(md', snaps, hist, z)
        BY <1>9, <3>2 DEF StepOf, State
      <4>3. ~Wants(hist, z) /\ z.phase = "dispatch"
        BY <1>9, <3>2 DEF Wants, State
      <4>4. w.rows \in Seq(RowSet)
        BY <1>1, <4>1 DEF State, LiveTypes
      <4> HIDE DEF w
      <4>5. Goes(md', snaps, hist, z, w)
        BY <4>2, <4>3, <4>4 DEF Goes
      <4>6. Reaches(md', snaps, hist, Start, w)
        BY <1>11, <4>5, ReachesStep
      <4>7. /\ w.phase = "dispatch" /\ w.last = epoch /\ w.epoch = epoch
            /\ w.frame = Head(wire) /\ w.at = Len(md') /\ w.used = Len(snaps)
            /\ w.rows = ob_rows
            /\ IF y.last = epoch \/ y.last = NoEpoch THEN w.ses = y.ses ELSE w.ses = Cleared(y.ses)
        BY <3>2, <4>1 DEF State
      <4> QED BY <4>6, <4>7
    <3> QED BY <3>1, <3>2
  <2> DEFINE v == OtherOf(w)
  <2>3. v = State(w.ses, epoch, epoch, "idle", NoFrame, Len(md'), Len(snaps), ob_rows)
    BY <2>1, <2>2 DEF OtherOf, Ended
  <2>4. v = StepOf(md', snaps, hist, w)
    BY <2>1, <2>2 DEF StepOf
  <2>5. ~Wants(hist, w) /\ w.phase = "dispatch"
    BY <2>1, <2>2 DEF Wants
  <2>6. v.rows \in Seq(RowSet)
    BY <1>1, <2>3 DEF State, LiveTypes
  <2> HIDE DEF v
  <2>7. Goes(md', snaps, hist, w, v)
    BY <2>4, <2>5, <2>6 DEF Goes
  <2>8. Reaches(md', snaps, hist, Start, v)
    BY <2>2, <2>7, ReachesStep
  <2>9. InStep(v)' \/ Lags(v)'
    <3>0. v.ses = w.ses /\ v.last = epoch
      BY <2>3 DEF State
    <3>c. Cleared(Cleared(Ses)) = Cleared(Ses)
      BY DEF Cleared
    <3>n. epoch \in 0..MaxEpoch /\ epoch # NoEpoch /\ last_epoch \in 0..NoEpoch /\ MaxEpoch \in Nat
      BY <1>1, CaptureAssumption DEF LiveTypes, NoEpoch
    <3>e. last_epoch = NoEpoch \/ last_epoch <= epoch
      BY <1>3 DEF EpochsOK
    <3>1. CASE InStep(y)
      <4>1. CASE last_epoch = epoch
        <5>1. v.ses = Ses /\ v.last = last_epoch
          BY <2>2, <3>0, <3>1, <4>1 DEF InStep
        <5> QED BY <1>2, <5>1 DEF InStep
      <4>2. CASE last_epoch # epoch
        <5>1. v.ses = Cleared(Ses)
          BY <1>3, <2>2, <3>0, <3>1, <4>2 DEF InStep, EpochsOK
        <5>2. last_epoch = NoEpoch \/ last_epoch < epoch
          BY <3>n, <3>e, <4>2 DEF NoEpoch
        <5> QED BY <1>2, <3>0, <3>n, <5>1, <5>2 DEF Lags
      <4> QED BY <4>1, <4>2
    <3>2. CASE Lags(y)
      <4>1. v.ses = Cleared(Ses)
        BY <2>2, <3>0, <3>2, <3>c DEF Lags
      <4>2. last_epoch = NoEpoch \/ last_epoch < epoch
        BY <3>n, <3>2 DEF Lags, NoEpoch
      <4> QED BY <1>2, <3>0, <3>n, <4>1, <4>2 DEF Lags
    <3> QED BY <1>5, <3>1, <3>2
  <2>10. Follows(v)'
    BY <1>2, <2>1, <2>3, <2>9 DEF Follows, State
  <2>11. Following'
    BY <1>2, <2>8, <2>10 DEF Following
  <2> QED BY <1>12, <2>1, <2>11 DEF LInv, Pending
<1> QED BY <1>13, <1>14
(* Replay is where the handler is when that hands a frame on.              *)
LEMMA DispatchIs ==
  ASSUME LiveTypes, mode = "live", ~failed, LInv, phase = "dispatch", last_epoch = epoch
  PROVE  \E y : /\ Reaches(md, snaps, hist, Start, y) /\ InStep(y)
                /\ y.at = Len(md) /\ y.used = Len(snaps) /\ y.rows = ob_rows
                /\ y.phase = "dispatch" /\ y.frame = frame /\ y.epoch = epoch
<1>1. PICK y : Reaches(md, snaps, hist, Start, y) /\ Follows(y)
  BY DEF LInv, Following
<1>2. ~Lags(y)
  <2> SUFFICES ASSUME Lags(y) PROVE FALSE
    OBVIOUS
  <2>1. epoch \in Nat /\ MaxEpoch \in Nat /\ epoch <= MaxEpoch /\ y.last \in Nat
    BY CaptureAssumption DEF LiveTypes, Lags
  <2> QED BY <2>1 DEF Lags, NoEpoch
<1> QED BY <1>1, <1>2 DEF Follows

(* The first frame of a new connection.                                    *)
LEMMA NewEpochStep ==
  ASSUME CInv, mode = "live", ~failed, LInv, NewEpoch
  PROVE  LInv'
<1>1. LiveTypes
  BY LiveTyped
<1>2. /\ phase = "dispatch" /\ phase' = "dispatch" /\ last_epoch # epoch /\ last_epoch' = epoch
      /\ UNCHANGED <<hist, md, snaps, ob_rows, epoch, frame>>
      /\ IF last_epoch # NoEpoch THEN Session!request_resync
         ELSE UNCHANGED <<feedVars, bookVars, sessionVars>>
  BY DEF NewEpoch, wireVars, rowVars, feedVars, Session!request_resync, Session!feedVars
<1>3. EpochsOK
  BY <1>2 DEF LInv
<1>4. Ses' = Cleared(Ses) /\ (last_epoch = NoEpoch => Ses' = Ses)
  <2>1. CASE last_epoch # NoEpoch
    BY <1>2, <2>1, SesCleared
  <2>2. CASE last_epoch = NoEpoch
    <3>1. Ses' = Ses
      BY <1>2, <2>2 DEF bookVars, sessionVars, Ses
    <3> QED BY <1>3, <2>2, <3>1 DEF EpochsOK
  <2> QED BY <2>1, <2>2
<1>5. PICK y : Reaches(md, snaps, hist, Start, y) /\ Follows(y)
  BY <1>2 DEF LInv, Following
<1>6. /\ y.at = Len(md) /\ y.used = Len(snaps) /\ y.rows = ob_rows /\ y.phase = "dispatch"
      /\ y.frame = frame /\ y.epoch = epoch /\ (InStep(y) \/ Lags(y))
  BY <1>2, <1>5 DEF Follows
<1>n. epoch \in 0..MaxEpoch /\ MaxEpoch \in Nat /\ epoch # NoEpoch
  BY <1>1, CaptureAssumption DEF LiveTypes, NoEpoch
<1>7. \E z : Reaches(md, snaps, hist, Start, z) /\ Follows(z)'
  <2>1. CASE y.last = epoch
    <3>1. Lags(y)
      BY <1>2, <1>6, <2>1 DEF InStep
    <3>2. y.ses = Ses'
      BY <1>4, <3>1 DEF Lags
    <3>3. InStep(y)'
      BY <1>2, <2>1, <3>2 DEF InStep
    <3>4. Follows(y)'
      BY <1>2, <1>6, <3>3 DEF Follows
    <3> QED BY <1>5, <3>4
  <2>2. CASE y.last # epoch
    <3>1. PICK z : z = EpochOf(y)
      OBVIOUS
    <3>2. z = State(IF y.last # NoEpoch THEN Cleared(y.ses) ELSE y.ses, epoch, epoch, "dispatch",
                    frame, Len(md), Len(snaps), ob_rows)
      BY <1>6, <3>1 DEF EpochOf
    <3>3. z.ses = Ses'
      <4>1. CASE InStep(y)
        BY <1>4, <3>2, <4>1 DEF InStep, State
      <4>2. CASE Lags(y)
        <5>1. Cleared(Cleared(Ses)) = Cleared(Ses)
          BY DEF Cleared
        <5> QED BY <1>4, <3>2, <4>2, <5>1 DEF Lags, State
      <4> QED BY <1>6, <4>1, <4>2
    <3>4. z = StepOf(md, snaps, hist, y)
      BY <1>6, <2>2, <3>1 DEF StepOf
    <3>5. ~Wants(hist, y)
      BY <1>6, <2>2 DEF Wants
    <3>6. z.rows \in Seq(RowSet)
      BY <1>1, <3>2 DEF State, LiveTypes
    <3>7. Goes(md, snaps, hist, y, z)
      BY <1>6, <3>4, <3>5, <3>6 DEF Goes
    <3>8. Reaches(md, snaps, hist, Start, z)
      BY <1>5, <3>7, ReachesStep
    <3>9. InStep(z)'
      BY <1>2, <3>2, <3>3 DEF InStep, State
    <3>10. Follows(z)'
      BY <1>2, <3>2, <3>9 DEF Follows, State
    <3> QED BY <3>8, <3>10
  <2> QED BY <2>1, <2>2
<1>8. Following'
  BY <1>2, <1>7 DEF Following
<1>9. EpochsOK'
  BY <1>2, <1>n DEF EpochsOK
<1> QED BY <1>2, <1>8, <1>9 DEF LInv, Pending

(* A diff is handed to the session.                                        *)
LEMMA HandleDiffStep ==
  ASSUME CInv, mode = "live", ~failed, LInv, HandleDiff
  PROVE  LInv'
<1>1. LiveTypes
  BY LiveTyped
<1>2. /\ phase = "dispatch" /\ last_epoch = epoch /\ frame.kind = "Diff"
      /\ Session!on_diff(frame.ev)
      /\ UNCHANGED <<hist, md, snaps, ob_rows, epoch, last_epoch>>
  BY DEF HandleDiff, Dispatch, wireVars, rowVars, Session!on_diff, Session!feedVars
<1>3. PICK y : /\ Reaches(md, snaps, hist, Start, y) /\ InStep(y)
               /\ y.at = Len(md) /\ y.used = Len(snaps) /\ y.rows = ob_rows
               /\ y.phase = "dispatch" /\ y.frame = frame /\ y.epoch = epoch
  BY <1>1, <1>2, DispatchIs
<1>4. y.ses = Ses /\ y.last = epoch
  BY <1>2, <1>3 DEF InStep
<1>5. /\ Fed(hist, y.ses, y.frame.ev).pend = resync_pending'
      /\ Applies(y) <=> DiffApplied
      /\ DiffApplied => DiffOf(hist, y) = State(Ses', y.last, y.epoch, "emit", frame, y.at, y.used, y.rows)
      /\ ~DiffApplied /\ resync_pending' =>
           DiffOf(hist, y) = State(Ses', y.last, y.epoch, "fetch", frame, y.at, y.used, y.rows)
      /\ ~DiffApplied /\ ~resync_pending' => DiffOf(hist, y) = Ended(y, Ses', y.rows)
  BY <1>1, <1>2, <1>3, <1>4, DiffIs DEF LiveTypes
<1>6. \A M, S : StepOf(M, S, hist, y) = DiffOf(hist, y)
  BY <1>2, <1>3, <1>4 DEF StepOf
<1>n. epoch # NoEpoch /\ epoch <= epoch
  BY <1>1, CaptureAssumption DEF LiveTypes, NoEpoch
<1>7. EpochsOK'
  <2>1. last_epoch' = epoch /\ epoch' = epoch
    BY <1>2
  <2>2. phase' = "emit" => frame' = frame
    BY DEF HandleDiff, Finish
  <2> QED BY <1>2, <1>n, <2>1, <2>2 DEF EpochsOK
<1>8. CASE DiffApplied \/ ~resync_pending'
  <2>1. PICK z : z = DiffOf(hist, y)
    OBVIOUS
  <2>2. /\ z.ses = Ses' /\ z.last = epoch /\ z.epoch = epoch /\ z.at = Len(md)
        /\ z.used = Len(snaps) /\ z.rows = ob_rows /\ z.phase = phase' /\ z.frame = frame'
        /\ phase' \in {"emit", "idle"}
    <3>1. CASE DiffApplied
      <4>1. phase' = "emit" /\ frame' = frame
        BY <3>1 DEF HandleDiff
      <4> QED BY <1>3, <1>4, <1>5, <2>1, <3>1, <4>1 DEF State
    <3>2. CASE ~DiffApplied
      <4>1. phase' = "idle" /\ frame' = NoFrame /\ ~resync_pending'
        BY <1>8, <3>2 DEF HandleDiff, Finish
      <4> QED BY <1>3, <1>4, <1>5, <2>1, <3>2, <4>1 DEF State, Ended
    <3> QED BY <3>1, <3>2
  <2>3. ~Wants(hist, y)
    BY <1>5, <1>8 DEF Wants
  <2>4. z.rows \in Seq(RowSet)
    BY <1>1, <2>2 DEF LiveTypes
  <2>5. Goes(md, snaps, hist, y, z)
    BY <1>3, <1>6, <2>1, <2>3, <2>4 DEF Goes
  <2>6. Reaches(md, snaps, hist, Start, z)
    BY <1>3, <2>5, ReachesStep
  <2>7. InStep(z)'
    BY <1>2, <2>2 DEF InStep
  <2>8. Follows(z)'
    BY <1>2, <2>2, <2>7 DEF Follows
  <2>9. Following'
    BY <1>2, <2>6, <2>8 DEF Following
  <2> QED BY <1>7, <2>2, <2>9 DEF LInv, Pending
<1>9. CASE ~DiffApplied /\ resync_pending'
  <2>1. phase' = "fetch" /\ frame' = frame
    BY <1>9 DEF HandleDiff
  <2>2. Wants(hist, y)
    BY <1>2, <1>3, <1>4, <1>5, <1>9 DEF Wants
  <2>3. Asking'
    <3>1. Hungry(md, snaps, hist, y)
      BY <1>3, <2>2 DEF Hungry
    <3>2. Starts(y.rows, ob_rows)
      BY <1>1, <1>3 DEF Starts, LiveTypes
    <3> QED BY <1>2, <1>3, <3>1, <3>2 DEF Asking
  <2>4. ASSUME NEW s \in UpdateId
        PROVE  Reaches(md, Append(snaps, s), hist, Start, LiveState(Len(snaps))')
    <3>1. PICK z : z = DiffOf(hist, y)
      OBVIOUS
    <3>2. z = State(Ses', epoch, epoch, "fetch", frame, Len(md), Len(snaps), ob_rows)
      BY <1>3, <1>4, <1>5, <1>9, <3>1
    <3>3. z = LiveState(Len(snaps))'
      BY <1>2, <2>1, <3>2 DEF LiveState
    <3>4. /\ Extends(snaps, Append(snaps, s)) /\ Len(snaps) + 1 \in DOMAIN Append(snaps, s)
          /\ Extends(md, md)
      BY <1>1, AppendExtends DEF LiveTypes
    <3>5. z.rows \in Seq(RowSet)
      BY <1>1, <3>2 DEF LiveTypes, State
    <3>6. Goes(md, Append(snaps, s), hist, y, z)
      BY <1>3, <1>6, <3>1, <3>4, <3>5 DEF Goes
    <3>7. Reaches(md, Append(snaps, s), hist, Start, y)
      BY <1>3, <3>4, ReachesExtends
    <3>8. Reaches(md, Append(snaps, s), hist, Start, z)
      BY <3>6, <3>7, ReachesStep
    <3> QED BY <3>3, <3>8
  <2>5. Pending'
    BY <1>2, <2>1, <2>4 DEF Pending
  <2> QED BY <1>7, <2>1, <2>3, <2>5 DEF LInv
<1> QED BY <1>8, <1>9
(* A trade or a depth5 frame.                                              *)
LEMMA HandleOtherStep ==
  ASSUME CInv, CInv', mode = "live", ~failed, LInv, HandleTrade \/ HandleDepth5
  PROVE  LInv'
<1>1. LiveTypes /\ ob_rows' \in Seq(RowSet)
  BY LiveTyped, RowsTypedNext
<1>2. /\ phase = "dispatch" /\ last_epoch = epoch /\ Ses' = Ses
      /\ UNCHANGED <<hist, md, snaps, epoch, last_epoch>>
  BY DEF HandleTrade, HandleDepth5, Dispatch, wireVars, rowVars, feedVars, bookVars, sessionVars, Ses
<1>3. PICK y : /\ Reaches(md, snaps, hist, Start, y) /\ InStep(y)
               /\ y.at = Len(md) /\ y.used = Len(snaps) /\ y.rows = ob_rows
               /\ y.phase = "dispatch" /\ y.frame = frame /\ y.epoch = epoch
  BY <1>1, <1>2, DispatchIs
<1>4. y.ses = Ses /\ y.last = epoch
  BY <1>2, <1>3 DEF InStep
<1>5. frame.kind \in {"Trade", "Depth5"}
  BY DEF HandleTrade, HandleDepth5, Dispatch
<1>6. PICK z : z = OtherOf(y)
  OBVIOUS
<1>7. Reaches(md, snaps, hist, Start, z) /\ z.rows = ob_rows
  <2>1. z = StepOf(md, snaps, hist, y)
    BY <1>3, <1>4, <1>5, <1>6 DEF StepOf
  <2>2. z.rows = ob_rows
    BY <1>3, <1>6 DEF OtherOf, State, Ended
  <2>3. ~Wants(hist, y)
    BY <1>3, <1>5 DEF Wants
  <2>4. Goes(md, snaps, hist, y, z)
    BY <1>1, <1>3, <2>1, <2>2, <2>3 DEF Goes, LiveTypes
  <2> QED BY <1>3, <2>2, <2>4, ReachesStep
<1>n. epoch # NoEpoch /\ epoch <= epoch
  BY <1>1, CaptureAssumption DEF LiveTypes, NoEpoch
<1>8. CASE HandleTrade
  <2>1. /\ frame.kind = "Trade" /\ ob_rows' = ob_rows
        /\ IF IntegrateTrades THEN phase' = "emit" /\ frame' = frame
           ELSE phase' = "idle" /\ frame' = NoFrame
    BY <1>8 DEF HandleTrade, Dispatch, Finish, rowVars
  <2>2. /\ z.ses = Ses' /\ z.last = epoch /\ z.epoch = epoch /\ z.at = Len(md)
        /\ z.used = Len(snaps) /\ z.phase = phase' /\ z.frame = frame'
        /\ phase' \in {"emit", "idle"}
    BY <1>2, <1>3, <1>4, <1>6, <2>1 DEF OtherOf, State, Ended
  <2>3. InStep(z)'
    BY <1>2, <2>2 DEF InStep
  <2>4. Follows(z)'
    BY <1>2, <1>7, <2>1, <2>2, <2>3 DEF Follows
  <2>5. Following'
    BY <1>2, <1>7, <2>4 DEF Following
  <2>6. EpochsOK'
    BY <1>2, <1>n, <2>1 DEF EpochsOK
  <2> QED BY <2>2, <2>5, <2>6 DEF LInv, Pending
<1>9. CASE HandleDepth5
  <2>1. /\ frame.kind = "Depth5" /\ phase' = "idle" /\ frame' = NoFrame
        /\ ob_rows' = Append(ob_rows, Row("S", frame.ev.u, Partial(hist[frame.ev.u])))
    BY <1>9 DEF HandleDepth5, Dispatch, Finish
  <2>2. z = State(Ses, epoch, epoch, "emit", frame, Len(md), Len(snaps), ob_rows)
    BY <1>3, <1>4, <1>6, <2>1 DEF OtherOf
  <2>3. PICK w : w = EmitOf(hist, z)
    OBVIOUS
  <2>4. w = State(Ses, epoch, epoch, "idle", NoFrame, Len(md), Len(snaps), ob_rows')
    BY <2>1, <2>2, <2>3 DEF EmitOf, State, Ended
  <2>5. z.phase = "emit" /\ w = StepOf(md, snaps, hist, z)
    BY <2>2, <2>3 DEF StepOf, State
  <2>6. ~Wants(hist, z)
    BY <2>5 DEF Wants
  <2>7. w.rows \in Seq(RowSet)
    BY <1>1, <2>4 DEF State
  <2>8. Goes(md, snaps, hist, z, w)
    BY <2>5, <2>6, <2>7 DEF Goes
  <2>9. Reaches(md, snaps, hist, Start, w)
    BY <1>7, <2>8, ReachesStep
  <2>10. InStep(w)'
    BY <1>2, <2>4 DEF InStep, State
  <2>11. Follows(w)'
    BY <1>2, <2>1, <2>4, <2>10 DEF Follows, State
  <2>12. Following'
    BY <1>2, <2>9, <2>11 DEF Following
  <2>13. EpochsOK'
    BY <1>2, <1>n, <2>1 DEF EpochsOK
  <2> QED BY <2>1, <2>12, <2>13 DEF LInv, Pending
<1> QED BY <1>8, <1>9

(* The row at the end of the handler.                                      *)
LEMMA EmitRowStep ==
  ASSUME CInv, CInv', mode = "live", ~failed, LInv, EmitRow
  PROVE  LInv'
<1>1. LiveTypes /\ ob_rows' \in Seq(RowSet)
  BY LiveTyped, RowsTypedNext
<1>2. /\ phase = "emit" /\ phase' = "idle" /\ frame' = NoFrame /\ Ses' = Ses
      /\ UNCHANGED <<hist, md, snaps, epoch, last_epoch>>
      /\ ob_rows' = IF initialized /\ ~resync_pending
                    THEN Append(ob_rows, Row(IF frame.kind = "Diff" THEN "D" ELSE "T",
                                             last_update_id, levels))
                    ELSE ob_rows
  BY DEF EmitRow, Finish, wireVars, feedVars, bookVars, sessionVars, Ses, Session!Ready
<1>3. last_epoch = epoch /\ EpochsOK /\ frame.kind # "Depth5"
  BY <1>1, <1>2 DEF LiveTypes, LInv, EpochsOK
<1>4. PICK y : Reaches(md, snaps, hist, Start, y) /\ Follows(y)
  BY <1>2 DEF LInv, Following
<1>5. /\ y.at = Len(md) /\ y.used = Len(snaps) /\ y.rows = ob_rows /\ y.phase = "emit"
      /\ y.frame = frame /\ y.epoch = epoch /\ y.ses = Ses /\ y.last = last_epoch
  BY <1>2, <1>4 DEF Follows, InStep
<1>6. PICK z : z = EmitOf(hist, y)
  OBVIOUS
<1>7. z = State(Ses, last_epoch, epoch, "idle", NoFrame, Len(md), Len(snaps), ob_rows')
  <2>1. Ses.init = initialized /\ Ses.pend = resync_pending /\ Ses.id = last_update_id /\ Ses.lv = levels
    BY DEF Ses
  <2> QED BY <1>2, <1>3, <1>5, <1>6, <2>1 DEF EmitOf, Ended
<1>8. z = StepOf(md, snaps, hist, y) /\ ~Wants(hist, y)
  BY <1>5, <1>6 DEF StepOf, Wants
<1>9. z.rows \in Seq(RowSet)
  BY <1>1, <1>7 DEF State
<1>10. Goes(md, snaps, hist, y, z)
  BY <1>5, <1>8, <1>9 DEF Goes
<1>11. Reaches(md, snaps, hist, Start, z)
  BY <1>4, <1>10, ReachesStep
<1>12. InStep(z)'
  BY <1>2, <1>7 DEF InStep, State
<1>13. Follows(z)'
  BY <1>2, <1>7, <1>12 DEF Follows, State
<1>14. Following'
  BY <1>2, <1>11, <1>13 DEF Following
<1>15. EpochsOK'
  BY <1>2, <1>3 DEF EpochsOK
<1> QED BY <1>2, <1>14, <1>15 DEF LInv, Pending

(* The REST answer seeds the book.                                         *)
LEMMA FetchStep ==
  ASSUME CInv, CInv', mode = "live", ~failed, LInv, FetchSucceeds
  PROVE  LInv'
<1>1. LiveTypes
  BY LiveTyped
<1>2. /\ phase = "fetch" /\ phase' = "replay"
      /\ UNCHANGED <<md, snaps, ob_rows, epoch, last_epoch, frame>>
  BY DEF FetchSucceeds, wireVars, rowVars
<1>3. PICK s \in UpdateId : Session!on_snapshot(hist[s], s)
  BY DEF FetchSucceeds
<1>4. hist' = hist /\ snap_id' = s /\ Ses' = Seeded(hist, Ses, s)
  BY <1>3, SesSeeded DEF Session!on_snapshot, Session!feedVars
<1>5. /\ Reaches(md, Append(snaps, s), hist, Start, LiveState(Len(snaps)))
      /\ Asking /\ EpochsOK
  BY <1>2 DEF LInv, Pending
<1>6. PICK x : x = LiveState(Len(snaps))
  OBVIOUS
<1>7. PICK z : z = SeedOf(Append(snaps, s), hist, x)
  OBVIOUS
<1>8. x = State(Ses, last_epoch, epoch, "fetch", frame, Len(md), Len(snaps), ob_rows)
  BY <1>2, <1>6 DEF LiveState
<1>9. Append(snaps, s)[Len(snaps) + 1] = s /\ Len(snaps) + 1 \in DOMAIN Append(snaps, s)
  BY <1>1, AppendExtends DEF LiveTypes
<1>10. z = State(Ses', last_epoch, epoch, "replay", frame, Len(md), Len(snaps) + 1, ob_rows)
  BY <1>4, <1>7, <1>8, <1>9 DEF SeedOf, State
<1>11. z = LiveState(Len(snaps) + 1)'
  BY <1>2, <1>10 DEF LiveState
<1>12. Goes(md, Append(snaps, s), hist, x, z)
  <2>1. x.phase = "fetch" /\ x.used = Len(snaps)
    BY <1>8 DEF State
  <2>2. z = StepOf(md, Append(snaps, s), hist, x)
    BY <1>7, <2>1 DEF StepOf
  <2>3. z.rows \in Seq(RowSet)
    BY <1>1, <1>10 DEF State, LiveTypes
  <2> QED BY <1>9, <2>1, <2>2, <2>3 DEF Goes
<1>13. Reaches(md, Append(snaps, s), hist, Start, z)
  BY <1>5, <1>6, <1>12, ReachesStep
<1>14. Pending'
  BY <1>2, <1>4, <1>11, <1>13 DEF Pending
<1>15. Asking'
  BY <1>2, <1>4, <1>5 DEF Asking
<1>16. last_epoch # NoEpoch
  BY <1>1, <1>2, CaptureAssumption DEF LiveTypes, NoEpoch
<1>17. EpochsOK'
  BY <1>2, <1>5, <1>16 DEF EpochsOK
<1> QED BY <1>2, <1>14, <1>15, <1>17 DEF LInv

(* The replay of the buffer.                                               *)
LEMMA ReplayLoopStep ==
  ASSUME CInv, CInv', mode = "live", ~failed, LInv, ReplayDrop \/ ReplayApply \/ ReplayEnd
  PROVE  LInv'
<1>1. LiveTypes /\ ob_rows' \in Seq(RowSet)
  BY LiveTyped, RowsTypedNext
<1>2. phase = "replay" /\ UNCHANGED <<hist, md, epoch, last_epoch, snap_id>>
  BY <1>1
  DEF ReplayDrop, ReplayApply, ReplayEnd, Session!ReplayDrop, Session!ReplayApply, Session!ReplayGap,
      Session!ReplayDone, Session!feedVars, LiveTypes, wireVars, handlerVars, rowVars
<1>3. /\ Reaches(md, Append(snaps, snap_id), hist, Start, LiveState(Len(snaps) + 1))
      /\ Asking /\ EpochsOK
  BY <1>2 DEF LInv, Pending
<1>4. PICK x : x = LiveState(Len(snaps) + 1)
  OBVIOUS
<1>5. x = State(Ses, last_epoch, epoch, "replay", frame, Len(md), Len(snaps) + 1, ob_rows)
  BY <1>2, <1>4 DEF LiveState
<1>6. /\ x.ses = Ses /\ x.last = last_epoch /\ x.epoch = epoch /\ x.phase = "replay"
      /\ x.frame = frame /\ x.at = Len(md) /\ x.used = Len(snaps) + 1 /\ x.rows = ob_rows
  BY <1>5 DEF State
<1>7. PICK z : z = LoopOf(hist, x)
  OBVIOUS
<1>8. z = StepOf(md, Append(snaps, snap_id), hist, x) /\ ~Wants(hist, x)
  BY <1>6, <1>7 DEF StepOf, Wants
<1>9. ASSUME z.rows \in Seq(RowSet)
      PROVE  Reaches(md, Append(snaps, snap_id), hist, Start, z)
  <2>1. Goes(md, Append(snaps, snap_id), hist, x, z)
    BY <1>6, <1>8, <1>9 DEF Goes
  <2> QED BY <1>3, <1>4, <2>1, ReachesStep
<1>10. last_epoch # NoEpoch
  BY <1>1, <1>2, CaptureAssumption DEF LiveTypes, NoEpoch
<1>11. CASE ReplayDrop \/ ReplayApply
  <2>1. phase' = "replay" /\ UNCHANGED <<frame, snaps>>
    BY <1>2, <1>11 DEF ReplayDrop, ReplayApply, handlerVars, rowVars
  <2>2. z = State(Ses', last_epoch, epoch, "replay", frame, Len(md), Len(snaps) + 1, ob_rows')
    <3>1. CASE ReplayDrop
      <4>1. Session!ReplayDrop /\ ob_rows' = ob_rows
        BY <3>1 DEF ReplayDrop, rowVars
      <4> QED BY <1>1, <1>6, <1>7, <4>1, LoopIs DEF LiveTypes
    <3>2. CASE ReplayApply
      <4>1. Session!ReplayApply /\ ob_rows' = Append(ob_rows, Row("D", last_update_id', levels'))
        BY <3>2 DEF ReplayApply
      <4> QED BY <1>1, <1>6, <1>7, <4>1, LoopIs DEF LiveTypes
    <3> QED BY <1>11, <3>1, <3>2
  <2>3. z = LiveState(Len(snaps) + 1)'
    BY <1>2, <2>1, <2>2 DEF LiveState
  <2>4. z.rows \in Seq(RowSet)
    BY <1>1, <2>2 DEF State
  <2>5. Pending'
    BY <1>2, <1>9, <2>1, <2>3, <2>4 DEF Pending
  <2>6. Asking'
    <3>1. PICK y : /\ Reaches(md, snaps, hist, Start, y) /\ Hungry(md, snaps, hist, y)
                   /\ Starts(y.rows, ob_rows)
      BY <1>3 DEF Asking
    <3>2. y.rows \in Seq(RowSet)
      <4>1. Start.rows \in Seq(RowSet)
        BY DEF Start, State
      <4> QED BY <3>1, <4>1, ReachesKeepsRows
    <3>3. PICK r : ob_rows' = ob_rows \/ ob_rows' = Append(ob_rows, r)
      BY <1>11 DEF ReplayDrop, ReplayApply, rowVars
    <3>4. Starts(y.rows, ob_rows')
      BY <1>1, <3>1, <3>2, <3>3, AppendStarts DEF LiveTypes
    <3> QED BY <1>2, <2>1, <3>1, <3>4 DEF Asking
  <2>7. EpochsOK'
    BY <1>2, <1>3, <1>10, <2>1 DEF EpochsOK
  <2> QED BY <2>1, <2>5, <2>6, <2>7 DEF LInv
<1>12. CASE ReplayEnd
  <2>1. /\ phase' = "idle" /\ frame' = NoFrame /\ snaps' = Append(snaps, snap_id)
        /\ ob_rows' = ob_rows /\ (Session!ReplayGap \/ Session!ReplayDone)
    BY <1>12 DEF ReplayEnd, Finish
  <2>2. z = State(Ses', last_epoch, epoch, "idle", NoFrame, Len(md), Len(snaps) + 1, ob_rows)
    <3>1. z = Ended(x, Ses', x.rows)
      BY <1>1, <1>6, <1>7, <2>1, LoopIs DEF LiveTypes
    <3> QED BY <1>6, <3>1 DEF Ended
  <2>3. z.rows \in Seq(RowSet)
    BY <1>1, <2>2 DEF State, LiveTypes
  <2>4. Len(snaps') = Len(snaps) + 1
    BY <1>1, <2>1, AppendExtends DEF LiveTypes
  <2>5. InStep(z)'
    BY <1>2, <2>2 DEF InStep, State
  <2>6. Follows(z)'
    BY <1>2, <2>1, <2>2, <2>4, <2>5 DEF Follows, State
  <2>7. Following'
    BY <1>2, <1>9, <2>1, <2>3, <2>6 DEF Following
  <2>8. EpochsOK'
    BY <1>2, <1>3, <1>10, <2>1 DEF EpochsOK
  <2> QED BY <2>1, <2>7, <2>8 DEF LInv, Pending
<1> QED BY <1>11, <1>12

(* Every step of the live run.                                             *)
LEMMA LiveFollows ==
  ASSUME RInv, LInv, Live
  PROVE  LInv'
<1>1. mode = "live" /\ Next /\ CInv /\ failed' = (failed \/ fetch' = "failed")
  BY DEF Live, RInv, LiveInv
<1>2. CInv' /\ LiveTypes
  BY <1>1, CaptureNext, LiveTyped
<1>3. CASE failed'
  BY <1>3 DEF LInv
<1>4. CASE ~failed'
  <2>1. ~failed /\ fetch' # "failed"
    BY <1>1, <1>4
  <2>2. CASE SendDiff \/ SendMangled \/ SendOther \/ Reconnect \/ ReadGarbage
    <3>1. UNCHANGED <<hist, md, snaps, ob_rows, last_epoch, phase, frame, bookVars, sessionVars>>
      BY <2>2 DEF SendDiff, SendMangled, SendOther, Reconnect, ReadGarbage, Read, PublishDiff,
                  feedVars, handlerVars, rowVars
    <3>2. epoch' = epoch \/ (phase = "idle" /\ epoch' = epoch + 1)
      BY <2>2 DEF SendDiff, SendMangled, SendOther, Reconnect, ReadGarbage, Read
    <3> QED BY <1>1, <1>2, <2>1, <3>1, <3>2, QuietStep
  <2>3. CASE ReadFrame
    BY <1>1, <1>2, <2>1, <2>3, ReadFrameStep
  <2>4. CASE NewEpoch
    BY <1>1, <2>1, <2>4, NewEpochStep
  <2>5. CASE HandleDiff
    BY <1>1, <2>1, <2>5, HandleDiffStep
  <2>6. CASE HandleTrade \/ HandleDepth5
    BY <1>1, <1>2, <2>1, <2>6, HandleOtherStep
  <2>7. CASE EmitRow
    BY <1>1, <1>2, <2>1, <2>7, EmitRowStep
  <2>8. CASE FetchFails
    BY <2>1, <2>8 DEF FetchFails
  <2>9. CASE FetchSucceeds
    BY <1>1, <1>2, <2>1, <2>9, FetchStep
  <2>10. CASE ReplayDrop \/ ReplayApply \/ ReplayEnd
    BY <1>1, <1>2, <2>1, <2>10, ReplayLoopStep
  <2> QED
    BY <1>1, <2>2, <2>3, <2>4, <2>5, <2>6, <2>7, <2>8, <2>9, <2>10 DEF Next, handler, fetch_snapshot
<1> QED BY <1>3, <1>4

-----------------------------------------------------------------------------
(* Replay is on the path that leads to where the live run ended.           *)

(* Where replay's loop stands.                                             *)
RepState ==
  State(Ses, last_epoch, epoch, phase, frame, at, Len(snaps) - Len(sidecar), rep_rows)

(* The types of replay's loop: the sidecar is what is left of the snaps.   *)
RepTypes ==
  /\ snaps \in Seq(UpdateId) /\ sidecar \in Seq(UpdateId) /\ Len(sidecar) <= Len(snaps)
  /\ \A i \in 1..Len(sidecar) : sidecar[i] = snaps[(Len(snaps) - Len(sidecar)) + i]
  /\ ob_rows \in Seq(RowSet)
  /\ resync_pending \in BOOLEAN /\ snap_id \in UpdateId
  /\ mode \in {"replay", "done"}
  /\ phase \in {"idle", "dispatch", "fetch", "replay", "emit"}
  /\ replaying <=> phase = "replay"
  /\ phase \in {"fetch", "replay"} => frame.kind = "Diff"
  /\ mode = "done" => phase = "idle" /\ at = Len(md)
  /\ at <= Len(md)

(* The live run stood at y when it ended, M being its market-data rows.    *)
EndsAt(M, y) ==
  /\ M \in Seq(AuditSet) /\ Extends(md, M)
  /\ \/ y.rows = ob_rows
     \/ ~complete /\ Hungry(M, snaps, hist, y) /\ Starts(y.rows, ob_rows)
  /\ complete => Len(md) = Len(M) /\ y.at = Len(M) /\ y.phase = "idle"

(* Replay is on its way there, or past it, or ended for want of the        *)
(* snapshot that the live run was handling.                                *)
OnPath == \E M, y : EndsAt(M, y) /\ Reaches(M, snaps, hist, RepState, y)

(* Replay has written all rows of the live run.                            *)
Past == ~complete /\ Starts(ob_rows, rep_rows)

(* Replay ended for want of a snapshot, before the live run did.           *)
Starved == ~complete /\ Starts(rep_rows, ob_rows) /\ at = Len(md) /\ phase = "idle"

(* The cases that ReproducesLive is about.                                 *)
Judged == mode # "live" /\ have_sidecar /\ whole /\ ~failed

(* The invariant of replay in those cases.                                 *)
JInv == Judged => RepTypes /\ (OnPath \/ Past \/ Starved)

-----------------------------------------------------------------------------

(* A sequence begins with itself.                                          *)
LEMMA SelfStarts ==
  ASSUME NEW s \in Seq(RowSet)
  PROVE  Starts(s, s)
BY DEF Starts

(* The file is all of the file.                                            *)
LEMMA WholeFile ==
  ASSUME NEW T, NEW q \in Seq(T), NEW n \in Nat, n <= Len(q)
  PROVE  /\ SubSeq(q, 1, n) \in Seq(T) /\ Extends(SubSeq(q, 1, n), q) /\ Len(SubSeq(q, 1, n)) = n
         /\ n = Len(q) => SubSeq(q, 1, n) = q
BY DEF Extends

(* A new process begins at the start, the live run's end ahead of it.      *)
LEMMA StartOnPath ==
  ASSUME RInv, RInv', LInv, mode = "live" => at = 0,
         NEW m \in Nat, m <= Len(md), NEW s \in Nat, s <= Len(snaps), StartReplay(m, s),
         ~complete' \/ (phase = "idle" /\ m = Len(md))
  PROVE  JInv'
<1> SUFFICES ASSUME Judged' PROVE RepTypes' /\ OnPath'
  BY DEF JInv
<1>1. /\ mode = "live" /\ CInv /\ rep_rows = <<>> /\ at = 0
  BY DEF StartReplay, RInv, LiveInv
<1>2. LiveTypes
  BY <1>1, LiveTyped
<1>3. /\ mode' = "replay" /\ md' = SubSeq(md, 1, m) /\ have_sidecar' /\ s = Len(snaps)
      /\ sidecar' = SubSeq(snaps, 1, s) /\ ~failed
      /\ UNCHANGED <<hist, snaps, ob_rows, failed, rep_rows, at>>
      /\ phase' = "idle" /\ frame' = NoFrame /\ replaying' = FALSE /\ snap_id' = 0
      /\ resync_pending' = TRUE /\ last_epoch' = NoEpoch /\ epoch' = 0
  BY DEF StartReplay, Judged, Finish, feedVars
<1>4. Ses' = Start.ses
  BY <1>3 DEF StartReplay, Session!reset, Session!NoLevels, NoLevels, Ses, Start, State
<1>5. md' \in Seq(AuditSet) /\ Extends(md', md) /\ Len(md') = m /\ (m = Len(md) => md' = md)
  BY <1>2, <1>3, WholeFile DEF LiveTypes
<1>6. sidecar' = snaps
  BY <1>2, <1>3, WholeFile DEF LiveTypes
<1>7. Len(snaps) \in Nat /\ Len(snaps) - Len(snaps) = 0 /\ \A i \in Nat : 0 + i = i
  BY <1>2 DEF LiveTypes
<1>8. RepState' = Start
  BY <1>1, <1>3, <1>4, <1>6, <1>7 DEF RepState, Start, State
<1>9. RepTypes'
  <2>1. /\ snaps' \in Seq(UpdateId) /\ sidecar' \in Seq(UpdateId) /\ Len(sidecar') <= Len(snaps')
        /\ \A i \in 1..Len(sidecar') : sidecar'[i] = snaps'[(Len(snaps') - Len(sidecar')) + i]
    <3>1. snaps \in Seq(UpdateId) /\ Len(snaps) <= Len(snaps)
      BY <1>2 DEF LiveTypes
    <3>2. ASSUME NEW i \in 1..Len(snaps) PROVE (Len(snaps) - Len(snaps)) + i = i
      BY <1>7
    <3> QED BY <1>3, <1>6, <3>1, <3>2
  <2>2. /\ ob_rows' \in Seq(RowSet) /\ resync_pending' \in BOOLEAN /\ snap_id' \in UpdateId
        /\ at' <= Len(md')
    BY <1>1, <1>2, <1>3, <1>5, DepthAssumption DEF LiveTypes, UpdateId
  <2> QED BY <1>3, <2>1, <2>2 DEF RepTypes
<1>10. CASE phase \in {"idle", "dispatch", "emit"}
  <2>1. PICK y : Reaches(md, snaps, hist, Start, y) /\ Follows(y)
    BY <1>1, <1>3, <1>10 DEF LInv, Following
  <2>2. y.rows = ob_rows /\ y.at = Len(md) /\ y.phase = phase
    BY <2>1 DEF Follows
  <2>3. PICK M : M = md
    OBVIOUS
  <2>4. EndsAt(M, y)'
    BY <1>2, <1>3, <1>5, <2>2, <2>3 DEF EndsAt, LiveTypes
  <2> QED BY <1>3, <1>8, <1>9, <2>1, <2>3, <2>4 DEF OnPath
<1>11. CASE phase \in {"fetch", "replay"}
  <2>1. PICK y : /\ Reaches(md, snaps, hist, Start, y) /\ Hungry(md, snaps, hist, y)
                 /\ Starts(y.rows, ob_rows)
    BY <1>1, <1>3, <1>11 DEF LInv, Asking
  <2>2. PICK M : M = md
    OBVIOUS
  <2>3. ~complete'
    BY <1>11
  <2>4. EndsAt(M, y)'
    BY <1>2, <1>3, <1>5, <2>1, <2>2, <2>3 DEF EndsAt, LiveTypes
  <2> QED BY <1>3, <1>8, <1>9, <2>1, <2>2, <2>4 DEF OnPath
<1> QED BY <1>2, <1>10, <1>11 DEF LiveTypes

(* A step of the loop over the rows takes replay along the path.           *)
LEMMA Advance ==
  ASSUME RInv, RInv', RepTypes, OnPath \/ Past \/ Starved,
         \A M : Extends(md, M) => Goes(M, snaps, hist, RepState, RepState'),
         UNCHANGED <<hist, md, snaps, ob_rows, complete>>
  PROVE  OnPath' \/ Past'
<1>1. /\ rep_rows \in Seq(RowSet) /\ rep_rows' \in Seq(RowSet) /\ md \in Seq(AuditSet)
      /\ ob_rows \in Seq(RowSet) /\ snaps \in Seq(UpdateId) /\ at \in Nat
  BY DEF RInv, FeedInv, RepTypes, AuditSet
<1>2. /\ RepState.rows = rep_rows /\ RepState'.rows = rep_rows' /\ RepState.at = at
      /\ RepState.phase = phase
  BY DEF RepState, State
<1>3. Extends(md, md) /\ Goes(md, snaps, hist, RepState, RepState')
  BY <1>1 DEF Extends
<1>4. Grows(rep_rows, rep_rows')
  BY <1>1, <1>2, <1>3, GoesKeepsRows
<1>5. PICK r : rep_rows' = rep_rows \/ rep_rows' = Append(rep_rows, r)
  BY <1>4 DEF Grows
<1>6. CASE Past
  <2>1. Starts(ob_rows, rep_rows')
    BY <1>1, <1>5, <1>6, AppendStarts DEF Past
  <2> QED BY <1>6, <2>1 DEF Past
<1>7. CASE Starved
  <2>1. at + 1 \in DOMAIN md /\ at = Len(md)
    BY <1>2, <1>3, <1>7 DEF Goes, Starved
  <2> QED BY <1>1, <2>1
<1>8. CASE OnPath
  <2>1. PICK M, y : EndsAt(M, y) /\ Reaches(M, snaps, hist, RepState, y)
    BY <1>8 DEF OnPath
  <2>2. Goes(M, snaps, hist, RepState, RepState') /\ M \in Seq(AuditSet)
    BY <2>1 DEF EndsAt
  <2>3. CASE RepState # y
    <3>1. Reaches(M, snaps, hist, RepState', y)
      BY <2>1, <2>2, <2>3, ReachesNext
    <3>2. EndsAt(M, y)'
      BY <2>1 DEF EndsAt
    <3> QED BY <3>1, <3>2 DEF OnPath
  <2>4. CASE RepState = y
    <3>1. ~complete
      <4> SUFFICES ASSUME complete PROVE FALSE
        OBVIOUS
      <4>1. RepState.phase = "idle" /\ RepState.at = Len(M)
        BY <2>1, <2>4 DEF EndsAt
      <4>2. Len(M) + 1 \in DOMAIN M
        BY <2>2, <4>1 DEF Goes
      <4> QED BY <2>2, <4>2
    <3>2. ~Hungry(M, snaps, hist, y)
      <4> SUFFICES ASSUME Hungry(M, snaps, hist, y) PROVE FALSE
        OBVIOUS
      <4>1. Wants(hist, RepState) /\ RepState.used = Len(snaps)
        BY <2>4 DEF Hungry
      <4>2. Len(snaps) + 1 \in DOMAIN snaps
        BY <2>2, <4>1 DEF Goes
      <4> QED BY <1>1, <4>2
    <3>3. rep_rows = ob_rows
      BY <1>2, <2>1, <2>4, <3>2 DEF EndsAt
    <3>4. Starts(ob_rows, rep_rows')
      BY <1>1, <1>5, <3>3, SelfStarts, AppendStarts
    <3> QED BY <3>1, <3>4 DEF Past
  <2> QED BY <2>3, <2>4
<1> QED BY <1>6, <1>7, <1>8

-----------------------------------------------------------------------------
(* The steps of replay are steps of that path.                             *)

(* A step of the loop that goes along the path.                            *)
RepGoes == \A M : Extends(md, M) => Goes(M, snaps, hist, RepState, RepState')

(* A row is read.                                                          *)
LEMMA ReadGoes ==
  ASSUME RInv, RInv', RepTypes, Steady, ReadRow
  PROVE  RepTypes' /\ RepGoes
<1>1. /\ mode = "replay" /\ mode' = "replay" /\ phase = "idle" /\ phase' = "dispatch"
      /\ at < Len(md) /\ at' = at + 1 /\ Ses' = Ses
      /\ frame' = [kind |-> md[at'].kind, ev |-> md[at'].ev] /\ epoch' = md[at'].epoch
      /\ UNCHANGED <<last_epoch, sidecar, rep_rows, resync_pending, snap_id, replaying>>
  BY DEF ReadRow, bookVars, sessionVars, Ses
<1>2. md \in Seq(AuditSet) /\ at \in Nat /\ rep_rows \in Seq(RowSet)
  BY DEF RInv, FeedInv, AuditSet
<1>3. at + 1 \in DOMAIN md /\ at + 1 <= Len(md)
  BY <1>1, <1>2
<1>4. RepTypes'
  BY <1>1, <1>3 DEF RepTypes, Steady
<1>5. ASSUME NEW M, Extends(md, M) PROVE Goes(M, snaps, hist, RepState, RepState')
  <2>1. at + 1 \in DOMAIN M /\ M[at + 1] = md[at + 1]
    BY <1>3, <1>5 DEF Extends
  <2>2. RepState.phase = "idle" /\ RepState.at = at
    BY <1>1 DEF RepState, State
  <2>3. RepState' = ReadOf(M, RepState)
    BY <1>1, <2>1 DEF RepState, ReadOf, State, Steady
  <2>4. RepState' = StepOf(M, snaps, hist, RepState)
    BY <2>2, <2>3 DEF StepOf
  <2>5. RepState'.rows \in Seq(RowSet)
    BY <1>1, <1>2 DEF RepState, State
  <2>6. ~Wants(hist, RepState)
    BY <2>2 DEF Wants
  <2> QED BY <2>1, <2>2, <2>4, <2>5, <2>6 DEF Goes
<1> QED BY <1>4, <1>5 DEF RepGoes

(* A step that does not read a row or ask for a snapshot.                  *)
LEMMA StepGoes ==
  ASSUME RInv, RInv', phase \in {"dispatch", "replay", "emit"},
         \A M : RepState' = StepOf(M, snaps, hist, RepState),
         Wants(hist, RepState) => sidecar # <<>>, RepTypes
  PROVE  RepGoes
<1>1. RepState.phase = phase /\ RepState.used = Len(snaps) - Len(sidecar)
  BY DEF RepState, State
<1>2. RepState'.rows \in Seq(RowSet)
  <2>1. rep_rows' \in Seq(RowSet)
    BY DEF RInv, FeedInv
  <2> QED BY <2>1 DEF RepState, State
<1>3. sidecar # <<>> => (Len(snaps) - Len(sidecar)) + 1 \in DOMAIN snaps
  <2>1. snaps \in Seq(UpdateId) /\ sidecar \in Seq(UpdateId) /\ Len(sidecar) <= Len(snaps)
    BY DEF RepTypes
  <2>2. sidecar # <<>> => Len(sidecar) >= 1
    BY <2>1
  <2> QED BY <2>1, <2>2
<1> QED BY <1>1, <1>2, <1>3 DEF RepGoes, Goes

(* Its connection is looked at.                                            *)
LEMMA EpochGoes ==
  ASSUME RInv, RInv', RepTypes, Steady, RowEpoch
  PROVE  RepTypes' /\ RepGoes
<1>1. /\ mode = "replay" /\ mode' = "replay" /\ phase = "dispatch" /\ phase' = "dispatch"
      /\ last_epoch # epoch /\ last_epoch' = epoch
      /\ UNCHANGED <<epoch, frame, at, sidecar, rep_rows>>
      /\ IF last_epoch # NoEpoch THEN Session!request_resync
         ELSE UNCHANGED <<feedVars, bookVars, sessionVars>>
  BY DEF RowEpoch, NewEpoch, wireVars, replayVars
<1>2. resync_pending' \in BOOLEAN /\ snap_id' = snap_id /\ replaying' = replaying
  BY <1>1 DEF RepTypes, Session!request_resync, sessionVars
<1>3. RepTypes'
  BY <1>1, <1>2 DEF RepTypes, Steady
<1>4. /\ RepState.ses = Ses /\ RepState.last = last_epoch /\ RepState.epoch = epoch
      /\ RepState.phase = "dispatch" /\ RepState.frame = frame /\ RepState.at = at
      /\ RepState.used = Len(snaps) - Len(sidecar) /\ RepState.rows = rep_rows
  BY <1>1 DEF RepState, State
<1>5. EpochOf(RepState) = State(Ses', epoch, epoch, "dispatch", frame, at,
                                Len(snaps) - Len(sidecar), rep_rows)
  <2>1. PICK x : x = RepState
    OBVIOUS
  <2>2. EpochOf(x) = State(Ses', x.epoch, x.epoch, "dispatch", x.frame, x.at, x.used, x.rows)
    BY <1>1, <1>4, <2>1, EpochIs
  <2> QED BY <1>4, <2>1, <2>2
<1>6. RepState' = EpochOf(RepState)
  BY <1>1, <1>5 DEF RepState, Steady
<1>7. \A M : RepState' = StepOf(M, snaps, hist, RepState)
  BY <1>1, <1>4, <1>6 DEF StepOf
<1>8. ~Wants(hist, RepState)
  BY <1>1, <1>4 DEF Wants
<1> QED BY <1>1, <1>3, <1>7, <1>8, StepGoes

(* It is not parsed, or is a trade, or a depth5 row of which the sidecar   *)
(* makes nothing.                                                          *)
LEMMA OtherGoes ==
  ASSUME RInv, RInv', RepTypes, Steady, have_sidecar, RowUnparsed \/ RowTrade \/ RowDepth5
  PROVE  RepTypes' /\ RepGoes
<1>1. /\ mode = "replay" /\ mode' = "replay" /\ phase = "dispatch" /\ last_epoch = epoch
      /\ frame.kind \in {"Unparsed", "Trade", "Depth5"} /\ Ses' = Ses
      /\ UNCHANGED <<last_epoch, epoch, at, sidecar, rep_rows, resync_pending, snap_id, replaying>>
  BY DEF RowUnparsed, RowTrade, RowDepth5, HandleTrade, Dispatch, wireVars, replayVars, bookVars,
         sessionVars, Ses
<1>2. IF frame.kind = "Depth5" \/ (frame.kind = "Trade" /\ IntegrateTrades)
      THEN phase' = "emit" /\ frame' = frame ELSE phase' = "idle" /\ frame' = NoFrame
  BY DEF RowUnparsed, RowTrade, RowDepth5, HandleTrade, Dispatch, Finish
<1>3. RepTypes'
  BY <1>1, <1>2 DEF RepTypes, Steady
<1>4. /\ RepState.ses = Ses /\ RepState.last = last_epoch /\ RepState.epoch = epoch
      /\ RepState.phase = "dispatch" /\ RepState.frame = frame /\ RepState.at = at
      /\ RepState.used = Len(snaps) - Len(sidecar) /\ RepState.rows = rep_rows
  BY <1>1 DEF RepState, State
<1>5. RepState' = OtherOf(RepState)
  <2>1. RepState' = State(Ses, last_epoch, epoch, phase', frame', at, Len(snaps) - Len(sidecar), rep_rows)
    BY <1>1 DEF RepState, Steady
  <2> QED BY <1>2, <1>4, <2>1 DEF OtherOf, Ended
<1>6. \A M : RepState' = StepOf(M, snaps, hist, RepState)
  BY <1>1, <1>4, <1>5 DEF StepOf
<1>7. ~Wants(hist, RepState)
  BY <1>1, <1>4 DEF Wants
<1> QED BY <1>1, <1>3, <1>6, <1>7, StepGoes

(* A diff, unless it asks for a snapshot that is not there.                *)
LEMMA DiffGoes ==
  ASSUME RInv, RInv', RepTypes, Steady, RowDiff
  PROVE  /\ RepTypes'
         /\ \/ RepGoes
            \/ /\ Wants(hist, RepState) /\ sidecar = <<>> /\ phase' = "idle"
               /\ UNCHANGED <<at, rep_rows>>
<1>1. /\ mode = "replay" /\ mode' = "replay" /\ phase = "dispatch" /\ last_epoch = epoch
      /\ frame.kind = "Diff" /\ Session!on_diff(frame.ev)
      /\ UNCHANGED <<last_epoch, epoch, at, sidecar, rep_rows, snap_id, replaying>>
  BY DEF RowDiff, Dispatch, wireVars, replayVars, Session!on_diff
<1>2. \/ DiffApplied /\ phase' = "emit" /\ frame' = frame
      \/ ~DiffApplied /\ resync_pending' /\ sidecar # <<>> /\ phase' = "fetch" /\ frame' = frame
      \/ ~DiffApplied /\ (resync_pending' => sidecar = <<>>) /\ phase' = "idle" /\ frame' = NoFrame
  BY DEF RowDiff, Finish
<1>3. resync_pending' \in BOOLEAN
  BY <1>1
  DEF RepTypes, Session!on_diff, Session!buffer_event, Session!on_applied, Session!on_ignored,
      Session!on_gap
<1>4. RepTypes'
  BY <1>1, <1>2, <1>3 DEF RepTypes, Steady
<1>5. /\ RepState.ses = Ses /\ RepState.last = last_epoch /\ RepState.epoch = epoch
      /\ RepState.phase = "dispatch" /\ RepState.frame = frame /\ RepState.at = at
      /\ RepState.used = Len(snaps) - Len(sidecar) /\ RepState.rows = rep_rows
  BY <1>1 DEF RepState, State
<1>6. PICK x : x = RepState
  OBVIOUS
<1>7. /\ Fed(hist, x.ses, x.frame.ev).pend = resync_pending'
      /\ Applies(x) <=> DiffApplied
      /\ DiffApplied => DiffOf(hist, x) = State(Ses', x.last, x.epoch, "emit", frame, x.at, x.used, x.rows)
      /\ ~DiffApplied /\ resync_pending' =>
           DiffOf(hist, x) = State(Ses', x.last, x.epoch, "fetch", frame, x.at, x.used, x.rows)
      /\ ~DiffApplied /\ ~resync_pending' => DiffOf(hist, x) = Ended(x, Ses', x.rows)
  BY <1>1, <1>5, <1>6, DiffIs DEF RepTypes
<1>8. Wants(hist, x) <=> ~DiffApplied /\ resync_pending'
  BY <1>1, <1>5, <1>6, <1>7 DEF Wants
<1>9. CASE ~DiffApplied /\ resync_pending' /\ sidecar = <<>>
  BY <1>1, <1>2, <1>4, <1>6, <1>8, <1>9
<1>10. CASE ~(~DiffApplied /\ resync_pending' /\ sidecar = <<>>)
  <2>1. RepState' = State(Ses', last_epoch, epoch, phase', frame', at, Len(snaps) - Len(sidecar), rep_rows)
    BY <1>1 DEF RepState, Steady
  <2>2. RepState' = DiffOf(hist, x)
    BY <1>2, <1>5, <1>6, <1>7, <1>10, <2>1 DEF Ended
  <2>3. \A M : RepState' = StepOf(M, snaps, hist, RepState)
    BY <1>1, <1>5, <1>6, <2>2 DEF StepOf
  <2>4. Wants(hist, RepState) => sidecar # <<>>
    BY <1>6, <1>8, <1>10
  <2> QED BY <1>1, <1>4, <2>3, <2>4, StepGoes
<1> QED BY <1>9, <1>10

(* The next snapshot of the sidecar.                                       *)
LEMMA SeedGoes ==
  ASSUME RInv, RInv', RepTypes, Steady, seed_from_sidecar
  PROVE  RepTypes' /\ RepGoes
<1>1. /\ mode = "replay" /\ mode' = "replay" /\ phase = "fetch" /\ phase' = "replay"
      /\ Session!on_snapshot(hist[Head(sidecar)], Head(sidecar)) /\ sidecar' = Tail(sidecar)
      /\ UNCHANGED <<last_epoch, epoch, frame, at, rep_rows>>
  BY DEF seed_from_sidecar, wireVars
<1>2. /\ sidecar # <<>> /\ snaps \in Seq(UpdateId) /\ sidecar \in Seq(UpdateId)
      /\ Len(sidecar) <= Len(snaps)
      /\ \A i \in 1..Len(sidecar) : sidecar[i] = snaps[(Len(snaps) - Len(sidecar)) + i]
  BY <1>1 DEF RInv, PInv, RepTypes
<1> DEFINE n == Len(snaps) - Len(sidecar)
<1>3. Head(sidecar) = snaps[n + 1] /\ n + 1 \in DOMAIN snaps /\ Head(sidecar) \in UpdateId
  <2>1. 1 \in 1..Len(sidecar) /\ Head(sidecar) = sidecar[1]
    BY <1>2
  <2> QED BY <1>2, <2>1
<1>4. sidecar' \in Seq(UpdateId) /\ Len(sidecar') = Len(sidecar) - 1 /\ Len(snaps) - Len(sidecar') = n + 1
      /\ Len(sidecar') <= Len(snaps)
  BY <1>1, <1>2
<1>5. ASSUME NEW i \in 1..Len(sidecar')
      PROVE  sidecar'[i] = snaps[(Len(snaps) - Len(sidecar')) + i]
  <2>1. sidecar'[i] = sidecar[i + 1] /\ i + 1 \in 1..Len(sidecar)
    BY <1>1, <1>2, <1>4
  <2>2. n + (i + 1) = (n + 1) + i
    BY <1>2
  <2> QED BY <1>2, <1>4, <2>1, <2>2
<1>6. Ses' = Seeded(hist, Ses, Head(sidecar))
  BY <1>1, SesSeeded
<1>7. resync_pending' \in BOOLEAN /\ snap_id' \in UpdateId /\ replaying' = TRUE
  BY <1>1, <1>3 DEF Session!on_snapshot
<1>8. RepTypes'
  BY <1>1, <1>4, <1>5, <1>7 DEF RepTypes, Steady
<1>9. ASSUME NEW M PROVE Goes(M, snaps, hist, RepState, RepState')
  <2>1. RepState.phase = "fetch" /\ RepState.used = n
    BY <1>1 DEF RepState, State
  <2>2. RepState' = SeedOf(snaps, hist, RepState)
    BY <1>1, <1>3, <1>4, <1>6 DEF RepState, SeedOf, State, Steady
  <2>3. RepState' = StepOf(M, snaps, hist, RepState)
    BY <2>1, <2>2 DEF StepOf
  <2>4. RepState'.rows \in Seq(RowSet)
    <3>1. rep_rows' \in Seq(RowSet)
      BY DEF RInv, FeedInv
    <3> QED BY <3>1 DEF RepState, State
  <2> QED BY <1>3, <2>1, <2>3, <2>4 DEF Goes
<1> QED BY <1>8, <1>9 DEF RepGoes

(* The loop of on_snapshot.                                                *)
LEMMA LoopGoes ==
  ASSUME RInv, RInv', RepTypes, Steady, SeedDrop \/ emit_replayed_diff \/ SeedEnd
  PROVE  RepTypes' /\ RepGoes
<1>1. /\ mode = "replay" /\ mode' = "replay" /\ phase = "replay" /\ frame.kind = "Diff"
      /\ UNCHANGED <<last_epoch, epoch, at, sidecar, snap_id>>
  BY DEF SeedDrop, emit_replayed_diff, SeedEnd, ReplayDrop, RepTypes, wireVars, handlerVars,
         replayVars, Session!ReplayDrop, Session!ReplayApply, Session!ReplayGap, Session!ReplayDone
<1>2. buffer \in Seq(DepthEvent) /\ snap_id \in UpdateId
  BY <1>1 DEF RInv, PInv, RepTypes
<1>3. /\ RepState.ses = Ses /\ RepState.last = last_epoch /\ RepState.epoch = epoch
      /\ RepState.phase = "replay" /\ RepState.frame = frame /\ RepState.at = at
      /\ RepState.used = Len(snaps) - Len(sidecar) /\ RepState.rows = rep_rows
  BY <1>1 DEF RepState, State
<1>4. PICK x : x = RepState
  OBVIOUS
<1>5. RepState' = State(Ses', last_epoch, epoch, phase', frame', at, Len(snaps) - Len(sidecar), rep_rows')
  BY <1>1 DEF RepState, Steady
<1>6. RepState' = LoopOf(hist, x) /\ RepTypes'
  <2>1. CASE SeedDrop
    <3>1. Session!ReplayDrop /\ UNCHANGED <<phase, frame, rep_rows, resync_pending, replaying>>
      BY <2>1 DEF SeedDrop, ReplayDrop, Session!ReplayDrop, handlerVars, replayVars
    <3>2. LoopOf(hist, x) = State(Ses', x.last, x.epoch, "replay", x.frame, x.at, x.used, x.rows)
      BY <1>2, <1>3, <1>4, <3>1, LoopIs
    <3> QED BY <1>1, <1>3, <1>4, <1>5, <3>1, <3>2 DEF RepTypes, Steady
  <2>2. CASE emit_replayed_diff
    <3>1. /\ Session!ReplayApply /\ UNCHANGED <<phase, frame, resync_pending, replaying>>
          /\ rep_rows' = Append(rep_rows, Row("D", last_update_id', levels'))
      BY <2>2 DEF emit_replayed_diff, Session!ReplayApply, handlerVars
    <3>2. LoopOf(hist, x) = State(Ses', x.last, x.epoch, "replay", x.frame, x.at, x.used,
                                  Append(x.rows, Row("D", last_update_id', levels')))
      BY <1>2, <1>3, <1>4, <3>1, LoopIs
    <3> QED BY <1>1, <1>3, <1>4, <1>5, <3>1, <3>2 DEF RepTypes, Steady
  <2>3. CASE SeedEnd
    <3>1. /\ Session!ReplayGap \/ Session!ReplayDone
          /\ phase' = "idle" /\ frame' = NoFrame /\ rep_rows' = rep_rows
      BY <1>1, <2>3 DEF SeedEnd, Finish, replayVars
    <3>2. resync_pending' \in BOOLEAN /\ replaying' = FALSE
      BY <3>1 DEF Session!ReplayGap, Session!ReplayDone, RepTypes
    <3>3. LoopOf(hist, x) = Ended(x, Ses', x.rows)
      BY <1>2, <1>3, <1>4, <3>1, LoopIs
    <3> QED BY <1>1, <1>3, <1>4, <1>5, <3>1, <3>2, <3>3 DEF RepTypes, Steady, Ended
  <2> QED BY <2>1, <2>2, <2>3
<1>7. \A M : RepState' = StepOf(M, snaps, hist, RepState)
  BY <1>3, <1>4, <1>6 DEF StepOf
<1>8. ~Wants(hist, RepState)
  BY <1>3 DEF Wants
<1> QED BY <1>1, <1>6, <1>7, <1>8, StepGoes

(* The row at the end.                                                     *)
LEMMA EmitGoes ==
  ASSUME RInv, RInv', RepTypes, Steady, RowEmit
  PROVE  RepTypes' /\ RepGoes
<1>1. /\ mode = "replay" /\ mode' = "replay" /\ phase = "emit" /\ phase' = "idle"
      /\ frame' = NoFrame /\ rep_rows' = rep_rows \o NewRows /\ Ses' = Ses
      /\ UNCHANGED <<last_epoch, epoch, at, sidecar, resync_pending, snap_id, replaying>>
  BY DEF RowEmit, Finish, wireVars, bookVars, sessionVars, Ses
<1>2. RepTypes'
  BY <1>1 DEF RepTypes, Steady
<1>3. /\ RepState.ses = Ses /\ RepState.last = last_epoch /\ RepState.epoch = epoch
      /\ RepState.phase = "emit" /\ RepState.frame = frame /\ RepState.at = at
      /\ RepState.used = Len(snaps) - Len(sidecar) /\ RepState.rows = rep_rows
  BY <1>1 DEF RepState, State
<1>4. rep_rows \in Seq(RowSet)
  BY DEF RInv, FeedInv
<1>5. rep_rows' = IF frame.kind = "Depth5"
                  THEN Append(rep_rows, Row("S", frame.ev.u, Partial(hist[frame.ev.u])))
                  ELSE IF initialized /\ ~resync_pending
                  THEN Append(rep_rows, Row(IF frame.kind = "Diff" THEN "D" ELSE "T",
                                            last_update_id, levels))
                  ELSE rep_rows
  <2>1. ASSUME NEW r PROVE rep_rows \o <<r>> = Append(rep_rows, r)
    BY <1>4
  <2>2. rep_rows \o <<>> = rep_rows
    BY <1>4
  <2> QED BY <1>1, <2>1, <2>2 DEF NewRows, Session!Ready
<1>6. RepState' = EmitOf(hist, RepState)
  <2>1. Ses.init = initialized /\ Ses.pend = resync_pending /\ Ses.id = last_update_id /\ Ses.lv = levels
    BY DEF Ses
  <2>2. RepState' = State(Ses, last_epoch, epoch, "idle", NoFrame, at, Len(snaps) - Len(sidecar), rep_rows')
    BY <1>1 DEF RepState, Steady
  <2> QED BY <1>3, <1>5, <2>1, <2>2 DEF EmitOf, Ended
<1>7. \A M : RepState' = StepOf(M, snaps, hist, RepState)
  BY <1>3, <1>6 DEF StepOf
<1>8. ~Wants(hist, RepState)
  BY <1>3 DEF Wants
<1> QED BY <1>1, <1>2, <1>7, <1>8, StepGoes

-----------------------------------------------------------------------------
(* Both runs together.                                                     *)

(* The inductive invariant of the reproduction.                            *)
KInv ==
  /\ mode = "live" => at = 0
  /\ LInv
  /\ JInv

-----------------------------------------------------------------------------

(* A path ends where there is no step.                                     *)
LEMMA NoStep ==
  ASSUME NEW M, NEW S, NEW h, NEW x, NEW y, Reaches(M, S, h, x, y), \A z : ~Goes(M, S, h, x, z)
  PROVE  x = y
BY ReachesFirst

(* Longer sequences begin with what shorter ones begin with.               *)
LEMMA StartsTransitive ==
  ASSUME NEW s \in Seq(RowSet), NEW t \in Seq(RowSet), NEW u \in Seq(RowSet),
         Starts(s, t), Starts(t, u)
  PROVE  Starts(s, u)
<1>1. Len(s) \in Nat /\ Len(t) \in Nat /\ Len(u) \in Nat
  OBVIOUS
<1> QED BY <1>1 DEF Starts

(* Starts is the IsPrefix of the library.                                  *)
LEMMA StartsIsPrefix ==
  ASSUME NEW s \in Seq(RowSet), NEW t \in Seq(RowSet), Starts(s, t)
  PROVE  IsPrefix(s, t)
<1>1. Len(s) \in Nat /\ Len(t) \in Nat /\ Len(s) <= Len(t) /\ \A i \in 1..Len(s) : s[i] = t[i]
  BY DEF Starts
<1>2. SubSeq(s, 1, Len(s)) = SubSeq(t, 1, Len(s))
  <2> DEFINE a == SubSeq(s, 1, Len(s))
             b == SubSeq(t, 1, Len(s))
  <2>1. a \in Seq(RowSet) /\ b \in Seq(RowSet) /\ Len(a) = Len(s) /\ Len(b) = Len(s)
    BY <1>1
  <2>2. \A i \in 1..Len(s) : a[i] = s[i] /\ b[i] = t[i]
    BY <1>1
  <2> HIDE DEF a, b
  <2>3. a = b
    BY <1>1, <2>1, <2>2
  <2> QED BY <2>3 DEF a, b
<1> QED BY <1>1, <1>2 DEF IsPrefix

(* The last diff, and the sidecar has nothing for it: the live run was     *)
(* killed while it handled its snapshot, or replay is past its end.        *)
LEMMA LastDiff ==
  ASSUME RInv, RepTypes, OnPath \/ Past \/ Starved, Steady,
         Wants(hist, RepState), sidecar = <<>>, phase' = "idle", UNCHANGED <<at, rep_rows>>
  PROVE  Past' \/ Starved'
<1>1. /\ rep_rows \in Seq(RowSet) /\ md \in Seq(AuditSet) /\ at \in Nat /\ at <= Len(md)
      /\ ob_rows \in Seq(RowSet) /\ snaps \in Seq(UpdateId)
  BY DEF RInv, FeedInv, RepTypes, AuditSet
<1>2. /\ RepState.rows = rep_rows /\ RepState.at = at /\ RepState.phase = phase
      /\ RepState.used = Len(snaps) - Len(sidecar)
  BY DEF RepState, State
<1>3. phase = "dispatch"
  BY <1>2 DEF Wants
<1>4. /\ UNCHANGED <<hist, md, snaps, ob_rows, complete>>
  BY DEF Steady
<1>5. CASE Past
  BY <1>4, <1>5 DEF Past
<1>6. CASE Starved
  BY <1>3, <1>6 DEF Starved
<1>7. CASE OnPath
  <2>1. PICK M, y : EndsAt(M, y) /\ Reaches(M, snaps, hist, RepState, y)
    BY <1>7 DEF OnPath
  <2>2. ASSUME NEW z PROVE ~Goes(M, snaps, hist, RepState, z)
    <3>1. Len(snaps) - Len(sidecar) = Len(snaps) /\ Len(snaps) \in Nat /\ DOMAIN snaps = 1..Len(snaps)
      BY <1>1
    <3>2. ~(RepState.used + 1 \in DOMAIN snaps)
      BY <1>2, <3>1
    <3> QED BY <3>2 DEF Goes
  <2>3. y = RepState
    BY <2>1, <2>2, NoStep
  <2>4. ~complete
    BY <1>2, <1>3, <2>1, <2>3 DEF EndsAt
  <2>5. CASE rep_rows = ob_rows
    BY <1>1, <1>4, <2>4, <2>5, SelfStarts DEF Past
  <2>6. CASE Hungry(M, snaps, hist, y) /\ Starts(y.rows, ob_rows)
    <3>1. at = Len(M) /\ M \in Seq(AuditSet) /\ Extends(md, M)
      BY <1>2, <2>1, <2>3, <2>6 DEF Hungry, EndsAt
    <3>2. Len(md) <= Len(M)
      <4>1. CASE Len(md) = 0
        BY <1>1, <3>1, <4>1
      <4>2. CASE Len(md) # 0
        <5>1. Len(md) \in DOMAIN md
          BY <1>1, <4>2
        <5>2. Len(md) \in DOMAIN M
          BY <3>1, <5>1 DEF Extends
        <5> QED BY <3>1, <5>2
      <4> QED BY <4>1, <4>2
    <3>3. at = Len(md)
      BY <1>1, <3>1, <3>2
    <3> QED BY <1>2, <1>4, <2>3, <2>4, <2>6, <3>3 DEF Starved
  <2> QED BY <1>2, <2>1, <2>3, <2>5, <2>6 DEF EndsAt
<1> QED BY <1>5, <1>6, <1>7

(* Every step of replay.                                                   *)
LEMMA ReplayAdvances ==
  ASSUME RInv, RInv', mode = "replay", have_sidecar, RepTypes, OnPath \/ Past \/ Starved, ReplayNext
  PROVE  RepTypes' /\ (OnPath' \/ Past' \/ Starved')
<1>1. Steady
  BY RepSteady
<1>2. UNCHANGED <<hist, md, snaps, ob_rows, complete>>
  BY <1>1 DEF Steady
<1>3. CASE RepTypes' /\ RepGoes
  BY <1>2, <1>3, Advance DEF RepGoes
<1>4. CASE ReadRow
  BY <1>1, <1>3, <1>4, ReadGoes
<1>5. CASE RowEpoch
  BY <1>1, <1>3, <1>5, EpochGoes
<1>6. CASE RowUnparsed \/ RowTrade \/ RowDepth5
  BY <1>1, <1>3, <1>6, OtherGoes
<1>7. CASE RowDiff
  <2>1. RepTypes'
    BY <1>1, <1>7, DiffGoes
  <2>2. CASE RepGoes
    BY <1>3, <2>1, <2>2
  <2>3. CASE Wants(hist, RepState) /\ sidecar = <<>> /\ phase' = "idle" /\ UNCHANGED <<at, rep_rows>>
    BY <1>1, <2>1, <2>3, LastDiff
  <2> QED BY <1>1, <1>7, <2>2, <2>3, DiffGoes
<1>8. CASE seed_from_sidecar
  BY <1>1, <1>3, <1>8, SeedGoes
<1>9. CASE SeedDrop \/ emit_replayed_diff \/ SeedEnd
  BY <1>1, <1>3, <1>9, LoopGoes
<1>10. CASE RowEmit
  BY <1>1, <1>3, <1>10, EmitGoes
<1>11. CASE ReplayReturns
  <2>1. /\ phase = "idle" /\ at = Len(md) /\ mode' = "done"
        /\ UNCHANGED <<vars, at, sidecar, rep_rows>>
    BY <1>11 DEF ReplayReturns
  <2>2. UNCHANGED <<hist, md, snaps, ob_rows, complete, at, sidecar, rep_rows, phase, frame, epoch,
                    last_epoch, resync_pending, snap_id, replaying, initialized, last_update_id,
                    started, levels, overflows, buffer>>
    BY <1>2, <2>1 DEF vars, feedVars, bookVars, sessionVars, wireVars, handlerVars, rowVars
  <2>3. RepTypes'
    BY <2>1, <2>2 DEF RepTypes
  <2>4. RepState' = RepState
    BY <2>2 DEF RepState, State, Ses
  <2>5. OnPath => OnPath'
    BY <2>2, <2>4 DEF OnPath, EndsAt
  <2>6. (Past => Past') /\ (Starved => Starved')
    BY <2>2 DEF Past, Starved
  <2> QED BY <2>3, <2>5, <2>6
<1>12. ~Live /\ ~StopAndReplay /\ ~KillAndReplay
  BY DEF Live, StopAndReplay, KillAndReplay, StartReplay
<1> QED
  BY <1>4, <1>5, <1>6, <1>7, <1>8, <1>9, <1>10, <1>11, <1>12 DEF ReplayNext
(* At the start the handler and the loop of replay stand in the same place.*)
LEMMA ReproductionInit ==
  ASSUME ReplayInit
  PROVE  KInv
<1>1. /\ mode = "live" /\ at = 0 /\ md = <<>> /\ snaps = <<>> /\ ob_rows = <<>>
      /\ phase = "idle" /\ last_epoch = NoEpoch /\ epoch \in Nat
  BY DEF ReplayInit, Init
<1>2. Ses = Start.ses
  BY DEF ReplayInit, Init, Session!Init, Session!BookInit, Ses, Start, State, NoLevels, Session!NoLevels
<1>3. Ses = Cleared(Ses)
  BY <1>2 DEF Start, State, Cleared
<1>4. EpochsOK
  BY <1>1, <1>3 DEF EpochsOK
<1>5. Follows(Start)
  <2>1. /\ Start.at = 0 /\ Start.used = 0 /\ Start.rows = <<>> /\ Start.phase = "idle"
        /\ Start.last = NoEpoch
    BY DEF Start, State
  <2>2. Len(md) = 0 /\ Len(snaps) = 0
    BY <1>1
  <2> QED BY <1>1, <1>2, <2>1, <2>2 DEF Follows, InStep
<1>6. Following
  BY <1>5, ReachesSelf DEF Following
<1> QED BY <1>1, <1>4, <1>6 DEF KInv, LInv, JInv, Judged, Pending

(* A step that changes nothing.                                            *)
LEMMA ReproductionStutters ==
  ASSUME KInv, UNCHANGED allVars
  PROVE  KInv'
<1>1. UNCHANGED <<vars, mode, at, sidecar, have_sidecar, complete, whole, failed, rep_rows>>
  BY DEF allVars, replayVars
<1>2. UNCHANGED <<hist, md, snaps, ob_rows, phase, frame, epoch, last_epoch, resync_pending, snap_id,
                  replaying, initialized, last_update_id, started, levels, overflows, buffer>>
  BY <1>1 DEF vars, feedVars, bookVars, sessionVars, wireVars, handlerVars, rowVars
<1>3. Ses' = Ses
  BY <1>2 DEF Ses
<1>4. RepState' = RepState
  BY <1>1, <1>2, <1>3 DEF RepState
<1>5. EpochsOK => EpochsOK'
  BY <1>2, <1>3 DEF EpochsOK
<1>6. ASSUME Following PROVE Following'
  <2>1. PICK y : Reaches(md, snaps, hist, Start, y) /\ Follows(y)
    BY <1>6 DEF Following
  <2>2. Follows(y)'
    BY <1>2, <1>3, <2>1 DEF Follows, InStep, Lags
  <2> QED BY <1>2, <2>1, <2>2 DEF Following
<1>7. Asking => Asking'
  BY <1>2 DEF Asking
<1>8. LiveState(Len(snaps))' = LiveState(Len(snaps)) /\ LiveState(Len(snaps) + 1)' = LiveState(Len(snaps) + 1)
  BY <1>2, <1>3 DEF LiveState
<1>9. Pending => Pending'
  BY <1>2, <1>8 DEF Pending
<1>10. LInv'
  BY <1>1, <1>2, <1>5, <1>6, <1>7, <1>9 DEF KInv, LInv
<1>11. RepTypes => RepTypes'
  BY <1>1, <1>2 DEF RepTypes
<1>12. OnPath => OnPath'
  BY <1>1, <1>2, <1>4 DEF OnPath, EndsAt
<1>13. (Past => Past') /\ (Starved => Starved')
  BY <1>1, <1>2 DEF Past, Starved
<1>14. Judged' => Judged
  BY <1>1, Zenon DEF Judged
<1>15. JInv'
  BY <1>11, <1>12, <1>13, <1>14 DEF KInv, JInv
<1> QED BY <1>1, <1>10, <1>15 DEF KInv

(* Every step.                                                             *)
LEMMA ReproductionStep ==
  ASSUME RInv \/ Blind, RInv' \/ Blind', KInv, [ReplayNext]_allVars
  PROVE  KInv'
<1>1. CASE UNCHANGED allVars
  BY <1>1, ReproductionStutters
<1>2. CASE Live
  <2>1. mode = "live" /\ UNCHANGED <<mode, at>>
    BY <1>2 DEF Live
  <2>2. RInv
    BY <2>1 DEF Blind
  <2>3. LInv'
    BY <1>2, <2>2, LiveFollows DEF KInv
  <2> QED BY <2>1, <2>3 DEF KInv, JInv, Judged
<1>3. CASE StopAndReplay \/ KillAndReplay
  <2>1. mode = "live" /\ mode' = "replay"
    BY <1>3 DEF StopAndReplay, KillAndReplay, StartReplay
  <2>2. RInv
    BY <2>1 DEF Blind
  <2>3. PICK m \in Nat, s \in Nat :
          /\ m <= Len(md) /\ s <= Len(snaps) /\ StartReplay(m, s)
          /\ ~complete' \/ (phase = "idle" /\ m = Len(md))
    BY <1>3, <2>2, StartRows
  <2>4. RInv'
    BY <2>2, <2>3, StartStep
  <2>5. JInv'
    BY <2>2, <2>3, <2>4, StartOnPath DEF KInv
  <2> QED BY <2>1, <2>5 DEF KInv, LInv
<1>4. CASE ReplayNext /\ mode # "live"
  <2>1. mode = "replay"
    BY <1>4 DEF ReplayNext, Live, StopAndReplay, KillAndReplay, StartReplay, ReadRow, RowEpoch,
                RowUnparsed, RowDiff, RowDepth5, RowTrade, seed_from_sidecar, SeedDrop,
                emit_replayed_diff, SeedEnd, RowEmit, ReplayReturns
  <2>2. Steady /\ mode' # "live"
    BY <1>4, <2>1, RepSteady
  <2>3. UNCHANGED <<have_sidecar, whole, failed>>
    BY <2>2 DEF Steady
  <2>4. JInv'
    <3> SUFFICES ASSUME Judged' PROVE RepTypes' /\ (OnPath' \/ Past' \/ Starved')
      BY DEF JInv
    <3>1. Judged
      BY <1>4, <2>3, Zenon DEF Judged
    <3>2. have_sidecar /\ have_sidecar'
      BY <3>1, Zenon DEF Judged
    <3>3. RInv /\ RInv'
      BY <3>2 DEF Blind
    <3> QED BY <1>4, <2>1, <3>1, <3>2, <3>3, ReplayAdvances DEF KInv, JInv
  <2> QED BY <2>2, <2>4 DEF KInv, LInv
<1> QED
  <2>1. Live => mode = "live"
    BY DEF Live
  <2>2. ReplayNext /\ mode = "live" => Live \/ StopAndReplay \/ KillAndReplay
    BY DEF ReplayNext, ReadRow, RowEpoch, RowUnparsed, RowDiff, RowDepth5, RowTrade,
           seed_from_sidecar, SeedDrop, emit_replayed_diff, SeedEnd, RowEmit, ReplayReturns
  <2> QED BY <1>1, <1>2, <1>3, <1>4, <2>2

(* What it says of the rows when replay is done.                           *)
LEMMA ReproductionHolds ==
  ASSUME RInv \/ Blind, KInv
  PROVE  ReproducesLive
<1> SUFFICES ASSUME mode = "done", have_sidecar, whole, ~failed
             PROVE  /\ IsPrefix(rep_rows, ob_rows) \/ IsPrefix(ob_rows, rep_rows)
                    /\ complete => rep_rows = ob_rows
  BY DEF ReproducesLive
<1>1. RInv /\ RepTypes /\ (OnPath \/ Past \/ Starved)
  BY DEF Blind, KInv, JInv, Judged
<1>2. /\ rep_rows \in Seq(RowSet) /\ ob_rows \in Seq(RowSet) /\ phase = "idle" /\ at = Len(md)
      /\ at \in Nat
  BY <1>1 DEF RInv, FeedInv, RepTypes
<1>3. /\ RepState.rows = rep_rows /\ RepState.at = at /\ RepState.phase = phase
  BY DEF RepState, State
<1>4. CASE Past
  BY <1>2, <1>4, StartsIsPrefix DEF Past
<1>5. CASE Starved
  BY <1>2, <1>5, StartsIsPrefix DEF Starved
<1>6. CASE OnPath
  <2>1. PICK M, y : EndsAt(M, y) /\ Reaches(M, snaps, hist, RepState, y)
    BY <1>6 DEF OnPath
  <2>2. y.rows \in Seq(RowSet) /\ Starts(rep_rows, y.rows)
    BY <1>2, <1>3, <2>1, ReachesKeepsRows
  <2>3. Starts(y.rows, ob_rows)
    BY <1>2, <2>1, SelfStarts DEF EndsAt
  <2>4. IsPrefix(rep_rows, ob_rows)
    BY <1>2, <2>2, <2>3, StartsTransitive, StartsIsPrefix
  <2>5. ASSUME complete PROVE rep_rows = ob_rows
    <3>1. M \in Seq(AuditSet) /\ Len(md) = Len(M) /\ y.rows = ob_rows
      BY <2>1, <2>5 DEF EndsAt
    <3>2. ~(at + 1 \in DOMAIN M)
      BY <1>2, <3>1
    <3>3. \A z : ~Goes(M, snaps, hist, RepState, z)
      BY <1>2, <1>3, <3>2 DEF Goes
    <3>4. y = RepState
      BY <2>1, <3>3, NoStep
    <3> QED BY <1>3, <3>1, <3>4
  <2> QED BY <2>4, <2>5
<1> QED BY <1>1, <1>4, <1>5, <1>6

(* With the whole sidecar, and no REST request of the live run failed,     *)
(* replay writes the rows the live run wrote: all of them if that ended by *)
(* itself, the same as far as both go if it was killed at any point, with  *)
(* any part of the market-data file left; on both venues, for every        *)
(* history, stream of messages and size of the buffer.                     *)
THEOREM ReplayReproducesLive == ReplaySpec => []ReproducesLive
<1>1. ReplayInit => (RInv \/ Blind) /\ KInv
  BY ReplayStarts, ReproductionInit
<1>2. (RInv \/ Blind) /\ KInv /\ [ReplayNext]_allVars => ((RInv \/ Blind) /\ KInv)'
  BY ReplayStep, ReproductionStep
<1>3. (RInv \/ Blind) /\ KInv => ReproducesLive
  BY ReproductionHolds
<1> QED
  BY <1>1, <1>2, <1>3, PTL DEF ReplaySpec

=============================================================================
