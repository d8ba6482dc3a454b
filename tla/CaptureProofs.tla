---------------------------- MODULE CaptureProofs ---------------------------
(***************************************************************************)
(* What holds of one symbol of a shard, for every history of the exchange, *)
(* either venue, any number of reconnects and of mangled frames, and REST  *)
(* answers that fail or are of any age.                                    *)
(*                                                                         *)
(* The handler takes only steps that BookSession allows (UsesSession), so  *)
(* the session's inductive invariant, proved in BookSessionProofs, holds   *)
(* of the handler's session too.  What the rows show follows from it and   *)
(* from where the handler is: CInv relates phase, epochs and rows.         *)
(***************************************************************************)
EXTENDS Capture, TLAPS

SP == INSTANCE BookSessionProofs

(* A diff on the wire or in the handler is one the exchange published.     *)
WireGood ==
  /\ \A i \in DOMAIN wire : wire[i].kind = "Diff" => wire[i].ev \in published
  /\ frame.kind = "Diff" => frame.ev \in published

PhaseOK ==
  /\ phase = "fetch" => resync_pending
  /\ replaying <=> phase = "replay"
  /\ phase \in {"fetch", "replay", "emit"} => last_epoch = epoch
  /\ phase = "emit" /\ frame.kind = "Diff" => Session!Ready

(* The book was seeded on the connection the symbol was last heard on.     *)
SeedOK ==
  /\ initialized => seed_epoch = last_epoch
  /\ last_epoch = NoEpoch => ~initialized /\ buffer = <<>>

(* The frame in the handler has its audit row.                             *)
FrameAudited ==
  phase # "idle" => \E j \in DOMAIN md : md[j].epoch = epoch /\ md[j].ev = frame.ev

(* The last D row of the file is of update id `id'.                        *)
LastRowIs(rows, id) ==
  \E i \in DOMAIN rows :
    /\ rows[i].type = "D" /\ rows[i].id = id
    /\ \A j \in (i + 1)..Len(rows) : rows[j].type # "D"

(* The diff the book ends with has its row, or the handler is about to     *)
(* write it.                                                               *)
Recorded ==
  started => LastRowIs(ob_rows, last_update_id) \/ (phase = "emit" /\ frame.kind = "Diff")

(* A session that waits asks for a snapshot now, has just been refused     *)
(* one, or was given one that did not do.                                  *)
Refused ==
  /\ resync_pending /\ buffer # <<>> =>
       phase = "fetch" \/ fetch = "failed" \/ (fetch = "ok" /\ initialized)
  /\ phase = "replay" => fetch = "ok"

CInv ==
  /\ TypeOK
  /\ SP!IInv
  /\ WireGood
  /\ PhaseOK
  /\ SeedOK
  /\ FrameAudited
  /\ BufferOfOneEpoch
  /\ RowsFaithful
  /\ Recorded
  /\ Refused

-----------------------------------------------------------------------------
(* Session and SP are the same instance of BookSession, the latter with    *)
(* its theorems.                                                           *)

(* The assumptions of BookSession hold of the handler's session.           *)
LEMMA SessionAssumed ==
  /\ Histories \subseteq [SP!UpdateId -> SP!Book]
  /\ KMaxBuffer \in Nat \ {0}
  /\ MaxOverflows \in Nat
BY HistoriesAssumption, CaptureAssumption DEF UpdateId, Book, SP!UpdateId, SP!Book

(* A step of the session is a step of the specification proved about.      *)
LEMMA SameNext == [SP!Next]_(SP!vars) <=> [Session!Next]_(Session!vars)
BY
DEF SP!UpdateId, Session!UpdateId, SP!Book, Session!Book, SP!NoLevels, Session!NoLevels,
    SP!DepthEvent, Session!DepthEvent, SP!feedVars, Session!feedVars, SP!PublishDiff,
    Session!PublishDiff, SP!Varied, Session!Varied, SP!Diff, Session!Diff, SP!bookVars,
    Session!bookVars, SP!set_snapshot, Session!set_snapshot, SP!reset, Session!reset,
    SP!apply_levels, Session!apply_levels, SP!SpotResult, Session!SpotResult,
    SP!UsdmResult, Session!UsdmResult, SP!AcceptDiff, Session!AcceptDiff, SP!sessionVars,
    Session!sessionVars, SP!vars, Session!vars, SP!ApplyResult, Session!ApplyResult,
    SP!NewSeen, Session!NewSeen, SP!buffer_event, Session!buffer_event, SP!on_applied,
    Session!on_applied, SP!on_ignored, Session!on_ignored, SP!on_gap, Session!on_gap,
    SP!on_diff, Session!on_diff, SP!on_snapshot, Session!on_snapshot, SP!ReplayDrop,
    Session!ReplayDrop, SP!ReplayApply, Session!ReplayApply, SP!ReplayGap,
    Session!ReplayGap, SP!ReplayDone, Session!ReplayDone, SP!request_resync,
    Session!request_resync, SP!PublishSome, Session!PublishSome, SP!DeliverSome,
    Session!DeliverSome, SP!SnapshotSome, Session!SnapshotSome, SP!Next, Session!Next

(* So is its initial state.                                                *)
LEMMA SameInit == SP!Init <=> Session!Init
BY
DEF SP!Init, Session!Init, SP!FeedInit, Session!FeedInit, SP!BookInit, Session!BookInit,
    SP!NoLevels, Session!NoLevels

(* And its types.                                                          *)
LEMMA SameTypes == SP!TypeOK <=> Session!TypeOK
BY
DEF SP!TypeOK, Session!TypeOK, SP!BookTypeOK, Session!BookTypeOK, SP!UpdateId,
    Session!UpdateId, SP!Book, Session!Book, SP!DepthEvent, Session!DepthEvent

(* The same of the next state.                                             *)
LEMMA SameTypesNext == SP!TypeOK' <=> Session!TypeOK'
BY
DEF SP!TypeOK, Session!TypeOK, SP!BookTypeOK, Session!BookTypeOK, SP!UpdateId,
    Session!UpdateId, SP!Book, Session!Book, SP!DepthEvent, Session!DepthEvent

(* The types of the session's variables, in the names of DepthTypes.       *)
LEMMA SessionTypes ==
  ASSUME SP!IInv
  PROVE  /\ hist \in [UpdateId -> Book] /\ cut \in UpdateId /\ published \subseteq DepthEvent
         /\ initialized \in BOOLEAN /\ last_update_id \in UpdateId
         /\ started \in BOOLEAN /\ levels \in Book
         /\ resync_pending \in BOOLEAN /\ buffer \in Seq(DepthEvent)
         /\ replaying \in BOOLEAN /\ snap_id \in UpdateId
BY HistoriesAssumption
DEF SP!IInv, SP!TypeOK, SP!BookTypeOK, UpdateId, Book, DepthEvent, SP!UpdateId, SP!Book,
    SP!DepthEvent

(* Every step of the handler and its surroundings is a step of BookSession *)
(* or leaves the session alone: diffs handed to on_diff were published,    *)
(* and on_snapshot is called only while the session waits for it.          *)
LEMMA SessionStep ==
  ASSUME CInv, [Next]_vars
  PROVE  [Session!Next]_(Session!vars)
<1> USE DEF CInv, Session!vars, Session!feedVars, Session!bookVars, Session!sessionVars,
            feedVars, bookVars, sessionVars
<1>u. UpdateId = Session!UpdateId
  BY DEF UpdateId, Session!UpdateId
<1>1. CASE SendDiff \/ SendMangled
  <2>1. PICK U \in UpdateId, u \in UpdateId : PublishDiff(U, u)
    BY <1>1 DEF SendDiff, SendMangled
  <2>2. UNCHANGED <<bookVars, sessionVars>>
    BY <1>1 DEF SendDiff, SendMangled
  <2>3. Session!PublishDiff(U, u)
    BY <2>1 DEF PublishDiff, Session!PublishDiff
  <2> QED
    BY <1>u, <2>2, <2>3 DEF Session!Next, Session!PublishSome
<1>2. CASE SendOther \/ Reconnect \/ ReadGarbage \/ ReadFrame
  BY <1>2 DEF SendOther, Reconnect, ReadGarbage, ReadFrame, Read
<1>3. CASE NewEpoch
  BY <1>3 DEF NewEpoch, Session!Next
<1>4. CASE HandleDiff
  <2>1. frame.ev \in published /\ Session!on_diff(frame.ev)
    BY <1>4 DEF HandleDiff, Dispatch, WireGood
  <2> QED
    BY <2>1 DEF Session!Next, Session!DeliverSome
<1>5. CASE HandleTrade \/ HandleDepth5 \/ EmitRow \/ FetchFails
  BY <1>5 DEF HandleTrade, HandleDepth5, EmitRow, FetchFails
<1>6. CASE FetchSucceeds
  <2>1. resync_pending /\ \E s \in Session!UpdateId : Session!on_snapshot(hist[s], s)
    BY <1>6, <1>u DEF FetchSucceeds, PhaseOK
  <2> QED
    BY <2>1 DEF Session!Next, Session!SnapshotSome
<1>7. CASE ReplayDrop \/ ReplayApply \/ ReplayEnd
  BY <1>7 DEF ReplayDrop, ReplayApply, ReplayEnd, Session!Next
<1>8. CASE UNCHANGED vars
  BY <1>8 DEF vars
<1> QED
  BY <1>1, <1>2, <1>3, <1>4, <1>5, <1>6, <1>7, <1>8 DEF Next, handler, fetch_snapshot

(* So every step keeps the session's inductive invariant.                  *)
LEMMA SessionInv ==
  ASSUME CInv, [Next]_vars
  PROVE  SP!IInv'
BY SessionStep, SameNext, SP!NextInv, DepthAssumption, SessionAssumed DEF CInv

-----------------------------------------------------------------------------

(* What on_diff does to a seeded or waiting session, as far as the handler *)
(* can tell.                                                               *)
LEMMA OnDiff ==
  ASSUME CInv, NEW e \in DepthEvent, Session!on_diff(e)
  PROVE  /\ UNCHANGED <<hist, cut, published, replaying>>
         /\ initialized' => initialized
         /\ ~resync_pending' => ~resync_pending
         /\ \A i \in DOMAIN buffer' :
              buffer'[i] = e \/ \E j \in DOMAIN buffer : buffer'[i] = buffer[j]
         /\ IF ~resync_pending /\ initialized /\ Session!ApplyResult(e) = "Applied"
            THEN initialized' /\ ~resync_pending'
            ELSE started' => started /\ last_update_id' = last_update_id
<1> USE DEF CInv
<1>t. buffer \in Seq(DepthEvent)
  BY SessionTypes
<1>f. UNCHANGED <<hist, cut, published, replaying>>
  BY DEF Session!on_diff, Session!feedVars
<1>1. ASSUME NEW pending, Session!buffer_event(e, pending), pending = resync_pending \/ pending = TRUE
      PROVE  /\ initialized' => initialized
             /\ ~resync_pending' => ~resync_pending
             /\ \A i \in DOMAIN buffer' :
                  buffer'[i] = e \/ \E j \in DOMAIN buffer : buffer'[i] = buffer[j]
             /\ started' => started /\ last_update_id' = last_update_id
  <2>1. CASE Len(buffer) >= KMaxBuffer
    <3>1. buffer' = <<e>> /\ ~initialized' /\ ~started'
      BY <1>1, <2>1 DEF Session!buffer_event, Session!reset
    <3>2. resync_pending'
      BY <1>1, <2>1 DEF Session!buffer_event
    <3>3. \A i \in DOMAIN buffer' : buffer'[i] = e
      BY <3>1
    <3> QED BY <3>1, <3>2, <3>3
  <2>2. CASE ~(Len(buffer) >= KMaxBuffer)
    <3>1. buffer' = Append(buffer, e) /\ UNCHANGED <<initialized, started, last_update_id>>
      BY <1>1, <2>2 DEF Session!buffer_event, Session!bookVars
    <3>2. ~resync_pending' => ~resync_pending
      BY <1>1, <2>2 DEF Session!buffer_event
    <3>3. \A i \in DOMAIN buffer' : buffer'[i] = e \/ (i \in DOMAIN buffer /\ buffer'[i] = buffer[i])
      BY <1>t, <3>1
    <3> QED BY <3>1, <3>2, <3>3
  <2> QED BY <2>1, <2>2
<1>2. CASE resync_pending \/ ~initialized
  BY <1>f, <1>1, <1>2 DEF Session!on_diff
<1>3. CASE ~resync_pending /\ initialized
  <2>1. CASE Session!on_applied(e)
    BY <1>f, <1>3, <2>1 DEF Session!on_applied, Session!AcceptDiff
  <2>2. CASE Session!on_ignored(e)
    BY <1>f, <1>3, <2>2 DEF Session!on_ignored, Session!bookVars
  <2>3. CASE Session!on_gap(e)
    BY <1>f, <1>1, <1>3, <2>3 DEF Session!on_gap
  <2> QED BY <1>3, <2>1, <2>2, <2>3 DEF Session!on_diff
<1> QED BY <1>2, <1>3

(* Appending a row keeps the faithful rows faithful.                       *)
LEMMA AppendRow ==
  ASSUME CInv, hist' = hist,
         NEW row \in [type: {"D", "S", "T"}, id: UpdateId, top: Book],
         ob_rows' = Append(ob_rows, row),
         row.type # "S" => row.top = hist[row.id]
  PROVE  /\ RowsFaithful'
         /\ ob_rows' \in Seq([type: {"D", "S", "T"}, id: UpdateId, top: Book])
         /\ row.type = "D" => LastRowIs(ob_rows', row.id)
         /\ \A id \in UpdateId : row.type # "D" /\ LastRowIs(ob_rows, id) => LastRowIs(ob_rows', id)
<1> DEFINE RowSet == [type: {"D", "S", "T"}, id: UpdateId, top: Book]
<1>1. ob_rows \in Seq(RowSet) /\ Len(ob_rows) \in Nat /\ DOMAIN ob_rows = 1..Len(ob_rows)
  BY DEF CInv, TypeOK
<1>2. /\ ob_rows' \in Seq(RowSet)
      /\ Len(ob_rows') = Len(ob_rows) + 1
      /\ DOMAIN ob_rows' = 1..(Len(ob_rows) + 1)
      /\ \A i \in 1..Len(ob_rows) : ob_rows'[i] = ob_rows[i]
      /\ ob_rows'[Len(ob_rows) + 1] = row
  BY <1>1
<1>3. RowsFaithful'
  BY <1>1, <1>2 DEF CInv, RowsFaithful
<1>4. row.type = "D" => LastRowIs(ob_rows', row.id)
  BY <1>1, <1>2 DEF LastRowIs
<1>5. ASSUME NEW id \in UpdateId, row.type # "D", LastRowIs(ob_rows, id) PROVE LastRowIs(ob_rows', id)
  BY <1>1, <1>2, <1>5 DEF LastRowIs
<1> QED BY <1>2, <1>3, <1>4, <1>5

(* A frame that enters the connection disturbs only what is on the wire.   *)
LEMMA SendInv ==
  ASSUME CInv, SP!IInv', NEW f \in [kind: Kinds, ev: DepthEvent],
         wire' = Append(wire, f),
         f.kind = "Diff" => f.ev \in published',
         published \subseteq published', hist' = hist,
         noise' \in 0..MaxNoise,
         UNCHANGED <<bookVars, sessionVars, epoch, conn_seq, handlerVars, rowVars>>
  PROVE  CInv'
<1> USE DEF CInv, bookVars, sessionVars, handlerVars, rowVars
<1>1. wire \in Seq([kind: Kinds, ev: DepthEvent])
  BY DEF TypeOK
<1>2. /\ wire' \in Seq([kind: Kinds, ev: DepthEvent])
      /\ \A i \in DOMAIN wire' : wire'[i] = f \/ (i \in DOMAIN wire /\ wire'[i] = wire[i])
  BY <1>1
<1>3. Session!TypeOK'
  BY SameTypesNext DEF SP!IInv
<1>4. TypeOK'
  BY <1>2, <1>3 DEF TypeOK
<1>5. WireGood'
  BY <1>2 DEF WireGood
<1>6. Session!Ready' <=> Session!Ready
  BY DEF Session!Ready
<1> QED
  BY <1>4, <1>5, <1>6
  DEF PhaseOK, SeedOK, FrameAudited, BufferOfOneEpoch, RowsFaithful, Recorded, LastRowIs, Refused

(* The handler ends with a frame, the session and the audit rows as they   *)
(* were.                                                                   *)
LEMMA FinishInv ==
  ASSUME CInv, SP!IInv', Finish,
         UNCHANGED <<feedVars, bookVars, sessionVars, wireVars, last_epoch, seed_epoch, md>>,
         fetch' \in {"none", "failed", "ok"}, fetch' = fetch \/ fetch' = "failed",
         phase = "fetch" => fetch' = "failed", phase # "replay",
         snaps' \in Seq(UpdateId),
         ob_rows' \in Seq([type: {"D", "S", "T"}, id: UpdateId, top: Book]),
         RowsFaithful',
         started => LastRowIs(ob_rows', last_update_id)
  PROVE  CInv'
<1> USE DEF CInv, feedVars, bookVars, sessionVars, wireVars, Finish
<1>1. Session!TypeOK'
  BY SameTypesNext DEF SP!IInv
<1>2. NoFrame \in [kind: Kinds, ev: DepthEvent] /\ NoFrame.kind = "None"
  BY DepthAssumption DEF NoFrame, NoEvent, Kinds, DepthEvent, UpdateId
<1>3. TypeOK'
  BY <1>1, <1>2 DEF TypeOK
<1> QED
  BY <1>2, <1>3
  DEF WireGood, PhaseOK, SeedOK, FrameAudited, BufferOfOneEpoch, Recorded, LastRowIs, Refused


-----------------------------------------------------------------------------
(* One lemma per group of actions.                                         *)

(* The exchange and the network.                                           *)
LEMMA NetworkInv ==
  ASSUME CInv, SP!IInv', SendDiff \/ SendMangled \/ SendOther \/ Reconnect
  PROVE  CInv'
<1> USE DEF CInv
<1>e. NoEvent \in DepthEvent /\ cut \in UpdateId /\ noise \in 0..MaxNoise
  BY DepthAssumption, SessionTypes DEF NoEvent, DepthEvent, UpdateId, TypeOK
<1>1. CASE SendDiff
  <2>1. PICK U \in UpdateId, u \in UpdateId :
             PublishDiff(U, u) /\ Send("Diff", [U |-> U, u |-> u, pu |-> cut])
    BY <1>1 DEF SendDiff
  <2> DEFINE ev == [U |-> U, u |-> u, pu |-> cut]
             f == [kind |-> "Diff", ev |-> ev]
  <2>2. f \in [kind: Kinds, ev: DepthEvent] /\ f.kind = "Diff" /\ f.ev = ev
    BY <1>e DEF Kinds, DepthEvent
  <2>3. wire' = Append(wire, f)
    BY <2>1 DEF Send
  <2>4. published' = published \cup {ev} /\ hist' = hist
    BY <2>1 DEF PublishDiff
  <2>5. UNCHANGED <<bookVars, sessionVars, epoch, conn_seq, handlerVars, rowVars>> /\ noise' = noise
    BY <1>1 DEF SendDiff
  <2> HIDE DEF f, ev, CInv
  <2>6. f.ev \in published' /\ published \subseteq published'
    BY <2>2, <2>4
  <2> QED
    BY <1>e, <2>2, <2>3, <2>4, <2>5, <2>6, SendInv
<1>2. CASE SendMangled
  <2>1. PICK U \in UpdateId, u \in UpdateId, kind \in {"Garbage", "Unparsed"} :
             PublishDiff(U, u) /\ Send(kind, NoEvent)
    BY <1>2 DEF SendMangled
  <2> DEFINE f == [kind |-> kind, ev |-> NoEvent]
  <2>2. f \in [kind: Kinds, ev: DepthEvent] /\ f.kind # "Diff"
    BY <1>e DEF Kinds
  <2>3. wire' = Append(wire, f)
    BY <2>1 DEF Send
  <2>4. published \subseteq published' /\ hist' = hist
    BY <2>1 DEF PublishDiff
  <2>5. UNCHANGED <<bookVars, sessionVars, epoch, conn_seq, handlerVars, rowVars>>
    BY <1>2 DEF SendMangled
  <2>6. noise' \in 0..MaxNoise
    BY <1>2, <1>e, CaptureAssumption DEF SendMangled
  <2> HIDE DEF f, CInv
  <2> QED
    BY <2>2, <2>3, <2>4, <2>5, <2>6, SendInv
<1>3. CASE SendOther
  <2>1. PICK other \in [kind: {"Depth5"}, u: UpdateId] \cup {[kind |-> "Trade", u |-> 0]} :
             Send(other.kind, [NoEvent EXCEPT !.u = other.u])
    BY <1>3 DEF SendOther
  <2> DEFINE f == [kind |-> other.kind, ev |-> [NoEvent EXCEPT !.u = other.u]]
  <2>2. other.kind \in {"Depth5", "Trade"} /\ other.u \in UpdateId
    BY DepthAssumption DEF UpdateId
  <2>3. f \in [kind: Kinds, ev: DepthEvent] /\ f.kind # "Diff"
    BY <1>e, <2>2 DEF Kinds, DepthEvent
  <2>4. wire' = Append(wire, f)
    BY <2>1 DEF Send
  <2>5. UNCHANGED <<feedVars, bookVars, sessionVars, epoch, conn_seq, handlerVars, rowVars>>
    BY <1>3 DEF SendOther
  <2>6. noise' \in 0..MaxNoise
    BY <1>3, <1>e, CaptureAssumption DEF SendOther
  <2>7. published \subseteq published' /\ hist' = hist
    BY <2>5 DEF feedVars
  <2> HIDE DEF f, CInv
  <2> QED
    BY <2>3, <2>4, <2>5, <2>6, <2>7, SendInv
<1>4. CASE Reconnect
  <2>1. Session!TypeOK'
    BY SameTypesNext DEF SP!IInv
  <2>2. /\ wire' = <<>> /\ wire' \in Seq([kind: Kinds, ev: DepthEvent])
        /\ DOMAIN wire' = {} /\ phase = "idle" /\ epoch' \in 0..MaxEpoch
    BY <1>4, CaptureAssumption DEF Reconnect, TypeOK
  <2>3. UNCHANGED <<feedVars, bookVars, sessionVars, noise, handlerVars, rowVars>> /\ conn_seq' = 0
    BY <1>4 DEF Reconnect
  <2>4. TypeOK'
    BY <2>1, <2>2, <2>3 DEF TypeOK, handlerVars, rowVars
  <2> QED
    BY <2>2, <2>3, <2>4
    DEF feedVars, bookVars, sessionVars, handlerVars, rowVars, WireGood, PhaseOK, SeedOK,
        FrameAudited, BufferOfOneEpoch, RowsFaithful, Recorded, LastRowIs, Refused
<1> QED
  BY <1>1, <1>2, <1>3, <1>4

(* Reading a frame: it gets its audit row before anything else happens.    *)
LEMMA ReadInv ==
  ASSUME CInv, SP!IInv', ReadGarbage \/ ReadFrame
  PROVE  CInv'
<1> USE DEF CInv
<1> DEFINE Audit == [kind: Kinds, ev: DepthEvent, epoch: 0..MaxEpoch, seq: Nat]
<1>r. Read
  BY DEF ReadGarbage, ReadFrame
<1>t. Session!TypeOK'
  BY SameTypesNext DEF SP!IInv
<1>u. /\ UNCHANGED <<feedVars, bookVars, sessionVars, epoch, noise, last_epoch, fetch, seed_epoch,
                     snaps, ob_rows>>
      /\ phase = "idle" /\ conn_seq' \in Nat
  BY <1>r DEF Read, TypeOK
<1>w. wire \in Seq([kind: Kinds, ev: DepthEvent]) /\ wire # <<>> /\ md \in Seq(Audit)
  BY <1>r DEF Read, TypeOK
<1>h. /\ Head(wire) \in [kind: Kinds, ev: DepthEvent]
      /\ Head(wire).kind = "Diff" => Head(wire).ev \in published
      /\ wire' \in Seq([kind: Kinds, ev: DepthEvent])
      /\ \A i \in DOMAIN wire' : i + 1 \in DOMAIN wire /\ wire'[i] = wire[i + 1]
  <2> DEFINE Frame == [kind: Kinds, ev: DepthEvent]
  <2>1. wire' = Tail(wire) /\ \A i \in DOMAIN wire : wire[i].kind = "Diff" => wire[i].ev \in published
    BY <1>r DEF Read, WireGood
  <2> HIDE DEF Frame, CInv
  <2>2. wire \in Seq(Frame) /\ wire # <<>>
    BY <1>w DEF Frame
  <2>3. /\ 1 \in DOMAIN wire /\ Head(wire) = wire[1] /\ Head(wire) \in Frame
        /\ Tail(wire) \in Seq(Frame)
        /\ \A i \in DOMAIN Tail(wire) : i + 1 \in DOMAIN wire /\ Tail(wire)[i] = wire[i + 1]
    BY <2>2
  <2> QED BY <2>1, <2>3 DEF Frame
<1>m. /\ md' \in Seq(Audit)
      /\ \A j \in DOMAIN md : j \in DOMAIN md' /\ md'[j] = md[j]
      /\ phase' # "idle" =>
           \E j \in DOMAIN md' : md'[j].epoch = epoch /\ md'[j].ev = frame'.ev
  <2>1. CASE ReadGarbage
    BY <1>u, <1>w, <2>1 DEF ReadGarbage
  <2>2. CASE ReadFrame
    <3> DEFINE row == AuditRow(Head(wire), epoch, conn_seq')
    <3>1. row \in Audit /\ row.epoch = epoch /\ row.ev = Head(wire).ev
      BY <1>h, <1>u DEF AuditRow, TypeOK
    <3>2. md' = Append(md, row)
      BY <2>2 DEF ReadFrame
    <3> HIDE DEF row
    <3>3. /\ md' \in Seq(Audit) /\ Len(md) + 1 \in DOMAIN md' /\ md'[Len(md) + 1] = row
          /\ \A j \in DOMAIN md : j \in DOMAIN md' /\ md'[j] = md[j]
      BY <1>w, <3>1, <3>2
    <3>4. phase' # "idle" => frame' = Head(wire)
      BY <1>u, <2>2 DEF ReadFrame
    <3> QED BY <3>1, <3>3, <3>4
  <2> QED BY <2>1, <2>2
<1>f. /\ frame' = frame \/ frame' = Head(wire)
      /\ phase' \in {"idle", "dispatch"}
  BY <1>u DEF ReadGarbage, ReadFrame
<1>1. TypeOK'
  BY <1>t, <1>u, <1>h, <1>m, <1>f DEF TypeOK
<1>2. WireGood'
  BY <1>h, <1>f, <1>u DEF WireGood, feedVars
<1>3. PhaseOK' /\ SeedOK' /\ FrameAudited'
  BY <1>f, <1>u, <1>m DEF PhaseOK, SeedOK, FrameAudited, bookVars, sessionVars
<1>4. BufferOfOneEpoch'
  BY <1>u, <1>m DEF BufferOfOneEpoch, sessionVars
<1>5. RowsFaithful' /\ Recorded' /\ Refused'
  BY <1>f, <1>u DEF RowsFaithful, Recorded, LastRowIs, Refused, feedVars, bookVars, sessionVars
<1> QED
  BY <1>1, <1>2, <1>3, <1>4, <1>5

(* The epoch check: the book and the buffer of an older connection go.     *)
LEMMA NewEpochInv ==
  ASSUME CInv, SP!IInv', NewEpoch
  PROVE  CInv'
<1> USE DEF CInv
<1>t. Session!TypeOK'
  BY SameTypesNext DEF SP!IInv
<1>u. /\ UNCHANGED <<wireVars, phase, frame, fetch, seed_epoch, rowVars>>
      /\ phase = "dispatch" /\ last_epoch' = epoch /\ epoch \in 0..MaxEpoch /\ epoch # NoEpoch
  BY CaptureAssumption DEF NewEpoch, TypeOK, NoEpoch
<1>s. UNCHANGED <<feedVars, replaying>> /\ ~initialized' /\ buffer' = <<>>
  BY DEF NewEpoch, Session!request_resync, Session!reset, Session!feedVars, feedVars,
         bookVars, sessionVars, SeedOK
<1>r. started' => started /\ last_update_id' = last_update_id
  BY DEF NewEpoch, Session!request_resync, Session!reset, bookVars
<1>1. TypeOK'
  BY <1>t, <1>u, CaptureAssumption DEF TypeOK, NoEpoch, wireVars, rowVars
<1>2. WireGood' /\ FrameAudited' /\ RowsFaithful'
  BY <1>u, <1>s DEF WireGood, FrameAudited, RowsFaithful, feedVars, wireVars, rowVars
<1>3. PhaseOK' /\ SeedOK' /\ BufferOfOneEpoch' /\ Refused'
  BY <1>u, <1>s DEF PhaseOK, SeedOK, BufferOfOneEpoch, Refused, wireVars, rowVars, NoEpoch
<1>4. Recorded'
  BY <1>u, <1>r DEF Recorded, LastRowIs, rowVars
<1> QED
  BY <1>1, <1>2, <1>3, <1>4

(* A diff is handed to the session.                                        *)
LEMMA HandleDiffInv ==
  ASSUME CInv, SP!IInv', HandleDiff
  PROVE  CInv'
<1> USE DEF CInv
<1>t. Session!TypeOK'
  BY SameTypesNext DEF SP!IInv
<1>e. frame.ev \in DepthEvent /\ Session!on_diff(frame.ev)
  BY DEF HandleDiff, TypeOK
<1>u. /\ UNCHANGED <<wireVars, last_epoch, seed_epoch, rowVars>> /\ fetch' = "none"
      /\ phase = "dispatch" /\ last_epoch = epoch /\ frame.kind = "Diff"
      /\ epoch # NoEpoch /\ ~replaying
  BY CaptureAssumption DEF HandleDiff, Dispatch, TypeOK, NoEpoch, PhaseOK
<1>n. NoFrame \in [kind: Kinds, ev: DepthEvent] /\ NoFrame.kind = "None"
  BY DepthAssumption DEF NoFrame, NoEvent, Kinds, DepthEvent, UpdateId
<1>d. /\ UNCHANGED <<hist, cut, published, replaying>>
      /\ initialized' => initialized
      /\ \A i \in DOMAIN buffer' :
           buffer'[i] = frame.ev \/ \E j \in DOMAIN buffer : buffer'[i] = buffer[j]
      /\ IF DiffApplied THEN initialized' /\ ~resync_pending'
         ELSE started' => started /\ last_update_id' = last_update_id
  <2> HIDE DEF CInv
  <2> QED BY <1>e, OnDiff DEF DiffApplied
<1>p. \/ DiffApplied /\ phase' = "emit" /\ frame' = frame
      \/ ~DiffApplied /\ resync_pending' /\ phase' = "fetch" /\ frame' = frame
      \/ ~DiffApplied /\ ~resync_pending' /\ phase' = "idle" /\ frame' = NoFrame
  BY DEF HandleDiff, Finish
<1>1. TypeOK'
  BY <1>t, <1>u, <1>n, <1>p DEF TypeOK, wireVars, rowVars
<1>2. WireGood' /\ FrameAudited' /\ RowsFaithful'
  BY <1>u, <1>d, <1>n, <1>p DEF WireGood, FrameAudited, RowsFaithful, wireVars, rowVars
<1>3. PhaseOK'
  BY <1>u, <1>d, <1>p DEF PhaseOK, Session!Ready, wireVars
<1>4. SeedOK' /\ Refused'
  BY <1>u, <1>d, <1>p DEF SeedOK, Refused
<1>5. BufferOfOneEpoch'
  <2>1. \E j \in DOMAIN md : md[j].epoch = last_epoch /\ md[j].ev = frame.ev
    BY <1>u DEF FrameAudited
  <2> QED
    BY <1>u, <1>d, <2>1 DEF BufferOfOneEpoch, rowVars
<1>6. Recorded'
  <2>1. \A id : LastRowIs(ob_rows', id) <=> LastRowIs(ob_rows, id)
    BY <1>u DEF LastRowIs, rowVars
  <2> QED
    BY <1>u, <1>d, <1>p, <2>1 DEF Recorded
<1> QED
  BY <1>1, <1>2, <1>3, <1>4, <1>5, <1>6

(* The rest of the handler, and a REST request that fails.                 *)
LEMMA FinishesInv ==
  ASSUME CInv, SP!IInv', HandleTrade \/ HandleDepth5 \/ EmitRow \/ FetchFails
  PROVE  CInv'
<1> DEFINE RowSet == [type: {"D", "S", "T"}, id: UpdateId, top: Book]
<1>t. /\ hist \in [UpdateId -> Book] /\ last_update_id \in UpdateId /\ levels \in Book
      /\ initialized => levels = hist[last_update_id]
      /\ started \in BOOLEAN
  BY SessionTypes DEF CInv, SP!IInv, SP!BookFaithful
<1>c. /\ phase = "dispatch" /\ started => LastRowIs(ob_rows, last_update_id)
      /\ snaps \in Seq(UpdateId) /\ ob_rows \in Seq(RowSet)
      /\ fetch \in {"none", "failed", "ok"} /\ RowsFaithful
      /\ frame.ev.u \in UpdateId
  BY DEF CInv, Recorded, TypeOK, DepthEvent
<1>1. CASE HandleTrade /\ ~IntegrateTrades
  <2>1. /\ UNCHANGED <<feedVars, bookVars, sessionVars, wireVars, last_epoch, fetch, seed_epoch, rowVars>>
        /\ Finish /\ phase = "dispatch"
    BY <1>1 DEF HandleTrade, Dispatch
  <2>2. RowsFaithful' /\ (started => LastRowIs(ob_rows', last_update_id))
    BY <1>c, <2>1 DEF RowsFaithful, LastRowIs, feedVars, bookVars, rowVars
  <2> QED
    BY <1>c, <2>1, <2>2, FinishInv DEF rowVars
<1>2. CASE HandleTrade /\ IntegrateTrades
  <2>1. /\ UNCHANGED <<feedVars, bookVars, sessionVars, wireVars, last_epoch, fetch, seed_epoch, rowVars, frame>>
        /\ phase = "dispatch" /\ phase' = "emit" /\ last_epoch = epoch /\ frame.kind = "Trade"
    BY <1>2 DEF HandleTrade, Dispatch
  <2>2. Session!TypeOK'
    BY SameTypesNext DEF SP!IInv
  <2> USE DEF CInv, feedVars, bookVars, sessionVars, wireVars, rowVars
  <2>3. TypeOK' /\ WireGood' /\ FrameAudited' /\ RowsFaithful'
    BY <2>1, <2>2 DEF TypeOK, WireGood, FrameAudited, RowsFaithful
  <2> QED
    BY <2>1, <2>3 DEF PhaseOK, SeedOK, BufferOfOneEpoch, Recorded, LastRowIs, Refused
<1>3. CASE HandleDepth5
  <2>1. /\ UNCHANGED <<feedVars, bookVars, sessionVars, wireVars, last_epoch, fetch, seed_epoch, md, snaps>>
        /\ Finish /\ phase = "dispatch"
        /\ ob_rows' = Append(ob_rows, Row("S", frame.ev.u, Partial(hist[frame.ev.u])))
    BY <1>3 DEF HandleDepth5, Dispatch
  <2> DEFINE row == Row("S", frame.ev.u, Partial(hist[frame.ev.u]))
  <2>2. Partial(hist[frame.ev.u]) \in Book
    BY <1>t, <1>c, DepthAssumption DEF Partial, Book
  <2>3. row \in RowSet /\ row.type = "S" /\ ob_rows' = Append(ob_rows, row) /\ hist' = hist
    BY <1>c, <2>1, <2>2 DEF Row, feedVars
  <2> HIDE DEF row
  <2>4. /\ RowsFaithful' /\ ob_rows' \in Seq(RowSet)
        /\ LastRowIs(ob_rows, last_update_id) => LastRowIs(ob_rows', last_update_id)
    BY <1>t, <2>1, <2>3, AppendRow DEF bookVars
  <2> QED
    BY <1>c, <2>1, <2>4, FinishInv
<1>4. CASE EmitRow
  <2>1. /\ UNCHANGED <<feedVars, bookVars, sessionVars, wireVars, last_epoch, fetch, seed_epoch, md, snaps>>
        /\ Finish /\ phase = "emit" /\ hist' = hist /\ last_update_id' = last_update_id
    BY <1>4 DEF EmitRow, feedVars, bookVars
  <2>2. /\ frame.kind = "Diff" => Session!Ready
        /\ frame.kind # "Diff" /\ started => LastRowIs(ob_rows, last_update_id)
    BY <2>1 DEF CInv, PhaseOK, Recorded
  <2>3. CASE Session!Ready
    <3> DEFINE row == Row(IF frame.kind = "Diff" THEN "D" ELSE "T", last_update_id, levels)
    <3>1. /\ row \in RowSet /\ row.id = last_update_id /\ row.top = hist[row.id]
          /\ row.type = IF frame.kind = "Diff" THEN "D" ELSE "T"
      BY <1>t, <2>3 DEF Row, Session!Ready
    <3>2. ob_rows' = Append(ob_rows, row)
      BY <1>4, <2>3 DEF EmitRow
    <3> HIDE DEF row
    <3>3. /\ RowsFaithful' /\ ob_rows' \in Seq(RowSet)
          /\ row.type = "D" => LastRowIs(ob_rows', row.id)
          /\ row.type # "D" /\ LastRowIs(ob_rows, last_update_id) => LastRowIs(ob_rows', last_update_id)
      BY <1>t, <2>1, <3>1, <3>2, AppendRow
    <3>4. started => LastRowIs(ob_rows', last_update_id)
      BY <2>1, <2>2, <3>1, <3>3
    <3> QED
      BY <1>c, <2>1, <3>3, <3>4, FinishInv
  <2>4. CASE ~Session!Ready
    <3>1. ob_rows' = ob_rows /\ frame.kind # "Diff"
      BY <1>4, <2>2, <2>4 DEF EmitRow
    <3>2. RowsFaithful' /\ (started => LastRowIs(ob_rows', last_update_id))
      BY <1>c, <2>1, <2>2, <3>1 DEF RowsFaithful, LastRowIs
    <3> QED
      BY <1>c, <2>1, <3>1, <3>2, FinishInv
  <2> QED BY <2>3, <2>4
<1>5. CASE FetchFails
  <2>1. /\ UNCHANGED <<feedVars, bookVars, sessionVars, wireVars, last_epoch, seed_epoch, rowVars>>
        /\ Finish /\ phase = "fetch" /\ fetch' = "failed"
    BY <1>5 DEF FetchFails
  <2>2. RowsFaithful' /\ (started => LastRowIs(ob_rows', last_update_id))
    BY <1>c, <2>1 DEF CInv, Recorded, RowsFaithful, LastRowIs, feedVars, bookVars, rowVars
  <2> QED
    BY <1>c, <2>1, <2>2, FinishInv DEF rowVars
<1> QED
  BY <1>1, <1>2, <1>3, <1>4, <1>5

(* The resync: on_snapshot, the iterations of its loop, and its end.       *)
LEMMA ResyncInv ==
  ASSUME CInv, SP!IInv', FetchSucceeds \/ ReplayDrop \/ ReplayApply \/ ReplayEnd
  PROVE  CInv'
<1> DEFINE RowSet == [type: {"D", "S", "T"}, id: UpdateId, top: Book]
<1>t. Session!TypeOK'
  BY SameTypesNext DEF SP!IInv
<1>n. NoFrame \in [kind: Kinds, ev: DepthEvent] /\ NoFrame.kind = "None"
  BY DepthAssumption DEF NoFrame, NoEvent, Kinds, DepthEvent, UpdateId
<1>b. /\ buffer \in Seq(DepthEvent) /\ snap_id \in UpdateId
      /\ replaying => initialized
      /\ \A b : b = Tail(buffer) /\ buffer # <<>> =>
             \A i \in DOMAIN b : \E j \in DOMAIN buffer : b[i] = buffer[j]
  <2>1. buffer \in Seq(DepthEvent) /\ snap_id \in UpdateId /\ (replaying => initialized)
    BY SessionTypes DEF CInv, SP!IInv, SP!ReplayState, SP!DrainedWhenLive
  <2>2. buffer # <<>> =>
          \A i \in DOMAIN Tail(buffer) : i + 1 \in DOMAIN buffer /\ Tail(buffer)[i] = buffer[i + 1]
    BY <2>1
  <2> QED BY <2>1, <2>2
<1>1. CASE FetchSucceeds
  <2>1. PICK s \in UpdateId : Session!on_snapshot(hist[s], s)
    BY <1>1 DEF FetchSucceeds
  <2>2. /\ UNCHANGED <<hist, cut, published, buffer>> /\ initialized' /\ ~started'
        /\ ~resync_pending' /\ replaying'
    BY <2>1 DEF Session!on_snapshot, Session!set_snapshot, Session!feedVars
  <2>3. /\ UNCHANGED <<wireVars, last_epoch, frame, rowVars>> /\ phase = "fetch"
        /\ fetch' = "ok" /\ seed_epoch' = epoch /\ phase' = "replay" /\ last_epoch = epoch
    BY <1>1 DEF FetchSucceeds, CInv, PhaseOK
  <2>4. epoch # NoEpoch /\ epoch \in 0..NoEpoch
    BY CaptureAssumption DEF CInv, TypeOK, NoEpoch
  <2> USE DEF CInv, wireVars, rowVars
  <2>5. TypeOK'
    BY <1>t, <2>3, <2>4 DEF TypeOK
  <2> QED
    BY <2>2, <2>3, <2>4, <2>5
    DEF WireGood, PhaseOK, SeedOK, FrameAudited, BufferOfOneEpoch, RowsFaithful, Recorded, Refused, NoEpoch
<1>2. CASE ReplayDrop
  <2>1. UNCHANGED <<wireVars, handlerVars, rowVars>> /\ Session!ReplayDrop
    BY <1>2 DEF ReplayDrop
  <2>2. /\ UNCHANGED <<hist, cut, published, initialized, last_update_id, started, resync_pending, replaying>>
        /\ replaying /\ buffer # <<>> /\ buffer' = Tail(buffer)
    BY <2>1 DEF Session!ReplayDrop, Session!feedVars, Session!bookVars
  <2>3. \A i \in DOMAIN buffer' : \E j \in DOMAIN buffer : buffer'[i] = buffer[j]
    BY <1>b, <2>2
  <2>4. Session!Ready' <=> Session!Ready
    BY <2>2 DEF Session!Ready
  <2> USE DEF CInv, wireVars, handlerVars, rowVars
  <2>5. TypeOK' /\ WireGood' /\ FrameAudited' /\ RowsFaithful' /\ PhaseOK'
    BY <1>t, <2>1, <2>2, <2>4 DEF TypeOK, WireGood, FrameAudited, RowsFaithful, PhaseOK
  <2>6. BufferOfOneEpoch'
    BY <2>1, <2>3 DEF BufferOfOneEpoch
  <2>7. SeedOK' /\ Recorded' /\ Refused'
    BY <1>b, <2>1, <2>2 DEF SeedOK, Recorded, LastRowIs, Refused
  <2> QED BY <2>5, <2>6, <2>7
<1>3. CASE ReplayApply
  <2>1. /\ UNCHANGED <<wireVars, handlerVars, md, snaps>> /\ Session!ReplayApply
        /\ ob_rows' = Append(ob_rows, Row("D", last_update_id', levels'))
    BY <1>3 DEF ReplayApply
  <2>2. /\ UNCHANGED <<hist, cut, published, initialized, resync_pending, replaying>>
        /\ replaying /\ buffer # <<>> /\ buffer' = Tail(buffer)
    BY <2>1 DEF Session!ReplayApply, Session!AcceptDiff, Session!feedVars
  <2>3. \A i \in DOMAIN buffer' : \E j \in DOMAIN buffer : buffer'[i] = buffer[j]
    BY <1>b, <2>2
  <2>4. last_update_id' \in UpdateId /\ levels' \in Book /\ levels' = hist[last_update_id']
    BY <1>b, <2>2
    DEF SP!IInv, SP!TypeOK, SP!BookTypeOK, SP!BookFaithful, SP!UpdateId, SP!Book, UpdateId, Book
  <2> DEFINE row == Row("D", last_update_id', levels')
  <2>5. row \in RowSet /\ row.type = "D" /\ row.id = last_update_id' /\ row.top = hist[row.id]
    BY <2>4 DEF Row
  <2>6. ob_rows' = Append(ob_rows, row)
    BY <2>1
  <2> HIDE DEF row
  <2>7. RowsFaithful' /\ ob_rows' \in Seq(RowSet) /\ LastRowIs(ob_rows', row.id)
    BY <2>2, <2>5, <2>6, AppendRow
  <2>8. Session!Ready' <=> Session!Ready
    BY <2>2 DEF Session!Ready
  <2> USE DEF CInv, wireVars, handlerVars
  <2>9. TypeOK' /\ WireGood' /\ FrameAudited' /\ PhaseOK'
    BY <1>t, <2>1, <2>2, <2>7, <2>8 DEF TypeOK, WireGood, FrameAudited, PhaseOK
  <2>10. BufferOfOneEpoch'
    BY <2>1, <2>3 DEF BufferOfOneEpoch
  <2>11. SeedOK' /\ Refused'
    BY <1>b, <2>1, <2>2 DEF SeedOK, Refused
  <2>12. Recorded'
    BY <2>5, <2>7 DEF Recorded, LastRowIs
  <2> QED BY <2>7, <2>9, <2>10, <2>11, <2>12
<1>4. CASE ReplayEnd
  <2>1. /\ UNCHANGED <<wireVars, last_epoch, fetch, seed_epoch, md, ob_rows>>
        /\ phase' = "idle" /\ frame' = NoFrame /\ snaps' = Append(snaps, snap_id)
    BY <1>4 DEF ReplayEnd, Finish
  <2>2. /\ UNCHANGED <<hist, cut, published, initialized, last_update_id, started, buffer>>
        /\ replaying /\ ~replaying'
    BY <1>4 DEF ReplayEnd, Session!ReplayGap, Session!ReplayDone, Session!feedVars, Session!bookVars
  <2>3. phase = "replay" /\ snaps \in Seq(UpdateId)
    BY <2>2 DEF CInv, PhaseOK, TypeOK
  <2>4. snaps' \in Seq(UpdateId)
    BY <1>b, <2>1, <2>3
  <2> USE DEF CInv, wireVars
  <2>5. TypeOK' /\ WireGood' /\ FrameAudited' /\ RowsFaithful' /\ PhaseOK'
    BY <1>t, <1>n, <2>1, <2>2, <2>4 DEF TypeOK, WireGood, FrameAudited, RowsFaithful, PhaseOK
  <2>6. BufferOfOneEpoch' /\ SeedOK'
    BY <1>b, <2>1, <2>2 DEF BufferOfOneEpoch, SeedOK
  <2>7. Refused'
    <3>1. initialized /\ fetch = "ok"
      BY <2>2, <2>3 DEF Refused, SP!IInv, SP!ReplayState, SP!DrainedWhenLive
    <3> QED BY <2>1, <2>2, <3>1 DEF Refused
  <2>8. Recorded'
    BY <2>1, <2>2, <2>3 DEF Recorded, LastRowIs
  <2> QED BY <2>5, <2>6, <2>7, <2>8
<1> QED
  BY <1>1, <1>2, <1>3, <1>4

-----------------------------------------------------------------------------

(* A symbol that has received nothing satisfies the invariant.             *)
LEMMA CaptureInit == Init => CInv
<1> SUFFICES ASSUME Init PROVE CInv
  OBVIOUS
<1>1. SP!IInv
  BY SameInit, SP!InitInv, DepthAssumption, SessionAssumed DEF Init
<1>2. Session!TypeOK
  BY <1>1, SameTypes DEF SP!IInv
<1>3. /\ resync_pending = TRUE /\ buffer = <<>> /\ DOMAIN buffer = {} /\ ~replaying
      /\ ~initialized /\ ~started
  BY DEF Init, Session!Init, Session!BookInit
<1>4. NoFrame \in [kind: Kinds, ev: DepthEvent] /\ NoFrame.kind = "None"
  BY DepthAssumption DEF NoFrame, NoEvent, Kinds, DepthEvent, UpdateId
<1>5. TypeOK
  BY <1>2, <1>4, CaptureAssumption DEF Init, TypeOK, NoEpoch
<1>6. WireGood /\ PhaseOK /\ SeedOK /\ FrameAudited
  BY <1>3, <1>4 DEF Init, WireGood, PhaseOK, SeedOK, FrameAudited
<1>7. BufferOfOneEpoch /\ RowsFaithful /\ Recorded /\ Refused
  BY <1>3 DEF Init, BufferOfOneEpoch, RowsFaithful, Recorded, Refused
<1> QED
  BY <1>1, <1>5, <1>6, <1>7 DEF CInv

(* Every step keeps it.                                                    *)
LEMMA CaptureNext == CInv /\ [Next]_vars => CInv'
<1> SUFFICES ASSUME CInv, [Next]_vars PROVE CInv'
  OBVIOUS
<1>1. SP!IInv'
  BY SessionInv
<1>2. CASE SendDiff \/ SendMangled \/ SendOther \/ Reconnect
  BY <1>1, <1>2, NetworkInv
<1>3. CASE ReadGarbage \/ ReadFrame
  BY <1>1, <1>3, ReadInv
<1>4. CASE NewEpoch
  BY <1>1, <1>4, NewEpochInv
<1>5. CASE HandleDiff
  BY <1>1, <1>5, HandleDiffInv
<1>6. CASE HandleTrade \/ HandleDepth5 \/ EmitRow \/ FetchFails
  BY <1>1, <1>6, FinishesInv
<1>7. CASE FetchSucceeds \/ ReplayDrop \/ ReplayApply \/ ReplayEnd
  BY <1>1, <1>7, ResyncInv
<1>8. CASE UNCHANGED vars
  <2> USE <1>8 DEF vars, feedVars, bookVars, sessionVars, wireVars, handlerVars, rowVars
  <2>1. Session!TypeOK'
    BY <1>1, SameTypesNext DEF SP!IInv
  <2>2. TypeOK'
    BY <2>1 DEF CInv, TypeOK
  <2>3. Session!Ready' <=> Session!Ready
    BY DEF Session!Ready
  <2> QED
    BY <1>1, <2>2, <2>3
    DEF CInv, WireGood, PhaseOK, SeedOK, FrameAudited, BufferOfOneEpoch, RowsFaithful,
        Recorded, Refused
<1> QED
  BY <1>2, <1>3, <1>4, <1>5, <1>6, <1>7, <1>8 DEF Next, handler, fetch_snapshot

(* The inductive invariant of a shard's symbol.                            *)
THEOREM CaptureInvariant == Spec => []CInv
BY CaptureInit, CaptureNext, PTL DEF Spec

(* Types are kept by every step of the handler and its surroundings.       *)
THEOREM CaptureTypeCorrect == Spec => []TypeOK
<1>1. CInv => TypeOK
  BY DEF CInv
<1> QED
  BY <1>1, CaptureInvariant, PTL

(* The handler implements the callers BookSession assumes: run_shard hands *)
(* the session published diffs, gives it a snapshot only while it waits    *)
(* for one, and never enters it from its own on_applied callback.          *)
THEOREM HandlerUsesSession == Spec => UsesSession
<1>1. Init => Session!Init
  BY DEF Init
<1>2. CInv /\ [Next]_vars => [Session!Next]_(Session!vars)
  BY SessionStep
<1> QED
  BY <1>1, <1>2, CaptureInvariant, PTL DEF Spec, UsesSession

(* Every D and T row run_shard writes shows the exchange's book at the     *)
(* row's update id.                                                        *)
THEOREM RowsAreFaithful == Spec => []RowsFaithful
<1>1. CInv => RowsFaithful
  BY DEF CInv
<1> QED
  BY <1>1, CaptureInvariant, PTL

(* No diff of an older connection survives the epoch check in the buffer.  *)
THEOREM BufferIsOfOneEpoch == Spec => []BufferOfOneEpoch
<1>1. CInv => BufferOfOneEpoch
  BY DEF CInv
<1> QED
  BY <1>1, CaptureInvariant, PTL

(* Every diff that ends up in the book has its row.                        *)
THEOREM AppliedDiffIsRecorded == Spec => []AppliedIsRecorded
<1>1. CInv => AppliedIsRecorded
  BY DEF CInv, Recorded, LastRowIs, AppliedIsRecorded
<1> QED
  BY <1>1, CaptureInvariant, PTL

(* A row of the book is written only from a book seeded on the frame's own *)
(* connection and, outside of a replay, one that has caught up.            *)
THEOREM BookRowsAreCurrent == Spec => RowsCurrent
<1>1. CInv /\ [Next]_vars =>
        [EmitsBookRow => /\ seed_epoch = epoch
                         /\ phase = "emit" => Session!Ready /\ last_update_id >= seen]_vars
  <2> SUFFICES ASSUME CInv, Next, EmitsBookRow
               PROVE  /\ seed_epoch = epoch
                      /\ phase = "emit" => Session!Ready /\ last_update_id >= seen
    OBVIOUS
  <2>1. \/ EmitRow /\ Session!Ready
        \/ ReplayApply
    <3>1. ob_rows' # ob_rows /\ frame.kind # "Depth5"
      BY DEF EmitsBookRow
    <3> QED
      BY <3>1
      DEF Next, handler, fetch_snapshot, SendDiff, SendMangled, SendOther, Reconnect, ReadGarbage, ReadFrame,
          Read, NewEpoch, HandleDiff, HandleTrade, HandleDepth5, Dispatch, EmitRow,
          FetchFails, FetchSucceeds, ReplayDrop, ReplayEnd, rowVars
  <2>2. CASE EmitRow /\ Session!Ready
    <3>1. phase = "emit" /\ initialized /\ ~resync_pending
      BY <2>2 DEF EmitRow, Session!Ready
    <3>2. seed_epoch = epoch /\ ~replaying
      BY <3>1 DEF CInv, SeedOK, PhaseOK
    <3>3. DOMAIN buffer = {}
      BY <3>1, <3>2 DEF CInv, SP!IInv, SP!DrainedWhenLive
    <3>4. last_update_id >= seen
      BY <3>1, <3>3 DEF CInv, SP!IInv, SP!SeenCovered
    <3> QED BY <2>2, <3>2, <3>4
  <2>3. CASE ReplayApply
    <3>1. replaying
      BY <2>3 DEF ReplayApply, Session!ReplayApply
    <3>2. phase = "replay" /\ initialized /\ last_epoch = epoch
      BY <3>1 DEF CInv, PhaseOK, SP!IInv, SP!ReplayState, SP!DrainedWhenLive
    <3> QED BY <3>2 DEF CInv, SeedOK
  <2> QED BY <2>1, <2>2, <2>3
<1> QED
  BY <1>1, CaptureInvariant, PTL DEF Spec, RowsCurrent

(* On the spot venue a symbol whose handler has returned still waits only  *)
(* because the request of its last diff failed or was answered with a      *)
(* snapshot older than the gap.                                            *)
(* USD-M sessions may also stop on a snapshot that covers the gap.         *)
THEOREM SpotStuckOnlyByRest ==
  ASSUME Venue = "Spot"
  PROVE  Spec => []StuckOnlyByRest
<1>1. CInv => StuckOnlyByRest
  <2> SUFFICES ASSUME CInv, phase = "idle", resync_pending, buffer # <<>>, initialized
               PROVE  last_update_id < Head(buffer).pu
    BY DEF CInv, Refused, StuckOnlyByRest
  <2>1. buffer \in Seq(DepthEvent) /\ last_update_id \in Nat
    BY SessionTypes, DepthAssumption DEF CInv, UpdateId
  <2>2. 1 \in DOMAIN buffer /\ Head(buffer) = buffer[1]
    BY <2>1
  <2>3. buffer[1].U > last_update_id + 1
    BY DEF CInv, SP!IInv, SP!GapHead
  <2>4. buffer[1].U = buffer[1].pu + 1
    BY <2>2 DEF CInv, SP!IInv, SP!GoodBuffer, SP!GoodDiff
  <2>5. buffer[1].pu \in Nat
    <3>1. buffer[1] \in DepthEvent
      BY <2>1, <2>2
    <3> QED BY <3>1, DepthAssumption DEF DepthEvent, UpdateId
  <2> QED BY <2>1, <2>2, <2>3, <2>4, <2>5
<1> QED
  BY <1>1, CaptureInvariant, PTL

=============================================================================
