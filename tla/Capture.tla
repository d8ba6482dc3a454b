------------------------------- MODULE Capture ------------------------------
(***************************************************************************)
(* One symbol of a shard (src/src/main.cpp, run_shard): the handler called *)
(* for every frame of the connection, the resync it runs inline, and the   *)
(* rows it writes.                                                         *)
(*                                                                         *)
(* The shard is one thread: a frame is handled to its end, REST request    *)
(* included, before the next is read.  phase says how far the handler is;  *)
(* meanwhile the exchange goes on publishing.  A connection delivers its   *)
(* frames in order, and what it had not delivered when it broke is lost.   *)
(* The session's operations are those of BookSession.                      *)
(***************************************************************************)
EXTENDS DepthFeed, FiniteSets, Sequences

CONSTANTS
  KTop,              \* levels of a depth5 frame (five)
  KMaxBuffer,        \* kMaxBuffer of the session
  MaxOverflows,      \* bound on the session's overflows_
  IntegrateTrades,   \* cfg.integrate_trades
  MaxEpoch,          \* bound on reconnects
  MaxNoise           \* bound on frames other than well-formed diffs

ASSUME CaptureAssumption ==
  /\ Key \subseteq Nat
  /\ KTop \in Nat \ {0}
  /\ KMaxBuffer \in Nat \ {0}
  /\ MaxOverflows \in Nat
  /\ IntegrateTrades \in BOOLEAN
  /\ MaxEpoch \in Nat
  /\ MaxNoise \in Nat

VARIABLES
  initialized, last_update_id, started, levels,                     \* OrderBook
  resync_pending, overflows, buffer, replaying, snap_id, seen,      \* BookSession
  epoch,         \* conn_epoch of the live connection
  conn_seq,      \* frames read from it
  wire,          \* frames sent on it and not read yet
  noise,         \* how many frames so far were not well-formed diffs
  last_epoch,    \* SymState::last_epoch, NoEpoch for UINT64_MAX
  phase,         \* where the handler is
  frame,         \* the frame it is handling
  fetch,         \* history: how the request of the last diff ended, none without
  seed_epoch,    \* history: the connection on which the book was seeded
  md,            \* the market-data audit rows written (md)
  snaps,         \* the snapshot sidecar rows written (snaps)
  ob_rows        \* the order-book rows written (ob_writer); seqNo is the index

Session == INSTANCE BookSession

bookVars == <<initialized, last_update_id, started, levels>>
sessionVars == <<resync_pending, overflows, buffer, replaying, snap_id, seen>>
wireVars == <<epoch, conn_seq, wire, noise>>
handlerVars == <<last_epoch, phase, frame, fetch, seed_epoch>>
rowVars == <<md, snaps, ob_rows>>
vars == <<feedVars, bookVars, sessionVars, wireVars, handlerVars, rowVars>>

NoEpoch == MaxEpoch + 1

NoEvent == [U |-> 0, u |-> 0, pu |-> 0]

NoFrame == [kind |-> "None", ev |-> NoEvent]

(* Garbage does not split into stream and data; Unparsed is a diff whose   *)
(* data parse_depth rejects; a frame of a symbol the shard does not own    *)
(* fares the same.  classify_stream tells the other three apart.           *)
Kinds == {"None", "Garbage", "Unparsed", "Diff", "Depth5", "Trade"}

Init ==
  /\ Session!Init
  /\ epoch = 0 /\ conn_seq = 0 /\ wire = <<>> /\ noise = 0
  /\ last_epoch = NoEpoch
  /\ phase = "idle" /\ frame = NoFrame
  /\ fetch = "none" /\ seed_epoch = NoEpoch
  /\ md = <<>> /\ snaps = <<>> /\ ob_rows = <<>>

-----------------------------------------------------------------------------
(* The exchange and the network (external).                                *)

Send(kind, ev) == wire' = Append(wire, [kind |-> kind, ev |-> ev])

SendDiff ==
  \E U, u \in UpdateId :
    /\ PublishDiff(U, u)
    /\ Send("Diff", [U |-> U, u |-> u, pu |-> cut])
    /\ UNCHANGED <<bookVars, sessionVars, epoch, conn_seq, noise,
                   handlerVars, rowVars>>

(* A diff that arrives mangled.                                            *)
SendMangled ==
  \E U, u \in UpdateId, kind \in {"Garbage", "Unparsed"} :
    /\ noise < MaxNoise
    /\ noise' = noise + 1
    /\ PublishDiff(U, u)
    /\ Send(kind, NoEvent)
    /\ UNCHANGED <<bookVars, sessionVars, epoch, conn_seq,
                   handlerVars, rowVars>>

(* The partial book of a depth5 frame: the best levels of one side, a key  *)
(* being a bid price here.                                                 *)
Partial(book) ==
  [k \in Key |-> IF Cardinality({j \in Key : j > k /\ book[j] # 0}) < KTop
                 THEN book[k] ELSE 0]

(* A depth5 frame is of any id: its stream is not ordered with the diffs.  *)
SendOther ==
  \E other \in [kind: {"Depth5"}, u: UpdateId] \cup {[kind |-> "Trade", u |-> 0]} :
    /\ noise < MaxNoise
    /\ noise' = noise + 1
    /\ Send(other.kind, [NoEvent EXCEPT !.u = other.u])
    /\ UNCHANGED <<feedVars, bookVars, sessionVars, epoch, conn_seq, handlerVars, rowVars>>

Reconnect ==
  /\ phase = "idle"
  /\ epoch < MaxEpoch
  /\ epoch' = epoch + 1
  /\ conn_seq' = 0
  /\ wire' = <<>>
  /\ UNCHANGED <<feedVars, bookVars, sessionVars, noise, handlerVars, rowVars>>

-----------------------------------------------------------------------------
(* The handler.                                                            *)

Read ==
  /\ phase = "idle"
  /\ wire # <<>>
  /\ wire' = Tail(wire)
  /\ conn_seq' = conn_seq + 1
  /\ UNCHANGED <<feedVars, bookVars, sessionVars, epoch, noise, last_epoch, fetch, seed_epoch, snaps, ob_rows>>

(* The results of split_envelope and parse_depth (trades are not parsed).  *)
split_envelope(f) == f.kind # "Garbage"

parse_depth(f) == f.kind # "Unparsed"

(* The columns of md.write_row that say which frame this is.               *)
AuditRow(f, e, s) == [kind |-> f.kind, ev |-> f.ev, epoch |-> e, seq |-> s]

(* Up to md.write_row: a frame that cannot be split leaves no trace, one   *)
(* that cannot be parsed leaves its audit row only.                        *)
ReadGarbage ==
  /\ Read
  /\ ~split_envelope(Head(wire))
  /\ UNCHANGED <<phase, frame, md>>

ReadFrame ==
  /\ Read
  /\ split_envelope(Head(wire))
  /\ md' = Append(md, AuditRow(Head(wire), epoch, conn_seq'))
  /\ IF parse_depth(Head(wire))
     THEN phase' = "dispatch" /\ frame' = Head(wire)
     ELSE UNCHANGED <<phase, frame>>

Finish ==
  /\ phase' = "idle"
  /\ frame' = NoFrame

NewEpoch_KeepBook ==
  /\ phase = "dispatch"
  /\ last_epoch # epoch
  /\ UNCHANGED <<feedVars, bookVars, sessionVars>>
  /\ last_epoch' = epoch
  /\ UNCHANGED <<wireVars, phase, frame, fetch, seed_epoch, rowVars>>

NewEpoch_Counts ==
  /\ phase = "dispatch"
  /\ last_epoch # epoch
  /\ IF last_epoch # NoEpoch THEN Session!request_resync
     ELSE UNCHANGED <<feedVars, bookVars, sessionVars>>
  /\ last_epoch' = last_epoch + 1
  /\ UNCHANGED <<wireVars, phase, frame, fetch, seed_epoch, rowVars>>

(* The first frame of a new connection drops the book.                     *)
NewEpoch ==
  /\ phase = "dispatch"
  /\ last_epoch # epoch
  /\ IF last_epoch # NoEpoch THEN Session!request_resync ELSE UNCHANGED <<feedVars, bookVars, sessionVars>>
  /\ last_epoch' = epoch
  /\ UNCHANGED <<wireVars, phase, frame, fetch, seed_epoch, rowVars>>

Dispatch(kind) ==
  /\ phase = "dispatch"
  /\ last_epoch = epoch
  /\ frame.kind = kind

DiffApplied == ~resync_pending /\ initialized /\ Session!ApplyResult(frame.ev) = "Applied"

HandleDiff_FetchOnGapOnly ==
  /\ Dispatch("Diff")
  /\ Session!on_diff(frame.ev)
  /\ \/ DiffApplied /\ phase' = "emit" /\ UNCHANGED frame
     \/ ~DiffApplied /\ ~resync_pending /\ resync_pending' /\ phase' = "fetch" /\ UNCHANGED frame
     \/ ~DiffApplied /\ ~(~resync_pending /\ resync_pending') /\ Finish
  /\ fetch' = "none"
  /\ UNCHANGED <<wireVars, last_epoch, seed_epoch, rowVars>>

(* A diff that left the session waiting, because it shows a gap or because *)
(* the session was waiting already, is followed by a REST request.         *)
HandleDiff ==
  /\ Dispatch("Diff")
  /\ Session!on_diff(frame.ev)
  /\ \/ DiffApplied /\ phase' = "emit" /\ UNCHANGED frame
     \/ ~DiffApplied /\ resync_pending' /\ phase' = "fetch" /\ UNCHANGED frame
     \/ ~DiffApplied /\ ~resync_pending' /\ Finish
  /\ fetch' = "none"
  /\ UNCHANGED <<wireVars, last_epoch, seed_epoch, rowVars>>

HandleTrade ==
  /\ Dispatch("Trade")
  /\ IF IntegrateTrades THEN phase' = "emit" /\ UNCHANGED frame ELSE Finish
  /\ UNCHANGED <<feedVars, bookVars, sessionVars, wireVars, last_epoch, fetch, seed_epoch, rowVars>>

(* A row of the order-book file; the top five are those of the book top.   *)
Row(type, id, top) == [type |-> type, id |-> id, top |-> top]

(* A depth5 frame becomes a row of its own, from the frame's levels.       *)
HandleDepth5 ==
  /\ Dispatch("Depth5")
  /\ ob_rows' = Append(ob_rows, Row("S", frame.ev.u, Partial(hist[frame.ev.u])))
  /\ Finish
  /\ UNCHANGED <<feedVars, bookVars, sessionVars, wireVars, last_epoch, fetch, seed_epoch, md, snaps>>

EmitRow_Open ==
  /\ phase = "emit"
  /\ ob_rows' = Append(ob_rows, Row(IF frame.kind = "Diff" THEN "D" ELSE "T",
                                    last_update_id, levels))
  /\ Finish
  /\ UNCHANGED <<feedVars, bookVars, sessionVars, wireVars, last_epoch, fetch, seed_epoch, md, snaps>>

(* The end of the handler: a row, unless the session is not ready.         *)
EmitRow ==
  /\ phase = "emit"
  /\ IF Session!Ready
     THEN ob_rows' = Append(ob_rows, Row(IF frame.kind = "Diff" THEN "D" ELSE "T",
                                         last_update_id, levels))
     ELSE UNCHANGED ob_rows
  /\ Finish
  /\ UNCHANGED <<feedVars, bookVars, sessionVars, wireVars, last_epoch, fetch, seed_epoch, md, snaps>>

-----------------------------------------------------------------------------
(* The resync lambda.  The answer to the REST request may be of any id.    *)

FetchFails ==
  /\ phase = "fetch"
  /\ fetch' = "failed"
  /\ Finish
  /\ UNCHANGED <<feedVars, bookVars, sessionVars, wireVars, last_epoch, seed_epoch, rowVars>>

FetchSucceeds_Unasked ==
  /\ phase \in {"fetch", "emit"}
  /\ \E s \in UpdateId : Session!on_snapshot(hist[s], s)
  /\ fetch' = "ok"
  /\ seed_epoch' = epoch
  /\ phase' = "replay"
  /\ UNCHANGED <<wireVars, last_epoch, frame, rowVars>>

FetchSucceeds ==
  /\ phase = "fetch"
  /\ \E s \in UpdateId : Session!on_snapshot(hist[s], s)
  /\ fetch' = "ok"
  /\ seed_epoch' = epoch
  /\ phase' = "replay"
  /\ UNCHANGED <<wireVars, last_epoch, frame, rowVars>>

ReplayDrop_NoPop ==
  /\ replaying
  /\ buffer # <<>>
  /\ Head(buffer).u <= snap_id
  /\ UNCHANGED vars

(* The loop of on_snapshot; its callback writes a row per applied diff.    *)
ReplayDrop ==
  /\ Session!ReplayDrop
  /\ UNCHANGED <<wireVars, handlerVars, rowVars>>

ReplayApply_RowFirst ==
  /\ Session!ReplayApply
  /\ ob_rows' = Append(ob_rows, Row("D", last_update_id', levels))
  /\ UNCHANGED <<wireVars, handlerVars, md, snaps>>

ReplayApply_NoRow ==
  /\ Session!ReplayApply
  /\ UNCHANGED <<wireVars, handlerVars, rowVars>>

ReplayApply ==
  /\ Session!ReplayApply
  /\ ob_rows' = Append(ob_rows, Row("D", last_update_id', levels'))
  /\ UNCHANGED <<wireVars, handlerVars, md, snaps>>

(* on_snapshot returns, and the snapshot goes to the sidecar file.         *)
ReplayEnd ==
  /\ Session!ReplayGap \/ Session!ReplayDone
  /\ snaps' = Append(snaps, snap_id)
  /\ Finish
  /\ UNCHANGED <<wireVars, last_epoch, fetch, seed_epoch, md, ob_rows>>

handler ==
  \/ ReadGarbage \/ ReadFrame
  \/ NewEpoch
  \/ HandleDiff \/ HandleTrade \/ HandleDepth5 \/ EmitRow
  \/ ReplayDrop \/ ReplayApply \/ ReplayEnd

(* The end of the handler's REST request, which waits for the peer.        *)
fetch_snapshot == FetchFails \/ FetchSucceeds

Next ==
  \/ SendDiff \/ SendMangled \/ SendOther
  \/ Reconnect
  \/ handler \/ fetch_snapshot

(* The shard's thread runs.  Nothing obliges the peer to end a request:    *)
(* the shutdown of its connection has no time limit.                       *)
Spec == Init /\ [][Next]_vars /\ WF_vars(handler)

-----------------------------------------------------------------------------

(* Every variable the handler adds to the session's has its type.          *)
TypeOK ==
  /\ Session!TypeOK
  /\ epoch \in 0..MaxEpoch /\ conn_seq \in Nat /\ noise \in 0..MaxNoise
  /\ last_epoch \in 0..NoEpoch /\ seed_epoch \in 0..NoEpoch
  /\ wire \in Seq([kind: Kinds, ev: DepthEvent])
  /\ phase \in {"idle", "dispatch", "fetch", "replay", "emit"}
  /\ frame \in [kind: Kinds, ev: DepthEvent]
  /\ fetch \in {"none", "failed", "ok"}
  /\ md \in Seq([kind: Kinds, ev: DepthEvent, epoch: 0..MaxEpoch, seq: Nat])
  /\ snaps \in Seq(UpdateId)
  /\ ob_rows \in Seq([type: {"D", "S", "T"}, id: UpdateId, top: Book])

(* The handler uses the session the way BookSession assumes: snapshots     *)
(* only while it waits for one, nothing while it replays its buffer.  So   *)
(* what is proved of BookSession holds of every session of a shard.        *)
UsesSession == Session!Init /\ [][Session!Next]_(Session!vars)

(* Every D and T row shows the exchange's book as it was at the row's      *)
(* update id, rows written by the callback of on_snapshot included.        *)
RowsFaithful ==
  \A i \in DOMAIN ob_rows :
    ob_rows[i].type # "S" => ob_rows[i].top = hist[ob_rows[i].id]

(* A row is written from a book that was seeded on the connection the      *)
(* frame came from and, outside of a replay, that has caught up with every *)
(* diff of it: the handler's epoch check and its fail-closed test.         *)
EmitsBookRow == ob_rows' # ob_rows /\ frame.kind \in {"Diff", "Trade"}

RowsCurrent ==
  [][EmitsBookRow => /\ seed_epoch = epoch
                     /\ phase = "emit" => Session!Ready /\ last_update_id >= seen]_vars

(* The buffer and the book hold nothing from an older connection: each     *)
(* buffered diff was read on the connection the symbol was last heard on.  *)
BufferOfOneEpoch ==
  \A i \in DOMAIN buffer :
    \E j \in DOMAIN md : md[j].epoch = last_epoch /\ md[j].ev = buffer[i]

(* Once a diff has been handled, a spot session is left waiting only       *)
(* because the request made for this very diff failed or was answered with *)
(* a book older than the gap: every diff that finds the session waiting    *)
(* triggers another attempt, and a fresh enough answer always succeeds.    *)
StuckOnlyByRest ==
  phase = "idle" /\ resync_pending /\ buffer # <<>> =>
    \/ fetch = "failed"
    \/ fetch = "ok" /\ initialized /\ last_update_id < Head(buffer).pu

(* Every applied diff has a row of its own: once the handler is done, the  *)
(* last D row is that of the diff that brought the book where it is,       *)
(* whether it came from the handler or from the callback of on_snapshot.   *)
AppliedIsRecorded ==
  phase = "idle" /\ started =>
    \E i \in DOMAIN ob_rows :
      /\ ob_rows[i].type = "D" /\ ob_rows[i].id = last_update_id
      /\ \A j \in (i + 1)..Len(ob_rows) : ob_rows[j].type # "D"

(* The handler, the replay of the buffer included, gets back to reading    *)
(* frames if every REST request it makes ends, well or badly.              *)
HandlerReturns == []<>(phase # "fetch") => ((phase # "idle") ~> (phase = "idle"))

=============================================================================
