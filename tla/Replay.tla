------------------------------- MODULE Replay -------------------------------
(***************************************************************************)
(* run_replay (src/src/replay.cpp) of the files a live capture left.       *)
(*                                                                         *)
(* The live run is Capture.  It ends between two frames with its files     *)
(* flushed, or it is killed: the two files have a writer thread each, so   *)
(* what is on disk then is a prefix of either, one long and one short.     *)
(* A new process reads the market-data rows one by one, rebuilds the book  *)
(* with a session of its own and writes order-book rows of its own.  Its   *)
(* session, epoch and frame are held in the variables of Capture, whose    *)
(* operations it shares where the code is the same.                        *)
(***************************************************************************)
EXTENDS Capture, SequencesExt

CONSTANT Sidecars   \* whether the sidecar file is there, a set of Booleans

ASSUME ReplayAssumption == Sidecars \subseteq BOOLEAN /\ Sidecars # {}

VARIABLES
  mode,           \* "live", "replay" or "done"
  at,             \* how many market-data rows have been read
  sidecar,        \* the entry of snaps for the symbol: ids not consumed yet
  have_sidecar,   \* have_sidecar
  complete,       \* history: the live run ended by itself
  whole,          \* history: the sidecar has all the snapshots it took
  failed,         \* history: one of its REST requests failed
  rep_rows        \* the order-book rows replay writes

replayVars == <<mode, at, sidecar, have_sidecar, complete, whole, failed, rep_rows>>

allVars == <<vars, replayVars>>

ReplayInit ==
  /\ Init
  /\ mode = "live"
  /\ at = 0 /\ sidecar = <<>> /\ have_sidecar = FALSE
  /\ complete = TRUE /\ whole = TRUE /\ failed = FALSE
  /\ rep_rows = <<>>

-----------------------------------------------------------------------------

Live ==
  /\ mode = "live"
  /\ Next
  /\ failed' = (failed \/ fetch' = "failed")
  /\ UNCHANGED <<mode, at, sidecar, have_sidecar, complete, whole, rep_rows>>

(* run_replay up to its loop, on the first m and s rows of the two files.  *)
StartReplay(m, s) ==
  /\ mode = "live"
  /\ mode' = "replay"
  /\ md' = SubSeq(md, 1, m)
  /\ have_sidecar' \in Sidecars
  /\ sidecar' = IF have_sidecar' THEN SubSeq(snaps, 1, s) ELSE <<>>
  /\ Session!reset
  /\ resync_pending' = TRUE /\ overflows' = 0 /\ buffer' = <<>>
  /\ replaying' = FALSE /\ snap_id' = 0 /\ seen' = 0
  /\ last_epoch' = NoEpoch /\ seed_epoch' = NoEpoch /\ fetch' = "none"
  /\ epoch' = 0 /\ conn_seq' = 0 /\ wire' = <<>> /\ noise' = 0
  /\ Finish
  /\ whole' = (s = Len(snaps))
  /\ UNCHANGED <<feedVars, at, snaps, ob_rows, failed, rep_rows>>

StopAndReplay ==
  /\ phase = "idle"
  /\ StartReplay(Len(md), Len(snaps))
  /\ UNCHANGED complete

KillAndReplay ==
  \E m \in 0..Len(md), s \in 0..Len(snaps) :
    /\ StartReplay(m, s)
    /\ complete' = FALSE

-----------------------------------------------------------------------------
(* The loop over the market-data rows.                                     *)

ReadRow ==
  /\ mode = "replay"
  /\ phase = "idle"
  /\ at < Len(md)
  /\ at' = at + 1
  /\ frame' = [kind |-> md[at'].kind, ev |-> md[at'].ev]
  /\ epoch' = md[at'].epoch
  /\ conn_seq' = md[at'].seq
  /\ phase' = "dispatch"
  /\ UNCHANGED <<feedVars, bookVars, sessionVars, wire, noise, last_epoch, fetch, seed_epoch,
                 rowVars, mode, sidecar, have_sidecar, complete, whole, failed, rep_rows>>

RowEpoch_KeepBook ==
  /\ mode = "replay"
  /\ NewEpoch_KeepBook
  /\ UNCHANGED replayVars

(* Unlike the live handler, before the payload is parsed.                  *)
RowEpoch ==
  /\ mode = "replay"
  /\ NewEpoch
  /\ UNCHANGED replayVars

RowUnparsed ==
  /\ mode = "replay"
  /\ Dispatch("Unparsed")
  /\ Finish
  /\ UNCHANGED <<feedVars, bookVars, sessionVars, wireVars, last_epoch, fetch, seed_epoch,
                 rowVars, replayVars>>

(* A diff that leaves the session waiting takes the next recorded snapshot *)
(* if there is one.                                                        *)
RowDiff ==
  /\ mode = "replay"
  /\ Dispatch("Diff")
  /\ Session!on_diff(frame.ev)
  /\ \/ DiffApplied /\ phase' = "emit" /\ UNCHANGED frame
     \/ ~DiffApplied /\ resync_pending' /\ sidecar # <<>> /\ phase' = "fetch" /\ UNCHANGED frame
     \/ ~DiffApplied /\ (resync_pending' => sidecar = <<>>) /\ Finish
  /\ UNCHANGED <<wireVars, last_epoch, fetch, seed_epoch, rowVars, replayVars>>

seed_from_sidecar ==
  /\ mode = "replay"
  /\ phase = "fetch"
  /\ Session!on_snapshot(hist[Head(sidecar)], Head(sidecar))
  /\ sidecar' = Tail(sidecar)
  /\ phase' = "replay"
  /\ UNCHANGED <<wireVars, last_epoch, frame, fetch, seed_epoch, rowVars,
                 mode, at, have_sidecar, complete, whole, failed, rep_rows>>

(* lastUpdateId of a depth5 payload, which only spot payloads carry.       *)
lastUpdateId(ev) == IF Venue = "Spot" THEN ev.u ELSE 0

(* A depth5 row seeds the book when there is no sidecar.                   *)
RowDepth5 ==
  /\ mode = "replay"
  /\ Dispatch("Depth5")
  /\ IF have_sidecar
     THEN phase' = "emit" /\ UNCHANGED <<feedVars, bookVars, sessionVars>>
     ELSE /\ phase' = "replay"
          /\ Session!on_snapshot(Partial(hist[frame.ev.u]), lastUpdateId(frame.ev))
  /\ UNCHANGED <<wireVars, last_epoch, frame, fetch, seed_epoch, rowVars, replayVars>>

RowTrade ==
  /\ mode = "replay"
  /\ HandleTrade
  /\ UNCHANGED replayVars

(* The loop of on_snapshot, whose callback is emit_replayed_diff.          *)
SeedDrop ==
  /\ mode = "replay"
  /\ ReplayDrop
  /\ UNCHANGED replayVars

emit_replayed_diff ==
  /\ mode = "replay"
  /\ Session!ReplayApply
  /\ rep_rows' = Append(rep_rows, Row("D", last_update_id', levels'))
  /\ UNCHANGED <<wireVars, handlerVars, rowVars,
                 mode, at, sidecar, have_sidecar, complete, whole, failed>>

SeedEnd ==
  /\ mode = "replay"
  /\ Session!ReplayGap \/ Session!ReplayDone
  /\ IF frame.kind = "Depth5" THEN phase' = "emit" /\ UNCHANGED frame ELSE Finish
  /\ UNCHANGED <<wireVars, last_epoch, fetch, seed_epoch, rowVars, replayVars>>

NewRows_Open ==
  IF frame.kind = "Depth5"
  THEN <<Row("S", frame.ev.u, Partial(hist[frame.ev.u]))>>
  ELSE <<Row(IF frame.kind = "Diff" THEN "D" ELSE "T", last_update_id, levels)>>

(* The row at the end of an iteration: the payload's levels for depth5,    *)
(* the book's otherwise, and none from a book that is not ready.           *)
NewRows ==
  IF frame.kind = "Depth5"
  THEN <<Row("S", frame.ev.u, Partial(hist[frame.ev.u]))>>
  ELSE IF Session!Ready
  THEN <<Row(IF frame.kind = "Diff" THEN "D" ELSE "T", last_update_id, levels)>>
  ELSE <<>>

RowEmit ==
  /\ mode = "replay"
  /\ phase = "emit"
  /\ rep_rows' = rep_rows \o NewRows
  /\ Finish
  /\ UNCHANGED <<feedVars, bookVars, sessionVars, wireVars, last_epoch, fetch, seed_epoch, rowVars,
                 mode, at, sidecar, have_sidecar, complete, whole, failed>>

ReplayReturns ==
  /\ mode = "replay"
  /\ phase = "idle"
  /\ at = Len(md)
  /\ mode' = "done"
  /\ UNCHANGED <<vars, at, sidecar, have_sidecar, complete, whole, failed, rep_rows>>

ReplayNext ==
  \/ Live \/ StopAndReplay \/ KillAndReplay
  \/ ReadRow \/ RowEpoch
  \/ RowUnparsed \/ RowDiff \/ RowDepth5 \/ RowTrade
  \/ seed_from_sidecar \/ SeedDrop \/ emit_replayed_diff \/ SeedEnd
  \/ RowEmit
  \/ ReplayReturns

ReplaySpec == ReplayInit /\ [][ReplayNext]_allVars

-----------------------------------------------------------------------------

(* Whatever the files lack, replay never writes a level the exchange's     *)
(* book did not have at the row's update id; with the sidecar the row is   *)
(* the whole book.  A book seeded from a depth5 row (replay.cpp:165) knows *)
(* only its best levels, so it may miss the ones below.                    *)
ReplayFaithful ==
  \A i \in DOMAIN rep_rows :
    LET row == rep_rows[i] IN
      IF have_sidecar /\ row.type # "S"
      THEN row.top = hist[row.id]
      ELSE \A k \in Key : row.top[k] \in {0, hist[row.id][k]}

(* If no REST request of the live run failed, replay writes the rows the   *)
(* live run wrote, one for one: all of them if that ended by itself, and   *)
(* the same as far as both go if it was killed and the sidecar survived.   *)
(* The sidecar entries are consumed where the live run received them       *)
(* (replay.cpp:130).                                                       *)
ReproducesLive ==
  mode = "done" /\ have_sidecar /\ whole /\ ~failed =>
    /\ IsPrefix(rep_rows, ob_rows) \/ IsPrefix(ob_rows, rep_rows)
    /\ complete => rep_rows = ob_rows

(* The same as replay.cpp:130-132 has it, of every run that ended by       *)
(* itself: "the matching snapshot sidecar entry is consumed at the same    *)
(* point and live output is reproduced".                                   *)
ReplayIsLive == mode = "done" /\ complete /\ have_sidecar => rep_rows = ob_rows

=============================================================================
