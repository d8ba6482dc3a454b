------------------------------- MODULE CsvSink ------------------------------
(***************************************************************************)
(* CsvSink (src/include/csv_writer.hpp, src/src/csv_writer.cpp): one       *)
(* owner thread calls open, write, flush and close; in async mode a writer *)
(* thread (run) drains the ring into the FILE.  Rows are numbered in the   *)
(* order in which write is called.                                         *)
(*                                                                         *)
(* The FILE is external and modelled from its use: what fwrite took waits  *)
(* in a buffer until it spills or is flushed.  Once the disk is full rows  *)
(* may be written in part and what is left may be dropped: the C standard  *)
(* promises nothing after an error.  fwrite tells its caller, and so do    *)
(* fflush and fclose, whose results the code does not look at.             *)
(***************************************************************************)
EXTENDS SpscRing

CONSTANT MaxRows    \* bound on the rows written

ASSUME SinkAssumption == MaxRows \in Nat

VARIABLES
  async,       \* async_
  open,        \* f_ is not null
  stop,        \* stop_
  flush_req,   \* flush_req_
  werr,        \* werr_
  owner,       \* where the owner is: idle, or inside a call
  writer,      \* where the writer thread is in run
  buffered,    \* FILE: rows taken by fwrite that are not on disk
  disk,        \* FILE: rows on disk
  diskOk,      \* FILE: the disk has room
  sent,        \* history: how many calls of write have returned
  flushed      \* history: sent when flush last returned

fileVars == <<buffered, disk, diskOk>>
sinkVars == <<async, open, stop, flush_req, werr, owner, writer, sent, flushed>>
vars == <<ringVars, fileVars, sinkVars>>

Init ==
  /\ RingInit
  /\ async \in BOOLEAN
  /\ open = TRUE
  /\ stop = FALSE /\ flush_req = FALSE /\ werr = FALSE
  /\ owner = "idle"
  /\ writer = IF async THEN "drain" ELSE "none"
  /\ buffered = <<>> /\ disk = <<>> /\ diskOk = TRUE
  /\ sent = 0 /\ flushed = 0

-----------------------------------------------------------------------------
(* The FILE.                                                               *)

DiskFills ==
  /\ diskOk
  /\ diskOk' = FALSE
  /\ UNCHANGED <<ringVars, sinkVars, buffered, disk>>

(* What a full disk does with rows: some of them are written, and perhaps  *)
(* part of one more (its remains stay Torn); the others are kept for       *)
(* another attempt or are lost.                                            *)
WrittenInPart(rows) ==
  \E k \in 0..Len(rows), torn \in {<<>>, <<Torn>>} :
    /\ k + Len(torn) <= Len(rows)
    /\ disk' = disk \o SubSeq(rows, 1, k) \o torn
    /\ buffered' \in {SubSeq(rows, k + Len(torn) + 1, Len(rows)), <<>>}

(* fwrite of one row, and the test of its result: the row is buffered, or  *)
(* the buffer spills first.  That fails on a full disk, and of the row     *)
(* nothing or a part is left.                                              *)
fwrite(row) ==
  \/ /\ buffered' = Append(buffered, row)
     /\ UNCHANGED <<disk, diskOk, werr>>
  \/ /\ diskOk
     /\ disk' = disk \o buffered
     /\ buffered' = <<row>>
     /\ UNCHANGED <<diskOk, werr>>
  \/ /\ ~diskOk
     /\ werr' = TRUE
     /\ \E part \in {<<>>, <<Torn>>} : WrittenInPart(buffered \o part)
     /\ UNCHANGED diskOk

(* fflush, its result ignored.                                             *)
fflush ==
  /\ IF diskOk THEN disk' = disk \o buffered /\ buffered' = <<>> ELSE WrittenInPart(buffered)
  /\ UNCHANGED diskOk

(* fflush then fclose, their results ignored: what could not be written is *)
(* lost with the FILE.                                                     *)
fclose ==
  /\ fflush
  /\ buffered' = <<>>

-----------------------------------------------------------------------------
(* write, flush and close, called by the owner.  On a sink that is not     *)
(* open they return at once.                                               *)

WriteSync ==
  /\ owner = "idle" /\ open /\ ~async
  /\ sent < MaxRows
  /\ fwrite(sent + 1)
  /\ sent' = sent + 1
  /\ UNCHANGED <<ringVars, async, open, stop, flush_req, owner, writer, flushed>>

WriteBegin ==
  /\ owner = "idle" /\ open /\ async
  /\ sent < MaxRows
  /\ owner' = "writing"
  /\ UNCHANGED <<ringVars, fileVars, async, open, stop, flush_req, werr, writer, sent, flushed>>

(* The call of try_write that finds room; the loop around it repeats the   *)
(* ones that do not.                                                       *)
WriteTry ==
  /\ owner = "writing"
  /\ TryBegin
  /\ UNCHANGED <<fileVars, sinkVars>>

WriteAssign ==
  /\ owner = "writing"
  /\ Assigned(sent + 1)
  /\ UNCHANGED <<fileVars, sinkVars>>

WritePublish ==
  /\ owner = "writing"
  /\ Publish
  /\ owner' = "idle"
  /\ sent' = sent + 1
  /\ UNCHANGED <<fileVars, async, open, stop, flush_req, werr, writer, flushed>>

FlushSync ==
  /\ owner = "idle" /\ open /\ ~async
  /\ fflush
  /\ flushed' = sent
  /\ UNCHANGED <<ringVars, async, open, stop, flush_req, werr, owner, writer, sent>>

FlushBegin ==
  /\ owner = "idle" /\ open /\ async
  /\ flush_req' = TRUE
  /\ owner' = "flushing"
  /\ UNCHANGED <<ringVars, fileVars, async, open, stop, werr, writer, sent, flushed>>

FlushEnd ==
  /\ owner = "flushing"
  /\ ~flush_req
  /\ owner' = "idle"
  /\ flushed' = sent
  /\ UNCHANGED <<ringVars, fileVars, async, open, stop, flush_req, werr, writer, sent>>

CloseBegin ==
  /\ owner = "idle" /\ open
  /\ stop' = (stop \/ async)
  /\ owner' = "joining"
  /\ UNCHANGED <<ringVars, fileVars, async, open, flush_req, werr, writer, sent, flushed>>

CloseEnd_NoJoin ==
  /\ owner = "joining"
  /\ fclose
  /\ open' = FALSE
  /\ owner' = "closed"
  /\ UNCHANGED <<ringVars, async, stop, flush_req, werr, writer, sent, flushed>>

(* join returned (there is nothing to join in sync mode).                  *)
CloseEnd ==
  /\ owner = "joining"
  /\ writer \in {"exited", "none"}
  /\ fclose
  /\ open' = FALSE
  /\ owner' = "closed"
  /\ UNCHANGED <<ringVars, async, stop, flush_req, werr, writer, sent, flushed>>

(* Nothing is left to do on a closed sink.                                 *)
Closed ==
  /\ owner = "closed"
  /\ UNCHANGED vars

-----------------------------------------------------------------------------
(* run, the writer thread.                                                 *)

WriterAt(here, there) ==
  /\ writer = here
  /\ writer' = there

WriterUnchanged == UNCHANGED <<async, open, stop, owner, sent, flushed>>

RunDrain ==
  /\ WriterAt("drain", "copy")
  /\ DrainBegin
  /\ WriterUnchanged /\ UNCHANGED <<fileVars, flush_req, werr>>

RunRecord ==
  /\ WriterAt("copy", "copy")
  /\ DrainRecord
  /\ fwrite(slots[h])
  /\ WriterUnchanged /\ UNCHANGED flush_req

RunFree ==
  /\ WriterAt("copy", "flush?")
  /\ DrainEnd
  /\ WriterUnchanged /\ UNCHANGED <<fileVars, flush_req, werr>>

RunFlushReq_Always ==
  /\ WriterAt("flush?", IF flush_req THEN "fflush" ELSE "idle")
  /\ WriterUnchanged /\ UNCHANGED <<ringVars, fileVars, flush_req, werr>>

RunFlushEmpty_Stuck ==
  /\ WriterAt("empty?", IF empty /\ count THEN "fflush" ELSE "idle")
  /\ WriterUnchanged /\ UNCHANGED <<ringVars, fileVars, flush_req, werr>>

(* The test of flush_req_, then that of empty.                             *)
RunFlushReq ==
  /\ WriterAt("flush?", IF flush_req THEN "empty?" ELSE "idle")
  /\ WriterUnchanged /\ UNCHANGED <<ringVars, fileVars, flush_req, werr>>

RunFlushEmpty ==
  /\ WriterAt("empty?", IF empty THEN "fflush" ELSE "idle")
  /\ WriterUnchanged /\ UNCHANGED <<ringVars, fileVars, flush_req, werr>>

RunFflush ==
  /\ WriterAt("fflush", "clear")
  /\ fflush
  /\ WriterUnchanged /\ UNCHANGED <<ringVars, flush_req, werr>>

RunClear ==
  /\ WriterAt("clear", "idle")
  /\ flush_req' = FALSE
  /\ WriterUnchanged /\ UNCHANGED <<ringVars, fileVars, werr>>

(* The test of n and, when nothing was drained, of stop_; then of empty.   *)
RunIdle ==
  /\ WriterAt("idle", IF ~count /\ stop THEN "stop?" ELSE "drain")
  /\ WriterUnchanged /\ UNCHANGED <<ringVars, fileVars, flush_req, werr>>

RunStopEmpty ==
  /\ WriterAt("stop?", IF empty THEN "exited" ELSE "drain")
  /\ WriterUnchanged /\ UNCHANGED <<ringVars, fileVars, flush_req, werr>>

run ==
  \/ RunDrain \/ RunRecord \/ RunFree
  \/ RunFlushReq \/ RunFlushEmpty \/ RunFflush \/ RunClear
  \/ RunIdle \/ RunStopEmpty

-----------------------------------------------------------------------------

(* The owner inside a call.                                                *)
Calling ==
  \/ WriteTry \/ WriteAssign \/ WritePublish
  \/ FlushEnd
  \/ CloseEnd

Call == WriteSync \/ WriteBegin \/ FlushSync \/ FlushBegin \/ CloseBegin

Next == Call \/ Calling \/ run \/ DiskFills \/ Closed

(* The scheduler runs both threads; nothing obliges the owner to make      *)
(* another call.                                                           *)
Fairness == WF_vars(Calling) /\ WF_vars(run)

Spec == Init /\ [][Next]_vars /\ Fairness

-----------------------------------------------------------------------------

(* Every variable has its type.                                            *)
TypeOK ==
  /\ RingTypeOK
  /\ async \in BOOLEAN /\ open \in BOOLEAN /\ stop \in BOOLEAN
  /\ flush_req \in BOOLEAN /\ werr \in BOOLEAN /\ diskOk \in BOOLEAN
  /\ owner \in {"idle", "writing", "flushing", "joining", "closed"}
  /\ writer \in {"none", "drain", "copy", "flush?", "empty?", "fflush", "clear",
                 "idle", "stop?", "exited"}
  /\ buffered \in Seq(Nat) /\ disk \in Seq(Nat)
  /\ sent \in 0..MaxRows /\ flushed \in 0..MaxRows

(* The rows taken so far, wherever they are now.                           *)
Rows == disk \o buffered \o Pending

FirstRows(n) == [i \in 1..n |-> i]

(* While the disk has room every row handed to write is on disk, in the    *)
(* FILE or in the ring, once, whole and in order, in both modes: the       *)
(* back-pressure of write drops nothing and drain reads no slot twice,     *)
(* early or torn.                                                          *)
RowsPreserved ==
  open /\ diskOk => Rows = FirstRows(sent)

(* The std::string of a slot is never assigned by try_write while drain    *)
(* may read it: such an overlap would be a data race.                      *)
NoSlotRace ==
  producer = "assigning" /\ writer = "copy" /\ h # t =>
    tail \notin {(h + i) % Capacity : i \in 0..((t + Capacity - h - 1) % Capacity)}

(* flush returns only when every row written before it is on disk, if the  *)
(* disk has had room: flush_req_ is cleared after an fflush that no row    *)
(* overtakes.                                                              *)
FlushDurable ==
  diskOk => Len(disk) >= flushed /\ SubSeq(disk, 1, flushed) = FirstRows(flushed)

(* close leaves nothing behind in the ring or the FILE, if the disk has    *)
(* had room, and the writer thread never touches the FILE once it is       *)
(* closed.                                                                 *)
CloseComplete ==
  ~open => /\ writer \in {"exited", "none"}
           /\ diskOk => disk = FirstRows(sent)

(* Back-pressure, the flush handshake and the join never block the owner   *)
(* for good: every call of write, flush and close returns.                 *)
CallsReturn ==
  \A c \in {"writing", "flushing", "joining"} : (owner = c) ~> (owner # c)

(* The ring carries out a bounded first-in first-out queue.                *)
Queue == INSTANCE RowQueue WITH queue <- Pending, sent <- sent, Bound <- Capacity - 1

(* Seen from outside, the ring under both threads is the queue of RowQueue *)
(* with one slot less than its capacity (try_write's test for full).       *)
RingIsQueue == Queue!Spec

(* When flush has returned, rows that did not reach the disk have been     *)
(* reported by failed().                                                   *)
NoSilentLoss ==
  owner = "idle" /\ flushed = sent => disk = FirstRows(sent) \/ werr

=============================================================================
