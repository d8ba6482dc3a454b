---------------------------- MODULE CsvSinkProofs ---------------------------
(***************************************************************************)
(* What holds of CsvSink for every ring capacity and any number of rows,   *)
(* in both modes, whenever the disk fills.                                 *)
(*                                                                         *)
(* None of the properties is inductive.  What makes them so is where each  *)
(* row is: the indices stay in ring order head, h, t, tail; the slot d     *)
(* places before tail holds row sent + 1 - d; the FILE, while the disk has *)
(* room, holds all rows older than those; and each step of the flush and   *)
(* close handshakes knows what the other thread has done.                  *)
(***************************************************************************)
EXTENDS CsvSink, TLAPS

(* How many steps of NextIndex lead from a to b.                           *)
Dist(a, b) == IF a <= b THEN b - a ELSE b + Capacity - a

(* The published records drain has not looked at.                          *)
Left == Dist(h, tail)

(* Between two drains h is head; during one the consumer is between head   *)
(* and t, and has consumed something iff count.                            *)
RingOrder ==
  /\ Dist(head, h) + Dist(h, tail) = Dist(head, tail)
  /\ writer = "copy" => Dist(h, t) <= Dist(h, tail)
  /\ writer # "copy" \/ ~count => h = head
  /\ producer # "out" => owner = "writing" /\ Dist(head, tail) < Capacity - 1

SyncRing ==
  /\ async <=> writer # "none"
  /\ ~async => h = tail /\ owner # "writing" /\ owner # "flushing"

(* A published slot holds the row that its distance from tail says.        *)
SlotsHold ==
  /\ Left <= sent
  /\ \A j \in Index : Dist(h, j) < Left => slots[j] = sent + 1 - Dist(j, tail)
  /\ producer = "assigned" => slots[tail] = sent + 1

(* The rows the FILE was given and has kept.                               *)
InFile == disk \o buffered

(* All rows up to row n.                                                   *)
Whole(rows, n) == Len(rows) = n /\ \A i \in 1..n : rows[i] = i

(* The FILE holds the rows older than those in the ring, none missing or   *)
(* torn, while the disk has room.                                          *)
FileHolds == diskOk => Whole(InFile, sent - Left)

(* The first n rows are on disk.                                           *)
OnDisk(d, n) == Len(d) >= n /\ \A i \in 1..n : d[i] = i

FlushHandshake ==
  /\ flush_req => owner = "flushing"
  /\ writer \in {"empty?", "fflush", "clear"} => flush_req
  /\ writer \in {"fflush", "clear"} => head = tail
  /\ diskOk /\ owner = "flushing" /\ (flush_req => writer = "clear") => OnDisk(disk, sent)
  /\ diskOk => OnDisk(disk, flushed)

CloseHandshake ==
  /\ open <=> owner # "closed"
  /\ stop => owner \in {"joining", "closed"}
  /\ writer \in {"stop?", "exited"} => stop
  /\ writer = "exited" => head = tail

RoomForRow == owner = "writing" => sent < MaxRows

SInv ==
  /\ TypeOK
  /\ RoomForRow
  /\ RingOrder
  /\ SyncRing
  /\ SlotsHold
  /\ FileHolds
  /\ FlushHandshake
  /\ CloseHandshake
  /\ CloseComplete

-----------------------------------------------------------------------------
(* Arithmetic of the ring.                                                 *)

(* An addition of two offsets below Capacity wraps at most once.           *)
LEMMA ModWrap ==
  ASSUME NEW C \in Nat, C > 1, NEW a \in 0..(2 * C - 1)
  PROVE  a % C = IF a < C THEN a ELSE a - C
OBVIOUS

(* (i + 1) & mask_ without the mask.                                       *)
LEMMA NextIs ==
  ASSUME NEW i \in Index
  PROVE  /\ NextIndex(i) \in Index
         /\ NextIndex(i) = IF i + 1 = Capacity THEN 0 ELSE i + 1
<1>1. Capacity \in Nat /\ Capacity > 1 /\ i + 1 \in 0..(2 * Capacity - 1)
  BY CapacityAssumption DEF Index
<1>2. (i + 1) % Capacity = IF i + 1 < Capacity THEN i + 1 ELSE i + 1 - Capacity
  <2> DEFINE a == i + 1
  <2>1. a \in 0..(2 * Capacity - 1)
    BY <1>1
  <2> HIDE DEF a
  <2>2. a % Capacity = IF a < Capacity THEN a ELSE a - Capacity
    BY <1>1, <2>1, ModWrap
  <2> QED BY <1>1, <2>2 DEF a, Index
<1> QED
  BY <1>1, <1>2 DEF Index, NextIndex

(* Distances are below Capacity, and nothing else is at distance 0.        *)
LEMMA DistRange ==
  ASSUME NEW a \in Index, NEW b \in Index
  PROVE  Dist(a, b) \in 0..(Capacity - 1) /\ (Dist(a, b) = 0 <=> a = b)
BY CapacityAssumption DEF Dist, Index

(* Moving the far end of a distance, or its near end, by one.              *)
LEMMA DistNext ==
  ASSUME NEW a \in Index, NEW b \in Index
  PROVE  /\ Dist(a, b) < Capacity - 1 => Dist(a, NextIndex(b)) = Dist(a, b) + 1
         /\ a # b => Dist(NextIndex(a), b) = Dist(a, b) - 1
         /\ Dist(NextIndex(a), a) = Capacity - 1
BY CapacityAssumption, NextIs DEF Dist, Index

(* try_write's test for full leaves a slot free.                           *)
LEMMA NotFull ==
  ASSUME NEW a \in Index, NEW b \in Index, NextIndex(b) # a
  PROVE  Dist(a, b) < Capacity - 1
BY CapacityAssumption, NextIs DEF Dist, Index

(* Between a and b, distances add up.                                      *)
LEMMA DistSum ==
  ASSUME NEW a \in Index, NEW b \in Index, NEW c \in Index, Dist(a, b) <= Dist(a, c)
  PROVE  Dist(a, b) + Dist(b, c) = Dist(a, c)
BY CapacityAssumption DEF Dist, Index

-----------------------------------------------------------------------------
(* The FILE.                                                               *)

(* What a concatenation is made of.                                        *)
LEMMA Concat ==
  ASSUME NEW a \in Seq(Nat), NEW b \in Seq(Nat)
  PROVE  /\ a \o b \in Seq(Nat) /\ Len(a \o b) = Len(a) + Len(b)
         /\ \A i \in 1..Len(a) : (a \o b)[i] = a[i]
         /\ \A i \in 1..Len(b) : (a \o b)[Len(a) + i] = b[i]
OBVIOUS

(* Part of a row, or nothing.                                              *)
LEMMA TornTypes ==
  ASSUME NEW part \in {<<>>, <<Torn>>}
  PROVE  part \in Seq(Nat) /\ Len(part) \in 0..1
<1>1. CASE part = <<>>
  BY <1>1
<1>2. CASE part = <<Torn>>
  <2>1. Torn \in Nat
    BY DEF Torn
  <2> QED BY <1>2, <2>1
<1> QED BY <1>1, <1>2

(* Whatever a full disk does, the FILE is left with rows and torn rows.    *)
LEMMA PartTypes ==
  ASSUME disk \in Seq(Nat), NEW rows \in Seq(Nat), WrittenInPart(rows)
  PROVE  disk' \in Seq(Nat) /\ buffered' \in Seq(Nat)
<1>1. PICK k \in 0..Len(rows), torn \in {<<>>, <<Torn>>} :
         /\ k + Len(torn) <= Len(rows)
         /\ disk' = disk \o SubSeq(rows, 1, k) \o torn
         /\ buffered' \in {SubSeq(rows, k + Len(torn) + 1, Len(rows)), <<>>}
  BY DEF WrittenInPart
<1>2. torn \in Seq(Nat) /\ Len(torn) \in 0..1
  BY TornTypes
<1>3. SubSeq(rows, 1, k) \in Seq(Nat)
  BY <1>1
<1>4. SubSeq(rows, k + Len(torn) + 1, Len(rows)) \in Seq(Nat)
  <2>1. PICK l \in Nat : l = k + Len(torn) + 1 /\ l >= 1
    BY <1>1, <1>2
  <2>2. SubSeq(rows, l, Len(rows)) \in Seq(Nat)
    BY <2>1
  <2> QED BY <2>1, <2>2
<1>5. disk \o SubSeq(rows, 1, k) \o torn \in Seq(Nat)
  <2>1. disk \o SubSeq(rows, 1, k) \in Seq(Nat)
    BY <1>3, Concat, Zenon
  <2> QED BY <1>2, <2>1, Concat, Zenon
<1>6. disk' \in Seq(Nat)
  BY <1>1, <1>5, Zenon
<1>7. <<>> \in Seq(Nat)
  OBVIOUS
<1>8. buffered' \in Seq(Nat)
  BY <1>1, <1>4, <1>7, Zenon
<1> QED
  BY <1>6, <1>8

(* While the disk has room fwrite appends the row and reports no error.    *)
LEMMA FwriteAppends ==
  ASSUME disk \in Seq(Nat), buffered \in Seq(Nat), NEW row \in Nat, fwrite(row),
         werr \in BOOLEAN
  PROVE  /\ disk' \in Seq(Nat) /\ buffered' \in Seq(Nat) /\ diskOk' = diskOk
         /\ werr' \in BOOLEAN
         /\ diskOk => InFile' = Append(InFile, row)
         /\ diskOk => \A n \in Nat : OnDisk(disk, n) => OnDisk(disk', n)
<1>1. CASE buffered' = Append(buffered, row) /\ UNCHANGED <<disk, diskOk, werr>>
  BY <1>1 DEF InFile
<1>2. CASE diskOk /\ disk' = disk \o buffered /\ buffered' = <<row>> /\ UNCHANGED <<diskOk, werr>>
  <2>1. disk \o buffered \in Seq(Nat) /\ <<row>> \in Seq(Nat)
    BY <1>2
  <2>2. (disk \o buffered) \o <<row>> = Append(disk \o buffered, row)
    BY <2>1
  <2>3. \A n \in Nat : OnDisk(disk, n) => OnDisk(disk \o buffered, n)
    BY DEF OnDisk
  <2> QED BY <1>2, <2>1, <2>2, <2>3 DEF InFile
<1>3. CASE /\ ~diskOk /\ werr' = TRUE /\ UNCHANGED diskOk
           /\ \E part \in {<<>>, <<Torn>>} : WrittenInPart(buffered \o part)
  <2>1. PICK part \in {<<>>, <<Torn>>} : WrittenInPart(buffered \o part)
    BY <1>3
  <2>2. buffered \o part \in Seq(Nat)
    BY TornTypes, Concat, Zenon
  <2> QED BY <1>3, <2>1, <2>2, PartTypes
<1> QED
  BY <1>1, <1>2, <1>3 DEF fwrite

(* A row appended in its turn keeps the file whole.                        *)
LEMMA AppendKeeps ==
  ASSUME NEW rows \in Seq(Nat), NEW n \in Nat, Whole(rows, n)
  PROVE  Whole(Append(rows, n + 1), n + 1)
<1>1. /\ Len(Append(rows, n + 1)) = Len(rows) + 1 /\ Len(rows) \in Nat
      /\ \A i \in 1..Len(rows) : Append(rows, n + 1)[i] = rows[i] /\ rows[i] \in Nat
      /\ Append(rows, n + 1)[Len(rows) + 1] = n + 1
  OBVIOUS
<1> QED
  BY <1>1 DEF Whole

(* While the disk has room fflush and fclose move every row to it.         *)
LEMMA FlushMoves ==
  ASSUME disk \in Seq(Nat), buffered \in Seq(Nat), fflush \/ fclose
  PROVE  /\ disk' \in Seq(Nat) /\ buffered' \in Seq(Nat) /\ diskOk' = diskOk
         /\ diskOk => InFile' = InFile /\ disk' = InFile
         /\ diskOk => \A n \in Nat : OnDisk(disk, n) => OnDisk(disk', n)
<1>0. fflush
  BY DEF fclose
<1>1. CASE diskOk
  <2>1. /\ disk \o buffered \in Seq(Nat) /\ (disk \o buffered) \o <<>> = disk \o buffered
        /\ <<>> \in Seq(Nat)
    OBVIOUS
  <2>2. \A n \in Nat : OnDisk(disk, n) => OnDisk(disk \o buffered, n)
    BY DEF OnDisk
  <2> QED BY <1>0, <1>1, <2>1, <2>2 DEF fflush, InFile
<1>2. CASE ~diskOk
  <2>1. WrittenInPart(buffered) /\ diskOk' = diskOk
    BY <1>0, <1>2 DEF fflush
  <2> QED BY <1>2, <2>1, PartTypes
<1> QED
  BY <1>1, <1>2

-----------------------------------------------------------------------------
(* One lemma per group of actions.                                         *)

(* What the types and the ring order say about the numbers.                *)
LEMMA Numbers ==
  ASSUME SInv
  PROVE  /\ head \in Index /\ h \in Index /\ t \in Index /\ tail \in Index
         /\ sent \in Nat /\ flushed \in Nat /\ Left \in Nat /\ sent - Left \in Nat
         /\ disk \in Seq(Nat) /\ buffered \in Seq(Nat) /\ InFile \in Seq(Nat)
         /\ Dist(head, h) \in Nat /\ Dist(head, tail) \in Nat /\ Dist(h, tail) <= Dist(head, tail)
<1>1. /\ head \in Index /\ h \in Index /\ t \in Index /\ tail \in Index
      /\ sent \in Nat /\ flushed \in Nat /\ disk \in Seq(Nat) /\ buffered \in Seq(Nat)
  BY SinkAssumption DEF SInv, TypeOK, RingTypeOK
<1>2. Left \in Nat /\ Dist(head, h) \in Nat /\ Dist(head, tail) \in Nat
  BY <1>1, DistRange DEF Left
<1>3. Left <= sent /\ Dist(head, h) + Left = Dist(head, tail)
  BY DEF SInv, SlotsHold, RingOrder, Left
<1>4. InFile \in Seq(Nat)
  BY <1>1 DEF InFile
<1> QED
  BY <1>1, <1>2, <1>3, <1>4 DEF Left

(* A step that touches neither the ring nor the rows.                      *)
LEMMA KeepsRows ==
  ASSUME SInv,
         UNCHANGED <<ringVars, buffered, disk, werr, sent, async, open>>,
         writer' = "copy" <=> writer = "copy", writer' = "none" <=> writer = "none",
         diskOk' => diskOk,
         producer # "out" => owner' = "writing",
         ~async => owner' # "writing" /\ owner' # "flushing"
  PROVE  RingOrder' /\ SyncRing' /\ SlotsHold' /\ FileHolds'
<1> USE DEF SInv, ringVars
<1>1. RingOrder'
  BY DEF RingOrder
<1>2. SyncRing'
  BY DEF SyncRing
<1>3. Left' = Left /\ InFile' = InFile
  BY DEF Left, InFile
<1>4. SlotsHold'
  BY <1>3 DEF SlotsHold
<1>5. FileHolds'
  BY <1>3 DEF FileHolds
<1> QED BY <1>1, <1>2, <1>4, <1>5

(* The owner enters and leaves its calls, and the disk fills.              *)
LEMMA OwnerInv ==
  ASSUME SInv, WriteBegin \/ FlushBegin \/ FlushEnd \/ CloseBegin \/ DiskFills
  PROVE  SInv'
<1> USE DEF SInv
<1>1. /\ UNCHANGED <<ringVars, buffered, disk, werr, sent, async, open, writer>>
      /\ diskOk' => diskOk
  BY DEF WriteBegin, FlushBegin, FlushEnd, CloseBegin, DiskFills, fileVars, sinkVars
<1>2. /\ producer # "out" => owner' = "writing"
      /\ ~async => owner' # "writing" /\ owner' # "flushing"
  BY DEF RingOrder, SyncRing, WriteBegin, FlushBegin, FlushEnd, CloseBegin, DiskFills, sinkVars
<1>3. RingOrder' /\ SyncRing' /\ SlotsHold' /\ FileHolds'
  <2> HIDE DEF SInv
  <2> QED BY <1>1, <1>2, KeepsRows
<1>4. TypeOK'
  <2>1. /\ owner' \in {"idle", "writing", "flushing", "joining", "closed"}
        /\ flushed' \in 0..MaxRows
    BY DEF TypeOK, WriteBegin, FlushBegin, FlushEnd, CloseBegin, DiskFills, sinkVars
  <2>2. stop' \in BOOLEAN /\ flush_req' \in BOOLEAN /\ diskOk' \in BOOLEAN
    BY Zenon DEF TypeOK, WriteBegin, FlushBegin, FlushEnd, CloseBegin, DiskFills, sinkVars, fileVars
  <2> QED
    BY <1>1, <2>1, <2>2 DEF TypeOK, RingTypeOK, ringVars
<1>5. FlushHandshake'
  BY <1>1 DEF FlushHandshake, CloseHandshake, ringVars, WriteBegin, FlushBegin, FlushEnd,
              CloseBegin, DiskFills, fileVars, sinkVars
<1>6. CloseHandshake'
  BY <1>1 DEF CloseHandshake, SyncRing, ringVars, WriteBegin, FlushBegin, FlushEnd, CloseBegin,
              DiskFills, fileVars, sinkVars
<1>7. CloseComplete'
  BY <1>1 DEF CloseComplete, WriteBegin, FlushBegin, FlushEnd, CloseBegin, DiskFills, fileVars, sinkVars
<1>8. RoomForRow'
  BY <1>1 DEF RoomForRow, WriteBegin, FlushBegin, FlushEnd, CloseBegin, DiskFills, sinkVars
<1> QED BY <1>3, <1>4, <1>5, <1>6, <1>7, <1>8

(* The writer thread's tests, and the end of the flush handshake.          *)
LEMMA WriterInv ==
  ASSUME SInv, RunFlushReq \/ RunFlushEmpty \/ RunClear \/ RunIdle \/ RunStopEmpty
  PROVE  SInv'
<1> USE DEF SInv, WriterUnchanged, WriterAt, fileVars
<1>1. /\ UNCHANGED <<ringVars, buffered, disk, diskOk, werr, sent, async, open, stop, owner, flushed>>
      /\ writer' # "copy" /\ writer # "copy" /\ writer' # "none" /\ writer # "none"
  BY DEF RunFlushReq, RunFlushEmpty, RunClear, RunIdle, RunStopEmpty
<1>2. /\ producer # "out" => owner' = "writing"
      /\ ~async => owner' # "writing" /\ owner' # "flushing"
  BY <1>1 DEF RingOrder, SyncRing
<1>3. RingOrder' /\ SyncRing' /\ SlotsHold' /\ FileHolds'
  <2> HIDE DEF SInv
  <2> QED BY <1>1, <1>2, KeepsRows
<1>4. TypeOK'
  <2>1. flush_req' \in BOOLEAN
    BY DEF TypeOK, RunFlushReq, RunFlushEmpty, RunClear, RunIdle, RunStopEmpty
  <2>2. writer' \in {"drain", "empty?", "fflush", "idle", "stop?", "exited"}
    BY DEF RunFlushReq, RunFlushEmpty, RunClear, RunIdle, RunStopEmpty
  <2> QED
    BY <1>1, <2>1, <2>2 DEF TypeOK, RingTypeOK, ringVars
<1>5. FlushHandshake'
  BY <1>1 DEF FlushHandshake, ringVars, empty, RunFlushReq, RunFlushEmpty, RunClear, RunIdle, RunStopEmpty
<1>6. CloseHandshake'
  BY <1>1 DEF CloseHandshake, ringVars, empty, RunFlushReq, RunFlushEmpty, RunClear, RunIdle, RunStopEmpty
<1>7. CloseComplete'
  BY <1>1 DEF CloseComplete, RunFlushReq, RunFlushEmpty, RunClear, RunIdle, RunStopEmpty
<1>8. RoomForRow'
  BY <1>1 DEF RoomForRow
<1> QED BY <1>3, <1>4, <1>5, <1>6, <1>7, <1>8

(* try_write: the slot at tail is nobody else's, and publishing it makes   *)
(* it the newest row of the ring.                                          *)
LEMMA TryWriteInv ==
  ASSUME SInv, WriteTry \/ WriteAssign \/ WritePublish
  PROVE  SInv'
<1>n. /\ head \in Index /\ h \in Index /\ t \in Index /\ tail \in Index /\ sent \in Nat
      /\ Left \in Nat /\ Dist(head, h) \in Nat /\ Dist(h, tail) <= Dist(head, tail)
      /\ Dist(head, tail) \in Nat
  BY Numbers
<1> USE DEF SInv
<1>o. /\ owner = "writing" /\ async /\ open /\ ~flush_req /\ ~stop
      /\ writer \notin {"empty?", "fflush", "clear", "stop?", "exited", "none"}
  BY DEF WriteTry, WriteAssign, WritePublish, SyncRing, FlushHandshake, CloseHandshake
<1>1. CASE WriteTry \/ WriteAssign
  <2>1. /\ UNCHANGED <<head, tail, h, t, count, fileVars, sinkVars>> /\ producer' # "out"
        /\ \E x \in Nat : slots' = [slots EXCEPT ![tail] = x]
    BY <1>1, <1>n DEF WriteTry, WriteAssign, TryBegin, Assigned, Torn
  <2>2. PICK x \in Nat : slots' = [slots EXCEPT ![tail] = x]
    BY <2>1
  <2> USE DEF fileVars, sinkVars
  <2>3. TypeOK'
    BY <1>n, <2>1, <2>2, <1>1 DEF TypeOK, RingTypeOK, WriteTry, WriteAssign, TryBegin, Assigned
  <2>4. Dist(head, tail) < Capacity - 1
    BY <1>n, <1>1, NotFull DEF RingOrder, WriteTry, WriteAssign, TryBegin, Assigned
  <2>5. RingOrder' /\ SyncRing'
    BY <1>o, <2>1, <2>4 DEF RingOrder, SyncRing
  <2>6. Left' = Left /\ InFile' = InFile
    BY <2>1 DEF Left, InFile
  <2>7. SlotsHold'
    <3>1. slots \in [Index -> Nat]
      BY DEF TypeOK, RingTypeOK
    <3>2. \A j \in Index : Dist(h, j) < Left => slots'[j] = slots[j]
      BY <1>n, <2>2, <3>1 DEF Left
    <3>3. producer' = "assigned" => slots'[tail] = sent + 1
      BY <1>n, <1>1, <3>1 DEF WriteTry, WriteAssign, TryBegin, Assigned
    <3> QED
      BY <2>1, <2>6, <3>2, <3>3 DEF SlotsHold
  <2>8. FileHolds' /\ FlushHandshake' /\ CloseHandshake' /\ CloseComplete' /\ RoomForRow'
    BY <2>1, <2>6 DEF FileHolds, FlushHandshake, CloseHandshake, CloseComplete, RoomForRow
  <2> QED BY <2>3, <2>5, <2>7, <2>8
<1>2. CASE WritePublish
  <2>1. /\ UNCHANGED <<slots, head, h, t, count, fileVars, async, open, stop, flush_req, werr, writer, flushed>>
        /\ producer = "assigned" /\ producer' = "out" /\ tail' = NextIndex(tail)
        /\ owner' = "idle" /\ sent' = sent + 1
    BY <1>2 DEF WritePublish, Publish
  <2> USE DEF fileVars
  <2>2. Dist(head, tail) < Capacity - 1 /\ Dist(h, tail) < Capacity - 1
    BY <1>n, <2>1, CapacityAssumption DEF RingOrder, Left
  <2>3. /\ tail' \in Index
        /\ Dist(head, tail') = Dist(head, tail) + 1 /\ Dist(h, tail') = Dist(h, tail) + 1
    BY <1>n, <2>1, <2>2, DistNext, NextIs
  <2>4. TypeOK'
    <3>1. sent' \in 0..MaxRows
      BY <1>n, <1>o, <2>1, SinkAssumption DEF RoomForRow
    <3> QED
      BY <2>1, <2>3, <3>1 DEF TypeOK, RingTypeOK
  <2>5. RingOrder' /\ SyncRing'
    <3>1. Dist(h, t) \in Nat /\ Dist(h, tail) \in Nat
      BY <1>n, DistRange
    <3>2. RingOrder'
      BY <1>n, <2>1, <2>3, <3>1 DEF RingOrder
    <3>3. SyncRing'
      BY <1>o, <2>1 DEF SyncRing
    <3> QED BY <3>2, <3>3
  <2>6. Left' = Left + 1 /\ InFile' = InFile /\ sent' - Left' = sent - Left
    BY <1>n, <2>1, <2>3 DEF Left, InFile
  <2>7. SlotsHold'
    <3>1. Left' <= sent'
      BY <1>n, <2>1, <2>6 DEF SlotsHold
    <3>2. ASSUME NEW j \in Index, Dist(h, j) < Left + 1
          PROVE  slots[j] = sent + 2 - Dist(j, tail')
      <4>0. Dist(h, j) \in Nat /\ Dist(j, tail) \in Nat
        BY <1>n, DistRange
      <4>1. CASE j = tail
        <5>1. Dist(tail, tail') = 1
          BY <1>n, <2>1, DistNext, DistRange, CapacityAssumption
        <5> QED BY <1>n, <2>1, <4>1, <5>1 DEF SlotsHold
      <4>2. CASE j # tail
        <5>1. Dist(h, j) <= Dist(h, tail) /\ Dist(h, j) + Dist(j, tail) = Dist(h, tail)
          BY <1>n, <3>2, <4>0, DistSum DEF Left
        <5>2. Dist(j, tail) # 0
          BY <1>n, <4>2, DistRange
        <5>3. Dist(h, j) < Left
          BY <1>n, <4>0, <5>1, <5>2 DEF Left
        <5>4. Dist(j, tail') = Dist(j, tail) + 1
          BY <1>n, <2>1, <2>2, <4>0, <5>1, DistNext, CapacityAssumption
        <5> QED BY <1>n, <4>0, <5>3, <5>4 DEF SlotsHold
      <4> QED BY <4>1, <4>2
    <3>3. \A j \in Index : Dist(h', j) < Left' => slots'[j] = sent' + 1 - Dist(j, tail')
      <4>1. \A j \in Index : Dist(j, tail') \in Nat
        BY <2>3, DistRange
      <4> QED BY <1>n, <2>1, <2>6, <3>2, <4>1
    <3> QED
      BY <2>1, <3>1, <3>3 DEF SlotsHold
  <2>8. FileHolds'
    BY <2>1, <2>6 DEF FileHolds
  <2>9. FlushHandshake' /\ CloseHandshake' /\ CloseComplete' /\ RoomForRow'
    BY <1>o, <2>1 DEF FlushHandshake, CloseHandshake, CloseComplete, RoomForRow
  <2> QED BY <2>4, <2>5, <2>7, <2>8, <2>9
<1> QED BY <1>1, <1>2

(* drain: it starts at head, takes the oldest row first, and frees what it *)
(* has taken when it is done.                                              *)
LEMMA DrainInv ==
  ASSUME SInv, RunDrain \/ RunRecord \/ RunFree
  PROVE  SInv'
<1>n. /\ head \in Index /\ h \in Index /\ t \in Index /\ tail \in Index /\ sent \in Nat
      /\ flushed \in Nat /\ Left \in Nat /\ sent - Left \in Nat
      /\ Dist(head, h) \in Nat /\ Dist(h, tail) <= Dist(head, tail)
      /\ Dist(head, tail) \in Nat /\ disk \in Seq(Nat) /\ buffered \in Seq(Nat) /\ InFile \in Seq(Nat)
  BY Numbers
<1>d. Dist(h, t) \in Nat /\ Dist(head, tail) <= Capacity - 1 /\ Capacity \in Nat
  BY <1>n, DistRange, CapacityAssumption
<1> USE DEF SInv, WriterUnchanged, WriterAt
<1>1. CASE RunDrain \/ RunFree
  <2>1. /\ UNCHANGED <<slots, tail, producer, fileVars, werr, flush_req, async, open, stop, owner, sent, flushed>>
        /\ h' = h /\ head' \in Index /\ head' = h
        /\ writer \in {"drain", "copy"} /\ writer' \in {"copy", "flush?"}
        /\ writer' = "copy" => t' = tail
        /\ t' \in Index
    BY <1>1, <1>n DEF RunDrain, RunFree, DrainBegin, DrainEnd, RingOrder
  <2>2. count' \in BOOLEAN
    BY <1>1 DEF RunDrain, RunFree, DrainBegin, DrainEnd, TypeOK, RingTypeOK
  <2> USE DEF fileVars
  <2>3. TypeOK'
    BY <1>n, <2>1, <2>2 DEF TypeOK, RingTypeOK
  <2>4. RingOrder' /\ SyncRing'
    <3>1. Dist(h, h) = 0
      BY <1>n, DistRange
    <3>2. RingOrder'
      BY <1>n, <1>d, <2>1, <3>1 DEF RingOrder, Left
    <3>3. SyncRing'
      BY <2>1 DEF SyncRing
    <3> QED BY <3>2, <3>3
  <2>5. Left' = Left /\ InFile' = InFile
    BY <2>1 DEF Left, InFile
  <2>6. SlotsHold' /\ FileHolds' /\ RoomForRow'
    BY <2>1, <2>5 DEF SlotsHold, FileHolds, RoomForRow
  <2>7. FlushHandshake' /\ CloseHandshake' /\ CloseComplete'
    BY <2>1 DEF FlushHandshake, CloseHandshake, CloseComplete
  <2> QED BY <2>3, <2>4, <2>6, <2>7
<1>2. CASE RunRecord
  <2>1. /\ UNCHANGED <<slots, head, tail, producer, t, flush_req, async, open, stop, owner, sent, flushed>>
        /\ h # t /\ h' = NextIndex(h) /\ count' = TRUE
        /\ writer = "copy" /\ writer' = "copy" /\ fwrite(slots[h])
    BY <1>2 DEF RunRecord, DrainRecord
  <2>2. Dist(h, t) # 0 /\ Dist(h, t) <= Left /\ Left # 0
    BY <1>n, <1>d, <2>1, DistRange DEF RingOrder, Left
  <2>3. /\ h' \in Index /\ h # tail
        /\ Dist(head, h') = Dist(head, h) + 1
        /\ Dist(h', tail) = Dist(h, tail) - 1
        /\ Dist(h', t) = Dist(h, t) - 1
    <3>1. h' \in Index /\ h # tail
      BY <1>n, <2>1, <2>2, NextIs, DistRange DEF Left
    <3>2. Dist(head, h) < Capacity - 1
      BY <1>n, <1>d, <2>2 DEF RingOrder, Left
    <3> QED BY <1>n, <2>1, <3>1, <3>2, DistNext
  <2>4. RingOrder' /\ SyncRing'
    <3>1. RingOrder'
      BY <1>n, <1>d, <2>1, <2>2, <2>3 DEF RingOrder, Left
    <3>2. SyncRing'
      BY <2>1 DEF SyncRing
    <3> QED BY <3>1, <3>2
  <2>5. Left' = Left - 1 /\ sent' - Left' = sent - Left + 1 /\ Left' \in Nat
    BY <1>n, <2>1, <2>2, <2>3 DEF Left
  <2>6. slots[h] = sent - Left + 1
    <3>1. Dist(h, h) = 0
      BY <1>n, DistRange
    <3>2. Dist(h, h) < Left
      BY <1>n, <2>2, <3>1
    <3>3. slots[h] = sent + 1 - Left
      BY <1>n, <3>2 DEF SlotsHold, Left
    <3> QED BY <1>n, <3>3
  <2>7. SlotsHold'
    <3>1. ASSUME NEW j \in Index, Dist(h', j) < Left' PROVE Dist(h, j) < Left
      <4>1. Dist(h, j) \in Nat /\ Left <= Capacity - 1
        BY <1>n, <1>d, DistRange DEF Left
      <4>2. j # h
        BY <1>n, <1>d, <2>1, <2>5, <3>1, <4>1, DistNext
      <4>3. Dist(h', j) = Dist(h, j) - 1
        BY <1>n, <2>1, <4>2, DistNext
      <4> QED BY <1>n, <2>5, <3>1, <4>1, <4>3
    <3> QED
      BY <1>n, <2>1, <2>5, <3>1 DEF SlotsHold
  <2>8. /\ disk' \in Seq(Nat) /\ buffered' \in Seq(Nat) /\ diskOk' = diskOk /\ werr' \in BOOLEAN
        /\ diskOk => InFile' = Append(InFile, sent - Left + 1)
        /\ diskOk => \A n \in Nat : OnDisk(disk, n) => OnDisk(disk', n)
    <3>1. slots[h] \in Nat /\ werr \in BOOLEAN
      BY <1>n, <2>6 DEF TypeOK
    <3>2. fwrite(slots[h])
      BY <2>1
    <3> HIDE DEF SInv
    <3> QED BY <1>n, <2>6, <3>1, <3>2, FwriteAppends
  <2>9. FileHolds'
    <3> DEFINE n == sent - Left
    <3>0. n \in Nat /\ sent' - Left' = n + 1 /\ InFile \in Seq(Nat)
      BY <1>n, <2>5
    <3>1. diskOk => Whole(InFile, n)
      BY DEF FileHolds
    <3>2. diskOk => InFile' = Append(InFile, n + 1)
      BY <2>8
    <3> HIDE DEF n
    <3>3. diskOk => Whole(Append(InFile, n + 1), n + 1)
      BY <3>0, <3>1, AppendKeeps
    <3> QED
      BY <2>8, <3>0, <3>2, <3>3 DEF FileHolds
  <2>10. TypeOK'
    BY <2>1, <2>3, <2>8 DEF TypeOK, RingTypeOK
  <2>11. FlushHandshake'
    BY <1>n, <2>1, <2>8 DEF FlushHandshake
  <2>12. CloseHandshake' /\ CloseComplete' /\ RoomForRow'
    BY <2>1 DEF CloseHandshake, CloseComplete, RoomForRow
  <2> QED BY <2>4, <2>7, <2>9, <2>10, <2>11, <2>12
<1> QED BY <1>1, <1>2

(* Rows that are all there are the first rows.                             *)
LEMMA WholeIsFirst ==
  ASSUME NEW rows \in Seq(Nat), NEW n \in Nat, Whole(rows, n)
  PROVE  rows = FirstRows(n) /\ OnDisk(rows, n)
BY DEF Whole, FirstRows, OnDisk

(* fflush and fclose find the ring empty.                                  *)
LEMMA FlushInv ==
  ASSUME SInv, FlushSync \/ RunFflush \/ CloseEnd
  PROVE  SInv'
<1>n. /\ h \in Index /\ tail \in Index /\ sent \in Nat /\ flushed \in Nat
      /\ disk \in Seq(Nat) /\ buffered \in Seq(Nat) /\ InFile \in Seq(Nat)
  BY Numbers
<1> USE DEF SInv
<1>1. UNCHANGED <<ringVars, async, stop, flush_req, werr, sent>>
  BY DEF FlushSync, RunFflush, WriterUnchanged, CloseEnd
<1>2. /\ open /\ owner \in {"idle", "flushing", "joining"} /\ producer = "out"
      /\ owner' \in {"idle", "flushing", "closed"} /\ h = tail
      /\ owner' = "flushing" => owner = "flushing"
      /\ open' => owner # "joining"
      /\ writer' = writer \/ (writer = "fflush" /\ writer' = "clear")
      /\ writer \notin {"copy", "stop?"}
  <2>1. CASE FlushSync
    BY <2>1 DEF FlushSync, RingOrder, SyncRing, CloseHandshake
  <2>2. CASE RunFflush
    BY <2>2 DEF RunFflush, WriterUnchanged, WriterAt, RingOrder, FlushHandshake, CloseHandshake
  <2>3. CASE CloseEnd
    BY <2>3 DEF CloseEnd, RingOrder, SyncRing, CloseHandshake
  <2> QED BY <2>1, <2>2, <2>3
<1>3. /\ disk' \in Seq(Nat) /\ buffered' \in Seq(Nat) /\ diskOk' = diskOk
      /\ diskOk => InFile' = InFile /\ disk' = InFile
      /\ diskOk => \A n \in Nat : OnDisk(disk, n) => OnDisk(disk', n)
  <2>1. fflush \/ fclose
    BY DEF FlushSync, RunFflush, CloseEnd
  <2> HIDE DEF SInv
  <2> QED BY <1>n, <2>1, FlushMoves
<1>4. Left = 0 /\ Left' = 0
  BY <1>n, <1>1, <1>2, DistRange DEF Left, ringVars
<1>5. diskOk => disk' = FirstRows(sent) /\ OnDisk(disk', sent)
  <2>1. diskOk => Whole(InFile, sent)
    BY <1>n, <1>2, <1>4 DEF FileHolds
  <2> QED BY <1>n, <1>3, <2>1, WholeIsFirst
<1>6. TypeOK'
  <2>1. /\ open' \in BOOLEAN /\ flushed' \in 0..MaxRows
    BY DEF FlushSync, RunFflush, WriterUnchanged, CloseEnd, TypeOK
  <2> QED
    BY <1>1, <1>2, <1>3, <2>1 DEF TypeOK, RingTypeOK, ringVars
<1>7. RingOrder' /\ SyncRing' /\ SlotsHold' /\ RoomForRow'
  <2>1. RingOrder'
    BY <1>1, <1>2 DEF RingOrder, ringVars
  <2>2. SyncRing'
    BY <1>1, <1>2 DEF SyncRing, ringVars
  <2>3. SlotsHold'
    BY <1>1, <1>4 DEF SlotsHold, ringVars
  <2> QED BY <1>2, <2>1, <2>2, <2>3 DEF RoomForRow
<1>8. FileHolds'
  <2>1. sent' - Left' = sent /\ sent - Left = sent
    BY <1>n, <1>1, <1>4
  <2> QED
    BY <1>1, <1>3, <2>1 DEF FileHolds
<1>9. FlushHandshake'
  <2>1. CASE FlushSync
    BY <1>n, <1>1, <1>3, <1>5, <2>1 DEF FlushSync, FlushHandshake, ringVars
  <2>2. CASE RunFflush
    BY <1>n, <1>1, <1>3, <1>5, <2>2 DEF RunFflush, WriterAt, WriterUnchanged, FlushHandshake, ringVars
  <2>3. CASE CloseEnd
    BY <1>n, <1>1, <1>3, <1>5, <2>3 DEF CloseEnd, FlushHandshake, ringVars
  <2> QED BY <2>1, <2>2, <2>3
<1>10. CloseHandshake'
  BY <1>1, <1>2 DEF FlushSync, RunFflush, WriterUnchanged, WriterAt, CloseEnd, CloseHandshake, ringVars
<1>11. CloseComplete'
  <2>1. ~open' => CloseEnd
    BY <1>2 DEF FlushSync, RunFflush, WriterUnchanged
  <2> QED
    BY <1>1, <1>3, <1>5, <2>1 DEF CloseEnd, CloseComplete, FirstRows
<1> QED BY <1>6, <1>7, <1>8, <1>9, <1>10, <1>11

(* A row written in sync mode goes to the FILE at once.                    *)
LEMMA WriteSyncInv ==
  ASSUME SInv, WriteSync
  PROVE  SInv'
<1>n. /\ h \in Index /\ tail \in Index /\ sent \in Nat /\ flushed \in Nat
      /\ disk \in Seq(Nat) /\ buffered \in Seq(Nat) /\ InFile \in Seq(Nat)
  BY Numbers
<1> USE DEF SInv
<1>1. /\ UNCHANGED <<ringVars, async, open, stop, flush_req, owner, writer, flushed>>
      /\ owner = "idle" /\ open /\ ~async /\ sent < MaxRows /\ sent' = sent + 1
      /\ fwrite(sent + 1) /\ h = tail /\ producer = "out"
  BY DEF WriteSync, SyncRing, RingOrder
<1>2. Left = 0 /\ Left' = 0 /\ sent' - Left' = sent + 1 /\ sent - Left = sent
  BY <1>n, <1>1, DistRange DEF Left, ringVars
<1>3. /\ disk' \in Seq(Nat) /\ buffered' \in Seq(Nat) /\ diskOk' = diskOk /\ werr' \in BOOLEAN
      /\ diskOk => InFile' = Append(InFile, sent + 1)
      /\ diskOk => \A n \in Nat : OnDisk(disk, n) => OnDisk(disk', n)
  <2>1. sent + 1 \in Nat /\ werr \in BOOLEAN
    BY <1>n DEF TypeOK
  <2> HIDE DEF SInv
  <2> QED BY <1>n, <1>1, <2>1, FwriteAppends
<1>4. TypeOK'
  BY <1>n, <1>1, <1>3, SinkAssumption DEF TypeOK, RingTypeOK, ringVars
<1>5. RingOrder' /\ SyncRing' /\ RoomForRow'
  BY <1>1 DEF RingOrder, SyncRing, RoomForRow, ringVars
<1>6. SlotsHold'
  <2>1. \A j \in Index : Dist(h, j) \in Nat
    BY <1>n, DistRange
  <2> QED
    BY <1>n, <1>1, <1>2, <2>1 DEF SlotsHold, ringVars
<1>7. FileHolds'
  <2>1. diskOk => Whole(Append(InFile, sent + 1), sent + 1)
    BY <1>n, <1>2, AppendKeeps DEF FileHolds
  <2> QED
    BY <1>2, <1>3, <2>1 DEF FileHolds
<1>8. FlushHandshake' /\ CloseHandshake' /\ CloseComplete'
  BY <1>n, <1>1, <1>3 DEF FlushHandshake, CloseHandshake, CloseComplete, ringVars
<1> QED BY <1>4, <1>5, <1>6, <1>7, <1>8

-----------------------------------------------------------------------------

(* A sink that was just opened satisfies the invariant.                    *)
LEMMA SinkInit == Init => SInv
<1> SUFFICES ASSUME Init PROVE SInv
  OBVIOUS
<1>1. /\ Capacity \in Nat /\ Capacity > 1 /\ 0 \in Index /\ Dist(0, 0) = 0
      /\ \A j \in Index : Dist(0, j) \in Nat
  BY CapacityAssumption, DistRange DEF Index, Dist
<1>2. /\ head = 0 /\ tail = 0 /\ h = 0 /\ t = 0 /\ producer = "out" /\ ~count
      /\ slots = [i \in Index |-> 0]
  BY DEF Init, RingInit, Torn
<1>3. /\ disk = <<>> /\ buffered = <<>> /\ sent = 0 /\ flushed = 0 /\ owner = "idle" /\ open
      /\ ~stop /\ ~flush_req /\ ~werr
      /\ writer = IF async THEN "drain" ELSE "none"
  BY DEF Init
<1>4. TypeOK
  BY <1>1, <1>2, <1>3, SinkAssumption DEF Init, RingInit, TypeOK, RingTypeOK
<1>5. RingOrder /\ SyncRing /\ RoomForRow
  BY <1>1, <1>2, <1>3 DEF RingOrder, SyncRing, RoomForRow
<1>6. Left = 0 /\ SlotsHold
  BY <1>1, <1>2, <1>3 DEF Left, SlotsHold
<1>7. InFile = <<>> /\ Len(InFile) = 0
  BY <1>3 DEF InFile
<1>8. FileHolds
  BY <1>3, <1>6, <1>7 DEF FileHolds, Whole
<1>9. FlushHandshake /\ CloseHandshake /\ CloseComplete
  BY <1>3 DEF FlushHandshake, CloseHandshake, CloseComplete, OnDisk
<1> QED
  BY <1>4, <1>5, <1>6, <1>8, <1>9 DEF SInv

(* Every step of the two threads and the disk keeps it.                    *)
LEMMA SinkNext == SInv /\ [Next]_vars => SInv'
<1> SUFFICES ASSUME SInv, [Next]_vars PROVE SInv'
  OBVIOUS
<1>1. CASE WriteBegin \/ FlushBegin \/ FlushEnd \/ CloseBegin \/ DiskFills
  BY <1>1, OwnerInv
<1>2. CASE RunFlushReq \/ RunFlushEmpty \/ RunClear \/ RunIdle \/ RunStopEmpty
  BY <1>2, WriterInv
<1>3. CASE WriteTry \/ WriteAssign \/ WritePublish
  BY <1>3, TryWriteInv
<1>4. CASE RunDrain \/ RunRecord \/ RunFree
  BY <1>4, DrainInv
<1>5. CASE FlushSync \/ RunFflush \/ CloseEnd
  BY <1>5, FlushInv
<1>6. CASE WriteSync
  BY <1>6, WriteSyncInv
<1>7. CASE UNCHANGED vars
  <2>1. /\ UNCHANGED <<ringVars, buffered, disk, diskOk, werr, sent, async, open, stop, flush_req, owner, writer, flushed>>
    BY <1>7 DEF vars, fileVars, sinkVars
  <2>2. /\ producer # "out" => owner' = "writing"
        /\ ~async => owner' # "writing" /\ owner' # "flushing"
    BY <2>1 DEF SInv, RingOrder, SyncRing
  <2>3. RingOrder' /\ SyncRing' /\ SlotsHold' /\ FileHolds'
    BY <2>1, <2>2, KeepsRows
  <2> QED
    BY <2>1, <2>3
    DEF SInv, TypeOK, RingTypeOK, ringVars, FlushHandshake, CloseHandshake, CloseComplete, RoomForRow
<1> QED
  BY <1>1, <1>2, <1>3, <1>4, <1>5, <1>6, <1>7 DEF Next, Call, Calling, run, Closed

(* The inductive invariant of the sink.                                    *)
THEOREM SinkInvariant == Spec => []SInv
BY SinkInit, SinkNext, PTL DEF Spec

(* Types are kept by both threads.                                         *)
THEOREM SinkTypeCorrect == Spec => []TypeOK
<1>1. SInv => TypeOK
  BY DEF SInv
<1> QED
  BY <1>1, SinkInvariant, PTL

-----------------------------------------------------------------------------
(* What the ring holds.                                                    *)

(* The rows left, read off the slots as drain would.  Stated of any slots  *)
(* and indices so that it serves for both states of a step.                *)
LEMMA LeftAre ==
  ASSUME NEW a \in Index, NEW b \in Index, NEW n \in Nat, NEW store,
         \A j \in Index : Dist(a, j) < Dist(a, b) => store[j] = n + 1 - Dist(j, b)
  PROVE  [i \in 1..((b + Capacity - a) % Capacity) |-> store[(a + i - 1) % Capacity]]
           = [i \in 1..Dist(a, b) |-> n - Dist(a, b) + i]
<1>c. Capacity \in Nat /\ Capacity > 1 /\ a \in Nat /\ b \in Nat /\ a < Capacity /\ b < Capacity
  BY CapacityAssumption DEF Index
<1>1. (b + Capacity - a) % Capacity = Dist(a, b)
  <2> DEFINE x == b + Capacity - a
  <2>1. x \in 0..(2 * Capacity - 1)
    BY <1>c
  <2> HIDE DEF x
  <2>2. x % Capacity = IF x < Capacity THEN x ELSE x - Capacity
    BY <1>c, <2>1, ModWrap
  <2> QED BY <1>c, <2>2 DEF x, Dist
<1>d. Dist(a, b) \in 0..(Capacity - 1)
  BY DistRange
<1>2. ASSUME NEW i \in 1..Dist(a, b)
      PROVE  store[(a + i - 1) % Capacity] = n - Dist(a, b) + i
  <2> DEFINE x == a + i - 1
             j == x % Capacity
  <2>1. x \in 0..(2 * Capacity - 1) /\ i \in Nat /\ i >= 1 /\ i <= Capacity - 1
    BY <1>c, <1>d
  <2> HIDE DEF x
  <2>2. x % Capacity = IF x < Capacity THEN x ELSE x - Capacity
    BY <1>c, <2>1, ModWrap
  <2>3. j \in Index /\ j = IF a + i - 1 < Capacity THEN a + i - 1 ELSE a + i - 1 - Capacity
    BY <1>c, <2>1, <2>2 DEF x, Index
  <2> HIDE DEF j
  <2>4. Dist(a, j) = i - 1
    BY <1>c, <2>1, <2>3 DEF Dist
  <2>5. Dist(a, j) < Dist(a, b) /\ Dist(a, j) + Dist(j, b) = Dist(a, b)
    BY <1>d, <2>1, <2>3, <2>4, DistSum
  <2>6. Dist(j, b) \in Nat
    BY <2>3, DistRange
  <2>7. store[j] = n - Dist(a, b) + i
    BY <1>d, <2>1, <2>3, <2>4, <2>5, <2>6
  <2> QED BY <2>7 DEF x, j
<1> QED
  BY <1>1, <1>2

(* So the ring holds the rows after those given to the FILE.               *)
LEMMA PendingIs ==
  ASSUME SInv
  PROVE  Pending = [i \in 1..Left |-> sent - Left + i]
<1>1. h \in Index /\ tail \in Index /\ sent \in Nat
  BY Numbers
<1>2. \A j \in Index : Dist(h, j) < Dist(h, tail) => slots[j] = sent + 1 - Dist(j, tail)
  BY DEF SInv, SlotsHold, Left
<1> QED
  BY <1>1, <1>2, LeftAre DEF Pending, Left

(* The same after a step.                                                  *)
LEMMA PendingIsNext ==
  ASSUME SInv, SInv'
  PROVE  Pending' = [i \in 1..Left' |-> sent' - Left' + i]
<1>1. h' \in Index /\ tail' \in Index /\ sent' \in Nat
  BY SinkAssumption DEF SInv, TypeOK, RingTypeOK
<1>2. \A j \in Index : Dist(h', j) < Dist(h', tail') => slots'[j] = sent' + 1 - Dist(j, tail')
  BY DEF SInv, SlotsHold, Left
<1> QED
  BY <1>1, <1>2, LeftAre DEF Pending, Left

-----------------------------------------------------------------------------

(* While the disk has room every row handed to write is in the file or in  *)
(* the ring, once, whole and in order.                                     *)
THEOREM RowsArePreserved == Spec => []RowsPreserved
<1>1. SInv => RowsPreserved
  <2> SUFFICES ASSUME SInv, diskOk PROVE Rows = FirstRows(sent)
    BY DEF RowsPreserved
  <2>n. /\ sent \in Nat /\ Left \in Nat /\ sent - Left \in Nat /\ InFile \in Seq(Nat)
        /\ disk \in Seq(Nat) /\ buffered \in Seq(Nat)
    BY Numbers
  <2>p. Pending = [i \in 1..Left |-> sent - Left + i]
    BY PendingIs
  <2> DEFINE L == Len(InFile)
             n == sent - Left
  <2>1. Pending \in Seq(Nat) /\ Len(Pending) = Left
    BY <2>n, <2>p
  <2>2. Rows = InFile \o Pending
    BY <2>n, <2>1 DEF Rows, InFile
  <2>3. /\ L \in Nat /\ Rows \in Seq(Nat) /\ DOMAIN Rows = 1..(L + Left)
        /\ \A i \in 1..L : Rows[i] = InFile[i]
        /\ \A i \in 1..Left : Rows[L + i] = n + i
    <3>0. /\ InFile \o Pending \in Seq(Nat) /\ Len(InFile \o Pending) = L + Len(Pending)
          /\ \A i \in 1..L : (InFile \o Pending)[i] = InFile[i]
          /\ \A i \in 1..Len(Pending) : (InFile \o Pending)[L + i] = Pending[i]
      BY <2>n, <2>1, Concat, Zenon
    <3> HIDE DEF L, n
    <3>1. /\ Rows \in Seq(Nat) /\ Len(Rows) = L + Left
          /\ \A i \in 1..L : Rows[i] = InFile[i]
          /\ \A i \in 1..Left : Rows[L + i] = Pending[i]
      BY <2>1, <2>2, <3>0, Zenon
    <3>2. L \in Nat /\ DOMAIN Rows = 1..(L + Left)
      BY <2>n, <3>1 DEF L
    <3> QED BY <2>n, <2>p, <3>1, <3>2 DEF n
  <2>4. Whole(InFile, n)
    BY DEF SInv, FileHolds
  <2>l. n \in Nat /\ n + Left = sent
    BY <2>n
  <2> HIDE DEF L, n
  <2>5. L = n /\ \A i \in 1..L : InFile[i] = i
    BY <2>4 DEF Whole, L
  <2>6. DOMAIN Rows = 1..sent
    BY <2>3, <2>l, <2>5
  <2>7. ASSUME NEW i \in 1..sent PROVE Rows[i] = i
    <3>1. CASE i \in 1..L
      BY <2>3, <2>5, <3>1
    <3>2. CASE i \notin 1..L
      <4>1. i - L \in 1..Left /\ i = L + (i - L)
        BY <2>n, <2>3, <2>l, <2>5, <3>2
      <4>2. Rows[i] = n + (i - L)
        BY <2>3, <4>1
      <4> QED BY <2>3, <2>5, <4>2
    <3> QED BY <3>1, <3>2
  <2>8. Whole(Rows, sent)
    BY <2>n, <2>3, <2>6, <2>7 DEF Whole
  <2> QED BY <2>n, <2>3, <2>8, WholeIsFirst
<1> QED
  BY <1>1, SinkInvariant, PTL

(* try_write never assigns a slot that drain may read.                     *)
THEOREM SlotsAreNotRaced == Spec => []NoSlotRace
<1>1. SInv => NoSlotRace
  <2> SUFFICES ASSUME SInv, writer = "copy", h # t,
                      NEW i \in 0..((t + Capacity - h - 1) % Capacity)
               PROVE  tail # (h + i) % Capacity
    BY DEF NoSlotRace
  <2>n. h \in Index /\ t \in Index /\ tail \in Index
    BY Numbers
  <2>c. /\ Capacity \in Nat /\ Capacity > 1 /\ h \in Nat /\ t \in Nat
        /\ h < Capacity /\ t < Capacity
    BY <2>n, CapacityAssumption DEF Index
  <2>1. (t + Capacity - h - 1) % Capacity = Dist(h, t) - 1
    <3> DEFINE x == t + Capacity - h - 1
    <3>1. x \in 0..(2 * Capacity - 1)
      BY <2>c
    <3> HIDE DEF x
    <3>2. x % Capacity = IF x < Capacity THEN x ELSE x - Capacity
      BY <2>c, <3>1, ModWrap
    <3> QED BY <2>c, <3>2 DEF x, Dist
  <2>2. Dist(h, t) \in 0..(Capacity - 1) /\ Dist(h, t) <= Dist(h, tail)
    BY <2>n, DistRange DEF SInv, RingOrder
  <2>3. i \in Nat /\ i < Dist(h, t)
    BY <2>1, <2>2
  <2>4. (h + i) % Capacity = IF h + i < Capacity THEN h + i ELSE h + i - Capacity
    <3> DEFINE x == h + i
    <3>1. x \in 0..(2 * Capacity - 1)
      BY <2>c, <2>2, <2>3
    <3> HIDE DEF x
    <3>2. x % Capacity = IF x < Capacity THEN x ELSE x - Capacity
      BY <2>c, <3>1, ModWrap
    <3> QED BY <2>c, <2>3, <3>2 DEF x
  <2> QED
    BY <2>c, <2>n, <2>2, <2>3, <2>4 DEF Dist, Index
<1> QED
  BY <1>1, SinkInvariant, PTL

(* A flush that returned has put every row written before it on disk, if   *)
(* the disk has had room.                                                  *)
THEOREM FlushIsDurable == Spec => []FlushDurable
<1>1. SInv => FlushDurable
  <2> SUFFICES ASSUME SInv, diskOk
               PROVE  Len(disk) >= flushed /\ SubSeq(disk, 1, flushed) = FirstRows(flushed)
    BY DEF FlushDurable
  <2>1. flushed \in Nat /\ disk \in Seq(Nat)
    BY Numbers
  <2>2. Len(disk) >= flushed /\ \A i \in 1..flushed : disk[i] = i
    BY DEF SInv, FlushHandshake, OnDisk
  <2>3. SubSeq(disk, 1, flushed) = [i \in 1..flushed |-> disk[i]]
    BY <2>1, <2>2
  <2> QED BY <2>2, <2>3 DEF FirstRows
<1> QED
  BY <1>1, SinkInvariant, PTL

(* close leaves nothing behind and no thread that could touch the FILE.    *)
THEOREM CloseIsComplete == Spec => []CloseComplete
<1>1. SInv => CloseComplete
  BY DEF SInv
<1> QED
  BY <1>1, SinkInvariant, PTL

-----------------------------------------------------------------------------

(* The ring under both threads implements the bounded first-in first-out   *)
(* queue of RowQueue: publishing puts a row, an iteration of drain takes   *)
(* the oldest, and nothing else changes what is in it.                     *)
THEOREM RingImplementsQueue == Spec => RingIsQueue
<1>1. Init => Queue!Init
  <2> SUFFICES ASSUME Init PROVE Pending = <<>> /\ sent = 0
    BY DEF Queue!Init
  <2>1. SInv /\ Left = 0
    BY SinkInit, CapacityAssumption DEF Init, RingInit, Left, Dist
  <2>2. Pending = [i \in 1..Left |-> sent - Left + i]
    BY <2>1, PendingIs
  <2> QED BY <2>1, <2>2 DEF Init
<1>2. SInv /\ SInv' /\ [Next]_vars => [Queue!Next]_(Queue!vars)
  <2> SUFFICES ASSUME SInv, SInv', [Next]_vars PROVE [Queue!Next]_(Queue!vars)
    OBVIOUS
  <2>n. /\ h \in Index /\ t \in Index /\ tail \in Index /\ head \in Index /\ sent \in Nat
        /\ Left \in Nat /\ sent - Left \in Nat /\ Dist(h, tail) <= Dist(head, tail)
        /\ Dist(head, tail) \in Nat
    BY Numbers
  <2>p. Pending = [i \in 1..Left |-> sent - Left + i]
    BY PendingIs
  <2>q. Pending' = [i \in 1..Left' |-> sent' - Left' + i]
    BY PendingIsNext
  <2>l. Pending \in Seq(Nat) /\ Len(Pending) = Left
    BY <2>n, <2>p
  <2>1. CASE WritePublish
    <3>1. Left < Capacity - 1 /\ Left' = Left + 1 /\ sent' = sent + 1
      <4>1. producer = "assigned" /\ tail' = NextIndex(tail) /\ h' = h /\ sent' = sent + 1
        BY <2>1 DEF WritePublish, Publish
      <4>2. Left < Capacity - 1
        BY <2>n, <4>1, CapacityAssumption DEF SInv, RingOrder, Left
      <4> QED BY <2>n, <4>1, <4>2, DistNext DEF Left
    <3>2. Pending' = Append(Pending, sent')
      <4>1. Append(Pending, sent + 1) = [i \in 1..(Left + 1) |-> sent - Left + i]
        BY <2>n, <2>p, <2>l
      <4>2. sent' - Left' = sent - Left
        BY <2>n, <3>1
      <4> QED BY <2>q, <3>1, <4>1, <4>2
    <3> QED BY <2>l, <3>1, <3>2 DEF Queue!Next, Queue!Put
  <2>2. CASE RunRecord
    <3>1. Left # 0 /\ Left' = Left - 1 /\ sent' = sent
      <4>1. h # t /\ h' = NextIndex(h) /\ tail' = tail /\ sent' = sent /\ writer = "copy"
        BY <2>2 DEF RunRecord, DrainRecord, WriterUnchanged, WriterAt
      <4>2. Dist(h, t) \in Nat /\ Dist(h, t) # 0 /\ Dist(h, t) <= Left
        BY <2>n, <4>1, DistRange DEF SInv, RingOrder, Left
      <4>3. h # tail
        BY <2>n, <4>2, DistRange DEF Left
      <4> QED BY <2>n, <4>1, <4>2, <4>3, DistNext DEF Left
    <3>2. Pending # <<>>
      BY <2>l, <3>1
    <3>3. Pending' = Tail(Pending)
      <4>1. Tail(Pending) = [i \in 1..(Left - 1) |-> sent - Left + (i + 1)]
        BY <2>n, <2>p, <2>l, <3>1
      <4>2. sent' - Left' = sent - Left + 1
        BY <2>n, <3>1
      <4>3. \A i \in 1..(Left - 1) : sent - Left + (i + 1) = sent - Left + 1 + i
        BY <2>n
      <4> QED BY <2>q, <3>1, <4>1, <4>2, <4>3
    <3> QED BY <3>1, <3>2, <3>3 DEF Queue!Next, Queue!Get
  <2>3. CASE WriteSync
    <3>1. Left = 0 /\ Left' = 0 /\ sent' = sent + 1
      BY <2>3, <2>n, DistRange DEF WriteSync, SInv, SyncRing, Left, ringVars
    <3>2. Pending = <<>> /\ Pending' = <<>>
      BY <2>p, <2>q, <3>1
    <3> QED BY <3>1, <3>2 DEF Queue!Next, Queue!Pass
  <2>4. CASE ~(WritePublish \/ RunRecord \/ WriteSync)
    <3>1. tail' = tail /\ sent' = sent /\ (h' = h \/ RunDrain)
      BY <2>4
      DEF vars, ringVars, sinkVars, Next, Call, Calling, run, Closed, WriteBegin, FlushSync,
          FlushBegin, CloseBegin, WriteTry, TryBegin, WriteAssign, Assigned, FlushEnd,
          CloseEnd, RunDrain, DrainBegin, RunFree, DrainEnd, RunFlushReq, RunFlushEmpty,
          RunFflush, RunClear, RunIdle, RunStopEmpty, WriterUnchanged, DiskFills
    <3>2. RunDrain => h' = h
      BY DEF RunDrain, DrainBegin, WriterAt, SInv, RingOrder
    <3>3. Left' = Left
      BY <3>1, <3>2 DEF Left
    <3> QED BY <2>p, <2>q, <3>1, <3>3 DEF Queue!vars
  <2> QED BY <2>1, <2>2, <2>3, <2>4
<1> QED
  BY <1>1, <1>2, SinkInvariant, PTL DEF Spec, RingIsQueue, Queue!Spec

=============================================================================
