--------------------------- MODULE WsClientProofs ---------------------------
(***************************************************************************)
(* What holds of WsClientBeast::run for every duration and any number of   *)
(* connections and frames, wherever stop() or the deadline strikes.        *)
(*                                                                         *)
(* Frames are numbered without a gap only because a connection is never    *)
(* tried twice under one conn_epoch (Numbering), and stop() is prompt only *)
(* because a late frame leaves ioc stopped for good (LateIsLast).  The     *)
(* types need both bounds to be respected by what is already queued.       *)
(***************************************************************************)
EXTENDS WsClient, TLAPS

Handlers == {"ok", "error", "tick", "abort"}

(* Those of the operation chain.                                           *)
IoHandlers == {"ok", "error"}

(* At most one handler of the operation chain is queued, and only while    *)
(* its operation is outstanding.                                           *)
OneOutstanding ==
  /\ \A i, j \in DOMAIN ready : ready[i] \in IoHandlers /\ ready[j] \in IoHandlers => i = j
  /\ op = "none" => \A i \in DOMAIN ready : ready[i] \notin IoHandlers

(* What was queued within the bounds of the model can still be handled     *)
(* within them.                                                            *)
WithinBounds ==
  pc = "run" => \A i \in DOMAIN ready :
    /\ ready[i] = "ok" /\ op = "read" => conn_seq < MaxSeq
    /\ ready[i] = "error" => conn_epoch < MaxEpoch

(* run comes back for another attempt only after a failure, or it is over. *)
AfterFailure ==
  /\ stopped => Over
  /\ pc = "after" \/ (pc = "run" /\ op = "none") => Over \/ conn_epoch < MaxEpoch

(* No frame was delivered under this conn_epoch.                           *)
Fresh == delivered[1] < conn_epoch \/ (delivered = <<0, 0>> /\ conn_epoch = 0)

Numbering ==
  /\ delivered[1] <= conn_epoch
  /\ pc \in {"loop", "sleep"} \/ (pc = "run" /\ op \notin {"read", "none"}) => Fresh
  /\ pc = "run" /\ op = "read" =>
       delivered = <<conn_epoch, conn_seq>> \/ (delivered[1] < conn_epoch /\ conn_seq = 0)

(* A frame delivered after stop() ended ioc.run() for good.                *)
LateIsLast == late = 0 \/ (late = 1 /\ stop /\ stopped)

WInv ==
  /\ TypeOK
  /\ OneOutstanding
  /\ WithinBounds
  /\ AfterFailure
  /\ Numbering
  /\ LateIsLast

-----------------------------------------------------------------------------
(* The queue of handlers.                                                  *)

(* Taking the first handler, with wd.cancel() or without: the rest of the  *)
(* operation chain's handlers stay as they were, and there are none if the *)
(* first was one of them.                                                  *)
LEMMA Dequeued ==
  ASSUME WInv, ready # <<>>,
         ready' = Tail(ready) \/ ready' = Append(Tail(ready), "abort")
  PROVE  /\ ready' \in Seq(Handlers)
         /\ 1 \in DOMAIN ready /\ Head(ready) = ready[1]
         /\ \A i \in DOMAIN ready' : ready'[i] \in IoHandlers =>
              i \in Nat /\ i > 0 /\ i + 1 \in DOMAIN ready /\ ready'[i] = ready[i + 1]
         /\ Head(ready) \in IoHandlers => \A i \in DOMAIN ready' : ready'[i] \notin IoHandlers
         /\ \A i, j \in DOMAIN ready' : ready'[i] \in IoHandlers /\ ready'[j] \in IoHandlers => i = j
<1>1. ready \in Seq(Handlers)
  BY DEF WInv, TypeOK, Handlers
<1>2. /\ Tail(ready) \in Seq(Handlers) /\ 1 \in DOMAIN ready /\ Head(ready) = ready[1]
      /\ \A i \in DOMAIN Tail(ready) : /\ i \in Nat /\ i > 0 /\ i + 1 \in DOMAIN ready
                                       /\ Tail(ready)[i] = ready[i + 1]
  BY <1>1
<1>3. /\ ready' \in Seq(Handlers)
      /\ \A i \in DOMAIN ready' :
           ready'[i] = "abort" \/ (i \in DOMAIN Tail(ready) /\ ready'[i] = Tail(ready)[i])
  <2> DEFINE q == Tail(ready)
  <2>1. q \in Seq(Handlers) /\ "abort" \in Handlers
    BY <1>2 DEF Handlers
  <2>2. ready' = q \/ ready' = Append(q, "abort")
    OBVIOUS
  <2> HIDE DEF q
  <2>3. /\ ready' \in Seq(Handlers)
        /\ \A i \in DOMAIN ready' : ready'[i] = "abort" \/ (i \in DOMAIN q /\ ready'[i] = q[i])
    <3>1. CASE ready' = q
      BY <2>1, <3>1
    <3>2. CASE ready' = Append(q, "abort")
      BY <2>1, <3>2
    <3> QED BY <2>2, <3>1, <3>2
  <2> QED BY <2>3 DEF q
<1>4. \A i \in DOMAIN ready' : ready'[i] \in IoHandlers =>
              i \in Nat /\ i > 0 /\ i + 1 \in DOMAIN ready /\ ready'[i] = ready[i + 1]
  BY <1>2, <1>3 DEF IoHandlers
<1>5. \A i, j \in DOMAIN ready : ready[i] \in IoHandlers /\ ready[j] \in IoHandlers => i = j
  BY DEF WInv, OneOutstanding
<1>6. ASSUME Head(ready) \in IoHandlers, NEW i \in DOMAIN ready', ready'[i] \in IoHandlers
      PROVE  FALSE
  <2>1. i \in Nat /\ i > 0 /\ i + 1 \in DOMAIN ready /\ ready[i + 1] \in IoHandlers
    BY <1>4, <1>6
  <2>2. i + 1 = 1
    BY <1>2, <1>5, <1>6, <2>1
  <2> QED BY <2>1, <2>2
<1>7. ASSUME NEW i \in DOMAIN ready', NEW j \in DOMAIN ready',
             ready'[i] \in IoHandlers, ready'[j] \in IoHandlers
      PROVE  i = j
  <2>1. /\ i \in Nat /\ i + 1 \in DOMAIN ready /\ ready[i + 1] \in IoHandlers
        /\ j \in Nat /\ j + 1 \in DOMAIN ready /\ ready[j + 1] \in IoHandlers
    BY <1>4, <1>7
  <2>2. i + 1 = j + 1
    BY <1>5, <2>1
  <2> QED BY <2>1, <2>2
<1> QED
  BY <1>2, <1>3, <1>4, <1>6, <1>7

(* Queueing a handler.                                                     *)
LEMMA Enqueued ==
  ASSUME WInv, NEW x \in Handlers, ready' = Append(ready, x),
         x \in IoHandlers => \A i \in DOMAIN ready : ready[i] \notin IoHandlers
  PROVE  /\ ready' \in Seq(Handlers)
         /\ \A i \in DOMAIN ready' : ready'[i] = x \/ (i \in DOMAIN ready /\ ready'[i] = ready[i])
         /\ \A i, j \in DOMAIN ready' : ready'[i] \in IoHandlers /\ ready'[j] \in IoHandlers => i = j
<1>1. ready \in Seq(Handlers)
  BY DEF WInv, TypeOK, Handlers
<1>2. /\ ready' \in Seq(Handlers)
      /\ \A i \in DOMAIN ready' : \/ i = Len(ready) + 1 /\ ready'[i] = x
                                  \/ i \in DOMAIN ready /\ ready'[i] = ready[i]
  BY <1>1
<1>3. \A i, j \in DOMAIN ready : ready[i] \in IoHandlers /\ ready[j] \in IoHandlers => i = j
  BY DEF WInv, OneOutstanding
<1> QED
  BY <1>2, <1>3

-----------------------------------------------------------------------------

(* Over is stable: nothing resets stop_ and the clock does not go back.    *)
LEMMA OverStays ==
  ASSUME TypeOK, Over, stop => stop', now' = now \/ now' = Deadline
  PROVE  Over'
BY WsAssumption DEF Over, Deadline, TypeOK

(* The deadline is a number of seconds.                                    *)
LEMMA DeadlineNat == Deadline \in Nat
BY WsAssumption DEF Deadline

(* Doubling the wait, up to 15 seconds.                                    *)
LEMMA Doubled ==
  /\ MinBackoff \in MinBackoff..MaxBackoff
  /\ \A b \in MinBackoff..MaxBackoff :
       (IF b * 2 < MaxBackoff THEN b * 2 ELSE MaxBackoff) \in MinBackoff..MaxBackoff
<1>1. MinBackoff \in Nat /\ MaxBackoff \in Nat /\ MinBackoff <= MaxBackoff
  BY DEF MinBackoff, MaxBackoff
<1> QED BY <1>1

(* stop(), the clock and the network.                                      *)
LEMMA SurroundingsInv ==
  ASSUME WInv, StopCalled \/ DeadlinePasses \/ IoCompletes \/ TimerExpires
  PROVE  WInv'
<1>1. CASE StopCalled \/ DeadlinePasses
  <2> USE DEF WInv
  <2>1. /\ UNCHANGED <<pc, connVars, ioVars, historyVars>>
        /\ stop => stop'
        /\ now' = now \/ now' = Deadline
        /\ stop' \in BOOLEAN
    <3>1. CASE StopCalled
      BY <3>1 DEF StopCalled
    <3>2. CASE DeadlinePasses
      BY <3>2 DEF DeadlinePasses, TypeOK
    <3> QED BY <1>1, <3>1, <3>2
  <2> USE DEF connVars, ioVars, historyVars
  <2>2. Over => Over'
    BY <2>1, OverStays
  <2>3. TypeOK'
    BY <2>1, DeadlineNat DEF TypeOK, Deadline
  <2>4. OneOutstanding' /\ WithinBounds'
    BY <2>1 DEF OneOutstanding, WithinBounds
  <2>5. AfterFailure' /\ LateIsLast'
    BY <2>1, <2>2 DEF AfterFailure, LateIsLast
  <2>6. Numbering'
    BY <2>1 DEF Numbering, Fresh
  <2> QED BY <2>3, <2>4, <2>5, <2>6
<1>2. CASE IoCompletes \/ TimerExpires
  <2>1. /\ UNCHANGED <<pc, stop, now, connVars, op, stopped, historyVars>> /\ pc = "run"
        /\ wd' \in {"idle", "waiting", "queued"}
    BY <1>2 DEF IoCompletes, TimerExpires, WInv, TypeOK
  <2>2. PICK x \in Handlers :
             /\ ready' = Append(ready, x)
             /\ x \in IoHandlers => IoPending
             /\ x = "ok" /\ op = "read" => conn_seq < MaxSeq
             /\ x = "error" => conn_epoch < MaxEpoch
    BY <1>2 DEF IoCompletes, TimerExpires, Handlers, IoHandlers
  <2>3. /\ ready' \in Seq(Handlers)
        /\ \A i \in DOMAIN ready' : ready'[i] = x \/ (i \in DOMAIN ready /\ ready'[i] = ready[i])
        /\ \A i, j \in DOMAIN ready' : ready'[i] \in IoHandlers /\ ready'[j] \in IoHandlers => i = j
    BY <2>2, Enqueued DEF IoPending, IoHandlers
  <2> USE DEF WInv, connVars, historyVars
  <2>4. TypeOK'
    BY <2>1, <2>3 DEF TypeOK, Deadline, Handlers
  <2>5. OneOutstanding'
    BY <2>1, <2>2, <2>3 DEF OneOutstanding, IoPending
  <2>6. WithinBounds'
    BY <2>1, <2>2, <2>3 DEF WithinBounds
  <2>7. AfterFailure' /\ LateIsLast' /\ Numbering'
    BY <2>1 DEF AfterFailure, Over, Deadline, LateIsLast, Numbering, Fresh
  <2> QED BY <2>4, <2>5, <2>6, <2>7
<1> QED BY <1>1, <1>2

(* The handlers ioc.run() executes.                                        *)
LEMMA HandlersInv ==
  ASSUME WInv,
         IoFailed \/ SetupContinues \/ Connected \/ FrameRead \/ WatchdogTick \/ WatchdogAborted
  PROVE  WInv'
<1>1. /\ UNCHANGED <<pc, stop, now, conn_epoch>> /\ pc = "run" /\ ~stopped /\ ready # <<>>
      /\ ready' = Tail(ready) \/ ready' = Append(Tail(ready), "abort")
  BY DEF IoFailed, SetupContinues, Connected, FrameRead, Deliver, WatchdogTick,
         WatchdogAborted, Handle, Cancel, connVars
<1>2. /\ ready' \in Seq(Handlers)
      /\ 1 \in DOMAIN ready /\ Head(ready) = ready[1]
      /\ \A i \in DOMAIN ready' : ready'[i] \in IoHandlers =>
           i + 1 \in DOMAIN ready /\ ready'[i] = ready[i + 1]
      /\ Head(ready) \in IoHandlers => \A i \in DOMAIN ready' : ready'[i] \notin IoHandlers
      /\ \A i, j \in DOMAIN ready' : ready'[i] \in IoHandlers /\ ready'[j] \in IoHandlers => i = j
  BY <1>1, Dequeued
<1>3. Over' <=> Over
  BY <1>1 DEF Over, Deadline
<1>4. wd' \in {"idle", "waiting", "queued"} /\ stopped' \in BOOLEAN
  <2>1. wd' \in {"idle", "waiting", "queued"}
    BY DEF WInv, TypeOK, IoFailed, SetupContinues, Connected, FrameRead, WatchdogTick,
           WatchdogAborted, Cancel
  <2>2. Over \in BOOLEAN /\ stopped \in BOOLEAN
    BY DEF Over, WInv, TypeOK
  <2>3. CASE IoFailed \/ SetupContinues \/ Connected \/ WatchdogAborted
    BY <2>1, <2>2, <2>3 DEF IoFailed, SetupContinues, Connected, WatchdogAborted
  <2>4. CASE FrameRead
    BY <2>1, <2>2, <2>4 DEF FrameRead
  <2>5. CASE WatchdogTick
    BY <2>1, <2>2, <2>5 DEF WatchdogTick
  <2> QED BY <2>3, <2>4, <2>5
<1>5. late = 0 /\ late \in Nat
  BY <1>1 DEF WInv, LateIsLast, TypeOK
<1> USE DEF WInv
<1>6. CASE IoFailed
  <2>1. /\ op' = "none" /\ UNCHANGED <<connVars, stopped, historyVars>> /\ Head(ready) = "error"
        /\ conn_epoch < MaxEpoch
    BY <1>2, <1>6 DEF IoFailed, Handle, WithinBounds
  <2> USE DEF connVars, historyVars
  <2>2. TypeOK'
    BY <1>1, <1>2, <1>4, <2>1 DEF TypeOK, Deadline, Handlers
  <2>3. OneOutstanding' /\ WithinBounds'
    BY <1>2, <2>1 DEF OneOutstanding, WithinBounds, IoHandlers
  <2>4. AfterFailure' /\ LateIsLast' /\ Numbering'
    BY <1>1, <1>3, <2>1 DEF AfterFailure, LateIsLast, Numbering, Fresh
  <2> QED BY <2>2, <2>3, <2>4
<1>7. CASE SetupContinues
  <2>1. /\ op \in {"resolve", "connect", "tls"} /\ op' \in {"connect", "tls", "handshake"}
        /\ UNCHANGED <<connVars, stopped, historyVars>> /\ Head(ready) = "ok"
    BY <1>7 DEF SetupContinues, SetupNext, Handle
  <2> USE DEF connVars, historyVars
  <2>2. TypeOK'
    BY <1>1, <1>2, <1>4, <2>1 DEF TypeOK, Deadline, Handlers
  <2>3. OneOutstanding' /\ WithinBounds'
    BY <1>2, <2>1 DEF OneOutstanding, WithinBounds, IoHandlers
  <2>4. AfterFailure' /\ LateIsLast' /\ Numbering'
    BY <1>1, <1>3, <2>1 DEF AfterFailure, LateIsLast, Numbering, Fresh
  <2> QED BY <2>2, <2>3, <2>4
<1>8. CASE Connected
  <2>1. /\ op = "handshake" /\ op' = "read" /\ conn_seq' = 0 /\ backoff_ms' = MinBackoff
        /\ UNCHANGED <<stopped, historyVars>> /\ Head(ready) = "ok"
    BY <1>8 DEF Connected, Handle
  <2> USE DEF historyVars
  <2>2. TypeOK'
    BY <1>1, <1>2, <1>4, <2>1, WsAssumption, Doubled DEF TypeOK, Deadline, Handlers
  <2>3. OneOutstanding' /\ WithinBounds'
    BY <1>2, <2>1 DEF OneOutstanding, WithinBounds, IoHandlers
  <2>4. AfterFailure' /\ LateIsLast'
    BY <1>1, <1>3, <2>1 DEF AfterFailure, LateIsLast
  <2>5. Numbering'
    BY <1>1, <2>1 DEF Numbering, Fresh
  <2> QED BY <2>2, <2>3, <2>4, <2>5
<1>9. CASE FrameRead
  <2>1. /\ op = "read" /\ Head(ready) = "ok" /\ conn_seq < MaxSeq
        /\ conn_seq' = conn_seq + 1 /\ delivered' = <<conn_epoch, conn_seq'>>
        /\ late' = (IF stop THEN 1 ELSE 0)
        /\ IF Over THEN stopped' /\ op' = "none" ELSE stopped' = stopped /\ op' = op
        /\ backoff_ms' = backoff_ms
    <3>1. op = "read" /\ Head(ready) = "ok"
      BY <1>9 DEF FrameRead, Deliver, Handle
    <3>2. conn_seq < MaxSeq
      BY <1>1, <1>2, <3>1 DEF WithinBounds
    <3> QED
      BY <1>5, <1>9, <3>1, <3>2 DEF FrameRead, Deliver
  <2>2. TypeOK'
    <3>1. conn_seq' \in 0..MaxSeq /\ conn_epoch \in 0..MaxEpoch
      BY <2>1, WsAssumption DEF TypeOK
    <3>2. delivered' \in (0..MaxEpoch) \X (0..MaxSeq) /\ late' \in Nat
      BY <2>1, <3>1
    <3>3. op' \in {"none", "read"}
      BY <2>1
    <3> QED
      BY <1>1, <1>2, <1>4, <2>1, <3>1, <3>2, <3>3 DEF TypeOK, Deadline, Handlers
  <2>3. OneOutstanding' /\ WithinBounds'
    BY <1>2, <2>1 DEF OneOutstanding, WithinBounds, IoHandlers
  <2>4. AfterFailure'
    BY <1>1, <1>3, <2>1 DEF AfterFailure
  <2>5. LateIsLast'
    BY <1>1, <2>1 DEF LateIsLast, Over
  <2>6. Numbering'
    <3>1. delivered'[1] = conn_epoch' /\ conn_epoch' \in Nat
      BY <1>1, <2>1, WsAssumption DEF TypeOK
    <3> QED
      BY <1>1, <2>1, <3>1 DEF Numbering
  <2> QED BY <2>2, <2>3, <2>4, <2>5, <2>6
<1>10. CASE WatchdogTick \/ WatchdogAborted
  <2>1. /\ UNCHANGED <<connVars, op, historyVars>>
        /\ stopped' => Over
    BY <1>1, <1>10 DEF WatchdogTick, WatchdogAborted
  <2> USE DEF connVars, historyVars
  <2>2. TypeOK'
    BY <1>1, <1>2, <1>4, <2>1 DEF TypeOK, Deadline, Handlers
  <2>3. OneOutstanding' /\ WithinBounds'
    <3>1. OneOutstanding'
      BY <1>2, <2>1 DEF OneOutstanding
    <3>2. WithinBounds'
      BY <1>1, <1>2, <2>1 DEF WithinBounds, IoHandlers
    <3> QED BY <3>1, <3>2
  <2>4. AfterFailure' /\ LateIsLast' /\ Numbering'
    BY <1>1, <1>3, <1>5, <2>1 DEF AfterFailure, LateIsLast, Numbering, Fresh
  <2> QED BY <2>2, <2>3, <2>4
<1> QED BY <1>6, <1>7, <1>8, <1>9, <1>10

(* The loop around ioc.run().                                              *)
LEMMA LoopInv ==
  ASSUME WInv,
         \/ Connect \/ SetupThrows \/ LoopEnds \/ RunReturns \/ BreakOut \/ Reconnect \/ Wake
         \/ UNCHANGED vars
  PROVE  WInv'
<1> USE DEF WInv, connVars, ioVars, historyVars
<1>1. CASE Connect
  <2>1. /\ pc = "loop" /\ pc' = "run" /\ op' = "resolve" /\ wd' = "waiting" /\ ready' = <<>>
        /\ stopped' = FALSE /\ ~Over /\ UNCHANGED <<stop, now, connVars, historyVars>>
    BY <1>1 DEF Connect
  <2>2. late = 0
    BY <2>1 DEF LateIsLast, Over
  <2>3. TypeOK'
    <3>1. ready' \in Seq({"ok", "error", "tick", "abort"})
      BY <2>1
    <3>2. stopped' \in BOOLEAN
      BY <2>1
    <3> QED BY <2>1, <3>1, <3>2 DEF TypeOK, Deadline
  <2> QED
    BY <2>1, <2>2, <2>3
    DEF OneOutstanding, WithinBounds, AfterFailure, Numbering, Fresh, LateIsLast
<1>2. CASE SetupThrows \/ LoopEnds \/ RunReturns \/ BreakOut
  <2>1. /\ UNCHANGED <<stop, now, connVars, ioVars, historyVars>>
        /\ pc' \in {"after", "done"}
        /\ pc' = "after" => Over \/ conn_epoch < MaxEpoch
    BY <1>2 DEF SetupThrows, LoopEnds, RunReturns, BreakOut, Return, AfterFailure
  <2>2. TypeOK'
    BY <2>1 DEF TypeOK, Deadline
  <2>3. Over' <=> Over
    BY <2>1 DEF Over, Deadline
  <2> QED
    BY <2>1, <2>2, <2>3
    DEF OneOutstanding, WithinBounds, AfterFailure, Numbering, Fresh, LateIsLast
<1>3. CASE Reconnect
  <2>1. /\ UNCHANGED <<stop, now, conn_seq, backoff_ms, ioVars, historyVars>>
        /\ pc' = "sleep" /\ conn_epoch' = conn_epoch + 1 /\ conn_epoch < MaxEpoch /\ ~Over
    BY <1>3 DEF Reconnect, AfterFailure
  <2>2. TypeOK'
    BY <2>1, WsAssumption DEF TypeOK, Deadline
  <2>3. Fresh' /\ delivered'[1] <= conn_epoch'
    BY <2>1, WsAssumption DEF Numbering, Fresh, TypeOK
  <2>4. Over' <=> Over
    BY <2>1 DEF Over, Deadline
  <2>5. OneOutstanding' /\ WithinBounds'
    BY <2>1 DEF OneOutstanding, WithinBounds
  <2> QED
    BY <2>1, <2>2, <2>3, <2>4, <2>5 DEF AfterFailure, Numbering, LateIsLast
<1>4. CASE Wake
  <2>1. /\ UNCHANGED <<stop, now, conn_epoch, conn_seq, ioVars, historyVars>>
        /\ pc = "sleep" /\ pc' = "loop" /\ backoff_ms' \in MinBackoff..MaxBackoff
    <3>1. backoff_ms \in MinBackoff..MaxBackoff
      BY DEF TypeOK
    <3>2. backoff_ms' = IF backoff_ms * 2 < MaxBackoff THEN backoff_ms * 2 ELSE MaxBackoff
      BY <1>4 DEF Wake
    <3>3. backoff_ms' \in MinBackoff..MaxBackoff
      BY <3>1, <3>2, Doubled
    <3> QED BY <1>4, <3>3 DEF Wake
  <2>2. TypeOK'
    <3> HIDE DEF WInv
    <3>1. TypeOK
      BY DEF WInv
    <3> QED BY <2>1, <3>1 DEF TypeOK, Deadline
  <2>3. Over' <=> Over
    BY <2>1 DEF Over, Deadline
  <2> QED
    BY <2>1, <2>2, <2>3
    DEF OneOutstanding, WithinBounds, AfterFailure, Numbering, Fresh, LateIsLast
<1>5. CASE UNCHANGED vars
  BY <1>5
  DEF vars, TypeOK, Deadline, Over, OneOutstanding, WithinBounds, AfterFailure, Numbering,
      Fresh, LateIsLast
<1> QED BY <1>1, <1>2, <1>3, <1>4, <1>5

-----------------------------------------------------------------------------

(* The inductive invariant of run.                                         *)
THEOREM WsInvariant == Spec => []WInv
<1>1. ASSUME Init PROVE WInv
  <2>1. ready \in Seq({"ok", "error", "tick", "abort"}) /\ DOMAIN ready = {}
    BY <1>1 DEF Init
  <2>2. now \in 0..Deadline /\ delivered \in (0..MaxEpoch) \X (0..MaxSeq)
    BY <1>1, WsAssumption, DeadlineNat DEF Init
  <2>3. TypeOK
    <3>1. stop \in BOOLEAN /\ stopped \in BOOLEAN
      BY <1>1 DEF Init
    <3>2. conn_epoch \in 0..MaxEpoch /\ conn_seq \in 0..MaxSeq /\ backoff_ms \in MinBackoff..MaxBackoff
      BY <1>1, WsAssumption, Doubled DEF Init
    <3> QED BY <1>1, <2>1, <2>2, <3>1, <3>2 DEF Init, TypeOK
  <2>4. OneOutstanding /\ WithinBounds
    BY <2>1 DEF OneOutstanding, WithinBounds
  <2>5. AfterFailure /\ Numbering /\ LateIsLast
    BY <1>1 DEF Init, AfterFailure, Numbering, Fresh, LateIsLast
  <2> QED BY <2>3, <2>4, <2>5 DEF WInv
<1>2. WInv /\ [Next]_vars => WInv'
  BY SurroundingsInv, HandlersInv, LoopInv DEF Next, run, Done
<1> QED
  BY <1>1, <1>2, PTL DEF Spec

(* Types are kept by every handler and by the loop.                        *)
THEOREM WsTypeCorrect == Spec => []TypeOK
<1>1. WInv => TypeOK
  BY DEF WInv
<1> QED
  BY <1>1, WsInvariant, PTL

(* At most one frame is delivered after stop().                            *)
THEOREM WsStopsPromptly == Spec => []StopsPromptly
<1>1. WInv => StopsPromptly
  BY DEF WInv, LateIsLast, StopsPromptly
<1> QED
  BY <1>1, WsInvariant, PTL

(* Frames are numbered without a gap, across any number of reconnects and  *)
(* failed attempts.                                                        *)
THEOREM FramesAreConsecutive == Spec => FramesConsecutive
<1>1. WInv /\ [Next]_vars =>
        [delivered' # delivered =>
           \/ delivered'[1] = delivered[1] /\ delivered'[2] = delivered[2] + 1
           \/ delivered'[1] > delivered[1] /\ delivered'[2] = 1]_vars
  <2> SUFFICES ASSUME WInv, Next, delivered' # delivered
               PROVE  \/ delivered'[1] = delivered[1] /\ delivered'[2] = delivered[2] + 1
                      \/ delivered'[1] > delivered[1] /\ delivered'[2] = 1
    OBVIOUS
  <2>1. Deliver /\ pc = "run" /\ op = "read"
    BY DEF Next, StopCalled, DeadlinePasses, IoCompletes, TimerExpires, run, Done, Connect,
           SetupThrows, LoopEnds, Return, IoFailed, SetupContinues, Connected, FrameRead,
           Deliver, Handle, WatchdogTick, WatchdogAborted, RunReturns, BreakOut, Reconnect,
           Wake, historyVars, vars
  <2>2. delivered' = <<conn_epoch, conn_seq + 1>>
    BY <2>1 DEF Deliver
  <2>3. delivered = <<conn_epoch, conn_seq>> \/ (delivered[1] < conn_epoch /\ conn_seq = 0)
    BY <2>1 DEF WInv, Numbering
  <2> QED
    BY <2>2, <2>3, WsAssumption DEF WInv, TypeOK
<1> QED
  BY <1>1, WsInvariant, PTL DEF Spec, FramesConsecutive

=============================================================================
