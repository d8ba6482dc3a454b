------------------------------ MODULE WsClient ------------------------------
(***************************************************************************)
(* WsClientBeast::run (src/src/ws_client_beast.cpp): the loop that         *)
(* connects, reads frames and reconnects, and the watchdog timer that      *)
(* makes stop() and the deadline take effect while the thread waits inside *)
(* ioc.run().                                                              *)
(*                                                                         *)
(* Boost.Asio is external and modelled from how run uses it: one chain of  *)
(* asynchronous operations, of which one is outstanding at a time, a       *)
(* timer, and a queue of completed handlers that ioc.run() executes in     *)
(* order until it is stopped or nothing is left to wait for.  A timer that *)
(* has expired can no longer be cancelled: its handler is in the queue and *)
(* will run without an error.                                              *)
(***************************************************************************)
EXTENDS Naturals, Sequences

CONSTANTS
  Duration,    \* cfg.duration_s
  MaxEpoch,    \* bound on reconnects
  MaxSeq       \* bound on the frames of one connection

ASSUME WsAssumption ==
  /\ Duration \in Nat
  /\ MaxEpoch \in Nat
  /\ MaxSeq \in Nat

VARIABLES
  pc,            \* where run is
  stop,          \* stop_
  now,           \* Clock::now(), in seconds since the start
  conn_epoch,
  conn_seq,
  backoff_ms,
  op,            \* the outstanding asynchronous operation
  wd,            \* the watchdog timer: idle, waiting, or its handler is queued
  ready,         \* the handlers ioc.run() has yet to execute
  stopped,       \* ioc.stop() was called
  delivered,     \* history: epoch and sequence number of the last frame delivered
  late           \* history: how many frames were delivered after stop()

ioVars == <<op, wd, ready, stopped>>
connVars == <<conn_epoch, conn_seq, backoff_ms>>
historyVars == <<delivered, late>>
vars == <<pc, stop, now, connVars, ioVars, historyVars>>

(* The first wait before another attempt and the longest one, in ms.       *)
MinBackoff == 1000
MaxBackoff == 15000

Init ==
  /\ pc = "loop"
  /\ stop = FALSE /\ now = 0
  /\ conn_epoch = 0 /\ conn_seq = 0 /\ backoff_ms = MinBackoff
  /\ op = "none" /\ wd = "idle" /\ ready = <<>> /\ stopped = FALSE
  /\ delivered = <<0, 0>> /\ late = 0

(* A duration of 0 means a day.                                            *)
Deadline == IF Duration > 0 THEN Duration ELSE 3600 * 24

(* The test stop_.load() || Clock::now() >= deadline.                      *)
Over == stop \/ now >= Deadline

-----------------------------------------------------------------------------
(* The surroundings: the signal watcher, the clock, the network.           *)

StopCalled ==
  /\ ~stop
  /\ stop' = TRUE
  /\ UNCHANGED <<pc, now, connVars, ioVars, historyVars>>

(* The clock reaches the deadline; how it gets there makes no difference.  *)
DeadlinePasses ==
  /\ now < Deadline
  /\ now' = Deadline
  /\ UNCHANGED <<pc, stop, connVars, ioVars, historyVars>>

IoPending == op # "none" /\ \A i \in DOMAIN ready : ready[i] \notin {"ok", "error"}

(* The outstanding operation completes.  Every one has a timeout, so one   *)
(* that hears nothing fails in the end.                                    *)
IoCompletes ==
  /\ pc = "run" /\ IoPending
  /\ \/ /\ op = "read" => conn_seq < MaxSeq
        /\ ready' = Append(ready, "ok")
     \/ /\ conn_epoch < MaxEpoch
        /\ ready' = Append(ready, "error")
  /\ UNCHANGED <<pc, stop, now, connVars, op, wd, stopped, historyVars>>

TimerExpires ==
  /\ pc = "run" /\ wd = "waiting"
  /\ wd' = "queued"
  /\ ready' = Append(ready, "tick")
  /\ UNCHANGED <<pc, stop, now, connVars, op, stopped, historyVars>>

-----------------------------------------------------------------------------
(* Handlers.  Cancel is wd.cancel(), rest the queue behind the handler.    *)

Cancel(rest) ==
  IF wd = "waiting"
  THEN wd' = "queued" /\ ready' = Append(rest, "abort")
  ELSE UNCHANGED wd /\ ready' = rest

Handle(h) ==
  /\ pc = "run" /\ ~stopped
  /\ ready # <<>> /\ Head(ready) = h

(* An operation of the set-up chain or a read failed.                      *)
IoFailed ==
  /\ Handle("error")
  /\ op' = "none"
  /\ Cancel(Tail(ready))
  /\ UNCHANGED <<pc, stop, now, connVars, stopped, historyVars>>

SetupNext == [resolve |-> "connect", connect |-> "tls", tls |-> "handshake"]

(* resolve, connect and the TLS handshake start the next operation.        *)
SetupContinues ==
  /\ Handle("ok")
  /\ op \in DOMAIN SetupNext
  /\ op' = SetupNext[op]
  /\ ready' = Tail(ready)
  /\ UNCHANGED <<pc, stop, now, connVars, wd, stopped, historyVars>>

Connected_KeepSeq ==
  /\ Handle("ok")
  /\ op = "handshake"
  /\ backoff_ms' = MinBackoff
  /\ op' = "read"
  /\ ready' = Tail(ready)
  /\ UNCHANGED <<pc, stop, now, conn_epoch, conn_seq, wd, stopped, historyVars>>

(* The websocket handshake succeeded.                                      *)
Connected ==
  /\ Handle("ok")
  /\ op = "handshake"
  /\ backoff_ms' = MinBackoff
  /\ conn_seq' = 0
  /\ op' = "read"
  /\ ready' = Tail(ready)
  /\ UNCHANGED <<pc, stop, now, conn_epoch, wd, stopped, historyVars>>

Deliver ==
  /\ Handle("ok")
  /\ op = "read"
  /\ conn_seq' = conn_seq + 1
  /\ delivered' = <<conn_epoch, conn_seq'>>
  /\ late' = IF stop THEN late + 1 ELSE late

FrameRead_NoCheck ==
  /\ Deliver
  /\ ready' = Tail(ready)
  /\ UNCHANGED <<op, wd, stopped, pc, stop, now, conn_epoch, backoff_ms>>

(* A frame: it goes to on_msg, then the next read is started unless the    *)
(* client is to stop.                                                      *)
FrameRead ==
  /\ Deliver
  /\ IF Over
     THEN /\ Cancel(Tail(ready))
          /\ stopped' = TRUE
          /\ op' = "none"
     ELSE /\ ready' = Tail(ready)
          /\ UNCHANGED <<op, wd, stopped>>
  /\ UNCHANGED <<pc, stop, now, conn_epoch, backoff_ms>>

WatchdogTick_Once ==
  /\ Handle("tick")
  /\ ready' = Tail(ready)
  /\ stopped' = Over
  /\ wd' = "idle"
  /\ UNCHANGED <<pc, stop, now, connVars, op, historyVars>>

(* The watchdog's handler: end ioc.run(), or arm the timer again.          *)
WatchdogTick ==
  /\ Handle("tick")
  /\ ready' = Tail(ready)
  /\ stopped' = Over
  /\ wd' = IF Over THEN "idle" ELSE "waiting"
  /\ UNCHANGED <<pc, stop, now, connVars, op, historyVars>>

WatchdogAborted ==
  /\ Handle("abort")
  /\ ready' = Tail(ready)
  /\ wd' = "idle"
  /\ UNCHANGED <<pc, stop, now, connVars, op, stopped, historyVars>>

-----------------------------------------------------------------------------
(* The loop of run.                                                        *)

Return ==
  /\ pc' = "done"
  /\ UNCHANGED <<stop, now, connVars, ioVars, historyVars>>

(* A fresh io_context: start to resolve, arm the watchdog, enter ioc.run().*)
Connect ==
  /\ pc = "loop" /\ ~Over
  /\ pc' = "run"
  /\ op' = "resolve" /\ wd' = "waiting" /\ ready' = <<>> /\ stopped' = FALSE
  /\ UNCHANGED <<stop, now, connVars, historyVars>>

(* Setting up the TLS context throws.                                      *)
SetupThrows ==
  /\ pc = "loop" /\ ~Over
  /\ conn_epoch < MaxEpoch
  /\ pc' = "after"
  /\ UNCHANGED <<stop, now, connVars, ioVars, historyVars>>

LoopEnds ==
  /\ pc = "loop" /\ Over
  /\ Return

RunReturns ==
  /\ pc = "run"
  /\ stopped \/ (op = "none" /\ wd = "idle" /\ ready = <<>>)
  /\ pc' = "after"
  /\ UNCHANGED <<stop, now, connVars, ioVars, historyVars>>

BreakOut ==
  /\ pc = "after" /\ Over
  /\ Return

Reconnect ==
  /\ pc = "after" /\ ~Over
  /\ conn_epoch' = conn_epoch + 1
  /\ pc' = "sleep"
  /\ UNCHANGED <<stop, now, conn_seq, backoff_ms, ioVars, historyVars>>

Wake_NoCap ==
  /\ pc = "sleep"
  /\ backoff_ms' = backoff_ms * 2
  /\ pc' = "loop"
  /\ UNCHANGED <<stop, now, conn_epoch, conn_seq, ioVars, historyVars>>

(* The end of interruptible_sleep.                                         *)
Wake ==
  /\ pc = "sleep"
  /\ backoff_ms' = IF backoff_ms * 2 < MaxBackoff THEN backoff_ms * 2 ELSE MaxBackoff
  /\ pc' = "loop"
  /\ UNCHANGED <<stop, now, conn_epoch, conn_seq, ioVars, historyVars>>

run ==
  \/ Connect \/ SetupThrows \/ LoopEnds
  \/ IoFailed \/ SetupContinues \/ Connected \/ FrameRead
  \/ WatchdogTick \/ WatchdogAborted
  \/ RunReturns \/ BreakOut \/ Reconnect \/ Wake

(* Nothing happens once run has returned.                                  *)
Done == pc = "done" /\ UNCHANGED vars

Next == StopCalled \/ DeadlinePasses \/ IoCompletes \/ TimerExpires \/ run \/ Done

(* The thread is scheduled, the timer expires and no operation is          *)
(* outstanding for ever; stop() and the deadline need not come.            *)
Fairness == WF_vars(run) /\ WF_vars(TimerExpires) /\ WF_vars(IoCompletes)

Spec == Init /\ [][Next]_vars /\ Fairness

-----------------------------------------------------------------------------

(* Every variable has its type.                                            *)
TypeOK ==
  /\ pc \in {"loop", "run", "after", "sleep", "done"}
  /\ stop \in BOOLEAN /\ now \in 0..Deadline /\ stopped \in BOOLEAN
  /\ conn_epoch \in 0..MaxEpoch /\ conn_seq \in 0..MaxSeq
  /\ backoff_ms \in MinBackoff..MaxBackoff
  /\ op \in {"none", "resolve", "connect", "tls", "handshake", "read"}
  /\ wd \in {"idle", "waiting", "queued"}
  /\ ready \in Seq({"ok", "error", "tick", "abort"})
  /\ delivered \in (0..MaxEpoch) \X (0..MaxSeq)
  /\ late \in Nat

(* Frames reach the handler numbered without a gap: within a connection    *)
(* conn_seq goes up by one, and a later connection has a larger conn_epoch *)
(* and its frames start again at 1 (the counter is reset to 0 and counts   *)
(* the frame first; src/README.md:258 has 0), however many attempts failed *)
(* in between.  So the two columns put the audit rows in order, a missing  *)
(* row shows, and the handler's epoch check sees every reconnect.          *)
FramesConsecutive ==
  [][delivered' # delivered =>
       \/ delivered'[1] = delivered[1] /\ delivered'[2] = delivered[2] + 1
       \/ delivered'[1] > delivered[1] /\ delivered'[2] = 1]_vars

(* At most one frame is still delivered after stop(), the one whose read   *)
(* had completed.                                                          *)
StopsPromptly == late <= 1

(* After stop() or the deadline run returns, wherever it was: the watchdog *)
(* is armed whenever the thread can be waiting in ioc.run().               *)
StopHonoured == Over ~> (pc = "done")

(* A connection that failed is replaced by another one.                    *)
Reconnects == (pc = "run" /\ op = "none") ~> (pc # "run")

=============================================================================
