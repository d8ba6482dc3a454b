-------------------------------- MODULE Main --------------------------------
(***************************************************************************)
(* The process (src/src/main.cpp): main, one thread per shard, the signal  *)
(* handler and the watcher thread.  A shard opens its files, runs its      *)
(* client until that returns, flushes, and leaves its exit code in rcs.    *)
(*                                                                         *)
(* The client is WsClientBeast as WsClient describes it: stop() is sticky, *)
(* whether it comes before, during or after run, and run returns after at  *)
(* most one more frame.  A frame may make the handler fetch a snapshot     *)
(* (SnapshotFetch), during which the thread does nothing else.  Built      *)
(* without ENABLE_LIVE the client is a stub that returns 3.                *)
(***************************************************************************)
EXTENDS Config, SnapshotFetch

CONSTANTS
  Builds,        \* the values of ENABLE_LIVE considered
  PeerAnswers    \* the REST peer ends every TLS connection it is asked to

ASSUME MainAssumption == Builds \subseteq BOOLEAN /\ PeerAnswers \in BOOLEAN

VARIABLES
  live,           \* ENABLE_LIVE of the build; never changes
  pc,             \* where main is
  exit_code,      \* what main returns
  g_stop,         \* g_stop
  workers_done,   \* workers_done
  watcher,        \* where the watcher thread is
  thread,         \* for each shard, where its thread is
  stage,          \* for each shard, the stage of its REST request
  stop_,          \* for each shard, stop_ of its client
  disk_failed,    \* for each shard, one of its sinks reports failed()
  rcs,            \* rcs
  unopened        \* history: the shards that could not open a file

shardVars == <<thread, stage, stop_, disk_failed, rcs, unopened>>
mainVars == <<live, pc, exit_code, g_stop, workers_done, watcher>>
vars == <<configVars, mainVars, shardVars>>

Groups == DOMAIN thread

Init ==
  /\ ConfigInit
  /\ live \in Builds
  /\ pc = "args" /\ exit_code = 0
  /\ g_stop = FALSE /\ workers_done = FALSE /\ watcher = "none"
  /\ thread = <<>> /\ stage = <<>> /\ stop_ = <<>> /\ disk_failed = <<>> /\ rcs = <<>>
  /\ unopened = {}

-----------------------------------------------------------------------------
(* main.                                                                   *)

Return(rc) == pc' = "returned" /\ exit_code' = rc

from_args ==
  /\ pc = "args"
  /\ ConfigNext
  /\ UNCHANGED <<mainVars, shardVars>>

ArgsRejected ==
  /\ pc = "args" /\ parsed /\ err # "none"
  /\ Return(IF err = "help" THEN 0 ELSE 1)
  /\ UNCHANGED <<configVars, live, g_stop, workers_done, watcher, shardVars>>

NoOutputDir ==
  /\ pc = "args" /\ parsed /\ err = "none"
  /\ Return(2)
  /\ UNCHANGED <<configVars, live, g_stop, workers_done, watcher, shardVars>>

(* run_replay (Replay) returns 2 when it cannot open one of its files.     *)
ReplayMode ==
  /\ pc = "args" /\ parsed /\ err = "none"
  /\ replay
  /\ \E rc \in {0, 2} : Return(rc)
  /\ UNCHANGED <<configVars, live, g_stop, workers_done, watcher, shardVars>>

(* The signal handlers are in place and the shards are known.              *)
Prepare ==
  /\ pc = "args" /\ parsed /\ err = "none"
  /\ ~replay
  /\ pc' = "spawn"
  /\ thread' = [s \in 1..ShardCount |-> "none"]
  /\ stage' = [s \in 1..ShardCount |-> "none"]
  /\ stop_' = [s \in 1..ShardCount |-> FALSE]
  /\ disk_failed' = [s \in 1..ShardCount |-> FALSE]
  /\ rcs' = [s \in 1..ShardCount |-> 0]
  /\ UNCHANGED <<configVars, live, exit_code, g_stop, workers_done, watcher, unopened>>

(* A thread may be far ahead when the next one is started.                 *)
SpawnShard(s) ==
  /\ pc = "spawn"
  /\ thread[s] = "none"
  /\ \A r \in 1..(s - 1) : thread[r] # "none"
  /\ thread' = [thread EXCEPT ![s] = "open"]
  /\ UNCHANGED <<configVars, mainVars, stage, stop_, disk_failed, rcs, unopened>>

SpawnWatcher ==
  /\ pc = "spawn"
  /\ \A s \in Groups : thread[s] # "none"
  /\ pc' = "join"
  /\ watcher' = "poll"
  /\ UNCHANGED <<configVars, live, exit_code, g_stop, workers_done, shardVars>>

JoinShards ==
  /\ pc = "join"
  /\ \A s \in Groups : thread[s] = "returned"
  /\ workers_done' = TRUE
  /\ pc' = "join_watcher"
  /\ UNCHANGED <<configVars, live, exit_code, g_stop, watcher, shardVars>>

exit_rc_Last == rcs[Len(rcs)]

(* The code of the last shard that has one.                                *)
exit_rc ==
  LET failed == {s \in DOMAIN rcs : rcs[s] # 0}
  IN IF failed = {} THEN 0 ELSE rcs[Max(failed)]

JoinWatcher ==
  /\ pc = "join_watcher"
  /\ watcher = "gone"
  /\ Return(exit_rc)
  /\ UNCHANGED <<configVars, live, g_stop, workers_done, watcher, shardVars>>

-----------------------------------------------------------------------------
(* The signal and the watcher thread, which reads the two flags one after  *)
(* the other and stops the clients one by one.                             *)

on_signal ==
  /\ pc \in {"spawn", "join", "join_watcher"}
  /\ ~g_stop
  /\ g_stop' = TRUE
  /\ UNCHANGED <<configVars, live, pc, exit_code, workers_done, watcher, shardVars>>

WatchDone_UntilSignal ==
  /\ watcher = "poll"
  /\ watcher' = "look"
  /\ UNCHANGED <<configVars, live, pc, exit_code, g_stop, workers_done, shardVars>>

WatchDone ==
  /\ watcher = "poll"
  /\ watcher' = IF workers_done THEN "gone" ELSE "look"
  /\ UNCHANGED <<configVars, live, pc, exit_code, g_stop, workers_done, shardVars>>

WatchSignal ==
  /\ watcher = "look"
  /\ watcher' = IF g_stop THEN "stop" ELSE "poll"
  /\ UNCHANGED <<configVars, live, pc, exit_code, g_stop, workers_done, shardVars>>

WatchStop(s) ==
  /\ watcher = "stop"
  /\ ~stop_[s]
  /\ \A r \in 1..(s - 1) : stop_[r]
  /\ stop_' = [stop_ EXCEPT ![s] = TRUE]
  /\ watcher' = IF s = Len(stop_) THEN "gone" ELSE "stop"
  /\ UNCHANGED <<configVars, live, pc, exit_code, g_stop, workers_done,
                 thread, stage, disk_failed, rcs, unopened>>

-----------------------------------------------------------------------------
(* run_shard.                                                              *)

At(s, here, there) == thread[s] = here /\ thread' = [thread EXCEPT ![s] = there]

OpenFails(s) ==
  /\ At(s, "open", "returned")
  /\ rcs' = [rcs EXCEPT ![s] = 2]
  /\ unopened' = unopened \cup {s}
  /\ UNCHANGED <<configVars, mainVars, stage, stop_, disk_failed>>

Opens(s) ==
  /\ At(s, "open", IF live THEN "run" ELSE "flush")
  /\ rcs' = [rcs EXCEPT ![s] = IF live THEN 0 ELSE 3]
  /\ UNCHANGED <<configVars, mainVars, stage, stop_, disk_failed, unopened>>

DiskFails(s) ==
  /\ thread[s] \in {"run", "fetch", "flush"}
  /\ disk_failed' = [disk_failed EXCEPT ![s] = TRUE]
  /\ UNCHANGED <<configVars, mainVars, thread, stage, stop_, rcs, unopened>>

(* A frame whose handling needs a snapshot.                                *)
FetchBegins(s) ==
  /\ At(s, "run", "fetch")
  /\ stage' = [stage EXCEPT ![s] = "setup"]
  /\ UNCHANGED <<configVars, mainVars, stop_, disk_failed, rcs, unopened>>

FetchStep(s) ==
  /\ thread[s] = "fetch"
  /\ stage[s] \in FetchStages
  /\ \E next \in FetchNext(stage[s]) : stage' = [stage EXCEPT ![s] = next]
  /\ UNCHANGED <<configVars, mainVars, thread, stop_, disk_failed, rcs, unopened>>

(* The handler is done with the frame: no further read once stop_ is set.  *)
FetchReturns(s) ==
  /\ stage[s] \in FetchEnds
  /\ At(s, "fetch", IF stop_[s] THEN "flush" ELSE "run")
  /\ stage' = [stage EXCEPT ![s] = "none"]
  /\ UNCHANGED <<configVars, mainVars, stop_, disk_failed, rcs, unopened>>

(* run returns because of stop() or because the duration is over.          *)
DurationOver(s) ==
  /\ At(s, "run", "flush")
  /\ UNCHANGED <<configVars, mainVars, stage, stop_, disk_failed, rcs, unopened>>

RunStops(s) ==
  /\ stop_[s]
  /\ At(s, "run", "flush")
  /\ UNCHANGED <<configVars, mainVars, stage, stop_, disk_failed, rcs, unopened>>

FlushAndReturn(s) ==
  /\ At(s, "flush", "returned")
  /\ rcs' = [rcs EXCEPT ![s] = IF rcs[s] = 0 /\ disk_failed[s] THEN 4 ELSE rcs[s]]
  /\ UNCHANGED <<configVars, mainVars, stage, stop_, disk_failed, unopened>>

-----------------------------------------------------------------------------

main ==
  \/ from_args \/ ArgsRejected \/ NoOutputDir \/ ReplayMode \/ Prepare
  \/ \E s \in Groups : SpawnShard(s)
  \/ SpawnWatcher \/ JoinShards \/ JoinWatcher

watch == WatchDone \/ WatchSignal \/ \E s \in Groups : WatchStop(s)

Next ==
  \/ main \/ watch \/ on_signal
  \/ \E s \in Groups :
       \/ OpenFails(s) \/ Opens(s) \/ DiskFails(s)
       \/ FetchBegins(s) \/ FetchStep(s) \/ FetchReturns(s)
       \/ DurationOver(s) \/ RunStops(s) \/ FlushAndReturn(s)

(* What a shard's thread gets to by itself: it never has to be handed a    *)
(* frame, and a stage without a timeout ends only if the peer answers.     *)
Progress(s) ==
  \/ OpenFails(s) \/ Opens(s)
  \/ FetchStep(s) /\ (Unbounded(stage[s]) => PeerAnswers)
  \/ FetchReturns(s) \/ RunStops(s) \/ FlushAndReturn(s)

(* Every thread is scheduled; signals need not come.                       *)
Fairness ==
  /\ WF_vars(main) /\ WF_vars(watch)
  /\ \A s \in 1..Cardinality(Symbol) : WF_vars(s \in Groups /\ Progress(s))

Spec == Init /\ [][Next]_vars /\ Fairness

-----------------------------------------------------------------------------

(* When a capture ends, the exit code is 0 exactly if every shard could    *)
(* open its files, had a real client and none of its writers reports an    *)
(* error by failed(), whichever shard ended first (main.cpp:238 and        *)
(* 299-301).                                                               *)
ExitCodeTells ==
  pc = "returned" /\ thread # <<>> =>
    /\ \A s \in Groups : thread[s] = "returned"
    /\ exit_code = 0 <=> live /\ unopened = {} /\ \A s \in Groups : ~disk_failed[s]

(* A signal, or the end of the last shard, ends the process: the watcher   *)
(* sees one flag or the other whatever the order, every client is stopped, *)
(* and no REST request keeps its shard (main.cpp:285-301 and the comment   *)
(* at snapshot_beast.cpp:4).                                               *)
Ends ==
  /\ g_stop ~> (pc = "returned")
  /\ (thread # <<>> /\ \A s \in Groups : thread[s] = "returned") ~> (pc = "returned")

=============================================================================
