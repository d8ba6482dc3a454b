---------------------------- MODULE SnapshotFetch ---------------------------
(***************************************************************************)
(* fetch_depth_snapshot (src/src/snapshot_beast.cpp) as a chain of stages. *)
(* What a stage does is up to the network, which is external: it succeeds  *)
(* or it fails, a deadline that passes being a failure.  The request runs  *)
(* inside the shard's frame handler, on the shard's thread.                *)
(***************************************************************************)
(* Setting up TLS, then the asynchronous chain.  The system's resolver has *)
(* its own timeout, the stages after it are given kTimeout each.           *)
AsyncNext == [setup |-> "resolve", resolve |-> "connect", connect |-> "tls", tls |-> "write",
              write |-> "read", read |-> "shutdown"]

(* What may follow a stage.  shutdown is synchronous, after expires_never, *)
(* and its error is ignored; then the status and the body are looked at.   *)
FetchNext(stage) ==
  CASE stage \in DOMAIN AsyncNext -> {AsyncNext[stage], "failed"}
    [] stage = "shutdown" -> {"status"}
    [] stage = "status" -> {"parse", "failed"}
    [] stage = "parse" -> {"ok", "failed"}

FetchStages == DOMAIN AsyncNext \cup {"shutdown", "status", "parse"}

FetchEnds == {"ok", "failed"}

(* The stages no timeout of the code bounds: they end when the peer        *)
(* answers.                                                                *)
Unbounded(stage) == stage = "shutdown"

=============================================================================
