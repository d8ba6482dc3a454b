----------------------------- MODULE MCWsClient -----------------------------
(***************************************************************************)
(* WsClient with a few reconnects and a few frames per connection.         *)
(***************************************************************************)
EXTENDS WsClient

=============================================================================
