-------------------------- MODULE MCBridgeKeepalive --------------------------
(* Model-checking instance of BridgeKeepalive. *)
EXTENDS BridgeKeepalive
=============================================================================
