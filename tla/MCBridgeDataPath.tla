-------------------------- MODULE MCBridgeDataPath --------------------------
(* Model-checking instances of BridgeDataPath: which capture method and     *)
(* which value of bridge_local_hairpin the instance may be created with.    *)
EXTENDS BridgeDataPath

HandlerHairpin == {<<"rx_handler", TRUE>>}
BothMethods    == {<<"rx_handler", TRUE>>, <<"packet_type", FALSE>>}
=============================================================================
