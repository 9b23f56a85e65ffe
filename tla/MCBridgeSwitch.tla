--------------------------- MODULE MCBridgeSwitch ---------------------------
(* Model-checking instances of BridgeSwitch.  No definition tells one name  *)
(* from another, so the names are symmetric.                                *)
EXTENDS BridgeSwitch, TLC

NameSymmetry == Permutations(Names)
=============================================================================
