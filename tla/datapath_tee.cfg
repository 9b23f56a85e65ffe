CONSTANTS
  Air = {}
  Wire = {e1}
  Local = {l1}
  Fwd = fwd
  Tap = tap
  Cap = 1
  Kinds = {"unicast", "arp"}
  Configs <- HandlerHairpin
SPECIFICATION Spec
INVARIANTS NoReflection
CHECK_DEADLOCK FALSE
