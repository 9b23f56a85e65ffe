CONSTANTS
  Air = {a1}
  Wire = {e1}
  Local = {}
  Fwd = fwd
  Tap = tap
  Cap = 1
  Kinds = {"arp"}
  Configs <- BothMethods
SPECIFICATION Spec
INVARIANTS QlenExact HardCap SkbsAccounted ReleasedIsQuiet WakeUpPending
CHECK_DEADLOCK FALSE
