CONSTANTS
  Air = {}
  Wire = {e1}
  Local = {}
  Fwd = fwd
  Tap = tap
  Cap = 2
  Kinds = {"arp"}
  Configs <- HandlerHairpin
SPECIFICATION FairSpec
PROPERTIES QueuedFramesLeave DeinitCompletes
CHECK_DEADLOCK FALSE
