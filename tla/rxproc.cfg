CONSTANTS
  Modes = {TRUE, FALSE}
  Budget = 1
  MaxPackets = 2
  Ops = {"delete", "create", "role"}
  MaxOps = 2
SPECIFICATION FairSpec
INVARIANTS BlockedIsQuiet FreedIsQuiet HeldIsCovered
PROPERTIES QueueDrainsUnlessCut HeldLeavesUnlessMissed
CHECK_DEADLOCK FALSE
