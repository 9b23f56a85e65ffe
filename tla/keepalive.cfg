CONSTANTS
  RxFast = {f}
  PeerCapture = {c}
  Cutoff = 1
  StoreBuffer = TRUE
SPECIFICATION FairSpec
INVARIANTS SingleArmer NotStranded FreedIsQuiet
PROPERTIES KeptUnlessStoreLate IdleStopsTimer DeinitCompletes
CHECK_DEADLOCK FALSE
