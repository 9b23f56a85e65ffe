CONSTANTS
  RxFast = {f}
  PeerCapture = {c}
  Cutoff = 2
  StoreBuffer = TRUE
SPECIFICATION Spec
INVARIANTS LiveTrafficKeepsTimer
CHECK_DEADLOCK FALSE
