CONSTANTS
  Handles = {h1, h2}
  Names = {n1, n2, n3}
  Writers = {w1}
  Worker = worker
  NoHandle = nohandle
  NoName = noname
  FirstOwner = h1
  AutoBridge = {}
  Scenarios = {{"peer_gone", "peer_down", "link_down", "no_memory", "rename"}, {"peer_gone", "reload", "no_memory", "reset_fail"}}
  MaxWrites = 2
  MaxRebuilds = 1
SPECIFICATION Spec
INVARIANTS RefsBalanced FailedSwitchKeepsOwner
PROPERTIES LostOnlyForCause
SYMMETRY NameSymmetry
CHECK_DEADLOCK FALSE
