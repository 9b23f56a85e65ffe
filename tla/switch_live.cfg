CONSTANTS
  Handles = {h1, h2}
  Names = {n1, n2}
  Writers = {w1, w2}
  Worker = worker
  NoHandle = nohandle
  NoName = noname
  FirstOwner = h1
  AutoBridge = {}
  Scenarios = {{"peer_gone"}}
  MaxWrites = 2
  MaxRebuilds = 0
SPECIFICATION FairSpec
PROPERTIES AppliedWhenReady PeerLetGo RequestsEnd
CHECK_DEADLOCK FALSE
