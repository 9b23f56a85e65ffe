CONSTANTS
  Handles = {h1, h2}
  Names = {n1, n2, n3}
  Writers = {w1}
  Worker = worker
  NoHandle = nohandle
  NoName = noname
  FirstOwner = h1
  AutoBridge = {h1, h2}
  Scenarios = {{"reload", "fw_hang", "no_memory", "flr", "hotplug", "reset_fail", "unload"}}
  MaxWrites = 2
  MaxRebuilds = 2
SPECIFICATION Spec
INVARIANTS OwnerHasInstance NoOrphanRequest UnloadQuiet
PROPERTIES NoInheritance
SYMMETRY NameSymmetry
CHECK_DEADLOCK FALSE
