CONSTANTS
    r1 = r1
    r2 = r2
    Reqs = {r1, r2}
    Nodes = {n1, n2}
    NoReq = NoReq
    NoNode = NoNode
    BssReqs = {r1}
    HeadReqs = {r2}
    MaxResends = 1
    Scenarios = {{"send", "signal", "remove", "result", "prepare", "map"}, {"asleep", "result"}, {"mismatch", "reset"}}
SYMMETRY NodeSymmetry
SPECIFICATION Spec
INVARIANTS EachNodeOnce CompletedOnce TouchesLiveUnlessRaced PendingIsCovered
PROPERTIES TimeoutStopsCommands
CHECK_DEADLOCK FALSE
