CONSTANTS
    r1 = r1
    r2 = r2
    Reqs = {r1, r2}
    Nodes = {n1, n2}
    NoReq = NoReq
    NoNode = NoNode
    BssReqs = {r1}
    HeadReqs = {r2}
    MaxResends = 1
    Scenarios = {{"prepare", "silent", "map"}, {"silent", "mismatch", "dump"}, {"silent", "dump", "other"}, {"silent", "reset"}}
SPECIFICATION FairSpec
PROPERTIES RequestsReturn
CHECK_DEADLOCK FALSE
CONSTRAINT Calm
