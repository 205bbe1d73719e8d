SPECIFICATION AgentSpec
CONSTANTS
    None = None
    Jobs = {t1}
    Key <- OwnKey
    Workers = {w1, w2}
    Callers = {u1, u2}
    MaxAttempts = 1
    MaxCrashes = 1
    MaxOverruns = 1
    MaxMergeAttempts = 1
    MaxHeads = 2
    MaxCalls = 2
    Requests = {p1}
    Sweeper = sweeper
    Boxes = {b1, b2}
    MaxFaults = 1
    MaxDrops = 1
    MaxLost = 1
    Deleted = Deleted
    Sessions = {s1, s2}
    Conns = {c1, c2}
    MaxGen = 1
    MaxSeq = 2
    MaxInputs = 1
    MaxLate = 0
SYMMETRY Symmetry
CHECK_DEADLOCK FALSE
PROPERTIES
    MergedIsNoOp
