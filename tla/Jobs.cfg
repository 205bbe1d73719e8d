SPECIFICATION JobsSpec
CONSTANTS
    j1 = j1
    j3 = j3
    i1 = i1
    None = None
    Jobs = {j1, j2, j3}
    Key <- SharedKey
    Workers = {w1, w2}
    MaxAttempts = 2
    MaxCrashes = 2
    MaxOverruns = 1
    Rows = 2
    Timely = FALSE
    CloneRuns = {a1, a2}
    Sweepers = {s1, s2}
    MaxEnds = 1
    Updaters = {u1, u2}
    Roller = roll
    Images = {i1, i2, i3}
    Version <- FirstIsOld
    Signed = {i1, i2}
    MaxMoves = 2
    MaxLost = 1
    MaxFaults = 1
SYMMETRY Symmetry
CHECK_DEADLOCK FALSE
INVARIANTS
    SingleRunner
    DeadMeansExhausted
    NotLost
    ReadyIsCloned
PROPERTIES
    CloneSound
    ImageSound
