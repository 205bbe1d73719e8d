SPECIFICATION Spec
CONSTANTS
    t1 = t1
    t2 = t2
    t3 = t3
    a1 = a1
    a2 = a2
    None = None
    Tasks = {t1, t2}
    Agents = {a1}
    MaxAttempt = 2
    Prereq <- Chain
    NeedsApproval = {t1}
    MissingInput = {}
    Verified = {t2}
    LegacyTasks = {}
    Stale = {}
INVARIANTS
    GatesHold
    
    NoOrphanRun
PROPERTIES
    ImplementsOwnership
CHECK_DEADLOCK FALSE
