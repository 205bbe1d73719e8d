SPECIFICATION LiveSpec
CONSTANTS
    t1 = t1
    t2 = t2
    t3 = t3
    a1 = a1
    a2 = a2
    None = None
    Tasks = {t1, t2}
    Agents = {a1}
    MaxAttempt = 1
    Prereq <- Independent
    NeedsApproval = {}
    MissingInput = {}
    Verified = {}
    LegacyTasks = {}
    Stale = {}
PROPERTIES
    RunsClose
    BusyHeals
    
CHECK_DEADLOCK FALSE
