SPECIFICATION Spec
CONSTANTS
    t1 = t1
    t2 = t2
    t3 = t3
    a1 = a1
    a2 = a2
    None = None
    Tasks = {t1}
    Agents = {a1, a2}
    MaxAttempt = 2
    Prereq <- Independent
    NeedsApproval = {}
    MissingInput = {}
    Verified = {t1}
    LegacyTasks = {}
    Stale = {}
PROPERTIES
    StaleResultIsInert
    DeliveryOwnsExecution
CHECK_DEADLOCK FALSE
