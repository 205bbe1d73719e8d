SPECIFICATION Spec
CONSTANTS
    t1 = t1
    t2 = t2
    t3 = t3
    a1 = a1
    a2 = a2
    None = None
    Tasks = {t1, t2, t3}
    Agents = {a1}
    MaxAttempt = 1
    Prereq <- Independent
    NeedsApproval = {t1}
    MissingInput = {t3}
    Verified = {t1}
    LegacyTasks = {t2}
    Stale = {t1}
INVARIANTS
    OneWorkingTaskPerAgent
    ExclusiveUse
    WorkIsRecoverable
CHECK_DEADLOCK FALSE
