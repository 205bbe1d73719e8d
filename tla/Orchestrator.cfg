SPECIFICATION OrchestratorSpec
CONSTANTS
    Replicas = {r1, r2}
    MaxSessions = 3
    MaxCrashes = 1
    Reviews = {v1}
    Calls = {u1}
    Batch = 1
    MaxTold = 2
    None = None
    MaxDispatches = 3
    Timely = TRUE
    Reliable = FALSE
CHECK_DEADLOCK FALSE
INVARIANTS
    OneDriver
    
PROPERTIES
    OrphansAreReaped
    OverdueIsHandled
