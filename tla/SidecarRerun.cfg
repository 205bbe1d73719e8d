SPECIFICATION Spec
CONSTANTS
    Deliveries = {d1}
    MaxCopies = 1
    MaxCrashes = 0
PROPERTIES
    RunsOnce
CHECK_DEADLOCK FALSE
