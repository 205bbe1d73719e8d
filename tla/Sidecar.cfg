SPECIFICATION LiveSpec
CONSTANTS
    Deliveries = {d1}
    MaxCopies = 1
    MaxCrashes = 2
INVARIANTS
    AckedIsDurable
    TombstoneMeansPublished
    OutcomeKept
PROPERTIES
    NoRerunBeforeTombstone
    AcceptedIsAnswered
CHECK_DEADLOCK FALSE
