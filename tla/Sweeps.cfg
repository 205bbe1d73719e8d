SPECIFICATION SweepSpec
CONSTANTS
    p1 = p1
    p2 = p2
    c1 = c1
    c2 = c2
    g1 = g1
    g2 = g2
    w1 = w1
    None = None
    Prereqs = {p1, p2}
    Dependents = {c1, c2}
    Needs <- Shared
CHECK_DEADLOCK FALSE
INVARIANTS
    NeverEarly
    OnlyRacesStrand
PROPERTIES
    StrandedIsReleased
    PresenceSound
    UpIsOnline
