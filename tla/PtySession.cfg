SPECIFICATION FairSpec
CONSTANTS
    Viewer = {v1}
    Killer = {k1}
    RingBytes = 2
    Cap = 2
    MaxRead = 2
    MaxBytes = 3
INVARIANTS TypeOK NobodyWaitsInVain
PROPERTIES ImplementsStream SeesItThrough
CHECK_DEADLOCK FALSE
