SPECIFICATION FairSpec
CONSTANTS
    ItemId = {i1}
    Hook = {h1}
    Other = {o1}
    Http = {r1}
    MaxVersion = 2
    MaxEvents = 1
INVARIANTS TypeOK BaselineHonest NextHookAsks
PROPERTIES EditsHeard
CHECK_DEADLOCK FALSE
