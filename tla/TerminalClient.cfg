SPECIFICATION FairSpec
CONSTANTS
    Proc = {p1, p2}
    Conn = {c1, c2}
    MaxId = 3
    MaxCalls = 3
    MaxFaults = 1
INVARIANTS TypeOK NeverReused Reachable AnswersMatch OnceOnly Heals SurvivorsListed
PROPERTIES ExitsEmpty EmptyGoes CallsEnd ImplementsService
CHECK_DEADLOCK FALSE
