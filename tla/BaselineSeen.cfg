SPECIFICATION Spec
CONSTANTS
    ItemId = {i1}
    Hook = {h1}
    Other = {o1}
    Http = {r1}
    MaxVersion = 2
    MaxEvents = 1
INVARIANTS BaselineSeen
CHECK_DEADLOCK FALSE
