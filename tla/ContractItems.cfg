\* Two items, one of them perhaps waived by an old goal file; no session, so the
\* calls of human and agent interleave freely up to three contract versions.
CONSTANTS
    ItemId = {i1, i2}
    Legacy = {i1}
    LoadedVersion = 1
    Session = {}
    Pane = {}
    Class = {"Subjective", "ObjectiveByAgent"}
    MaxVersion = 3
SPECIFICATION Spec
INVARIANTS TypeOK StatusIsBacked
PROPERTIES EditMakesStale HumanItemsStand
CHECK_DEADLOCK FALSE
