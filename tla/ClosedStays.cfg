\* The human closes the goal; a gate call that releases, begun before or after, is recorded.
CONSTANTS
    ItemId = {i1}
    Legacy = {}
    LoadedVersion = 1
    Session = {s1}
    Pane = {}
    Class = {"Subjective", "ObjectiveByAgent"}
    MaxVersion = 2
SPECIFICATION Spec
PROPERTIES ClosedStays
CHECK_DEADLOCK FALSE
