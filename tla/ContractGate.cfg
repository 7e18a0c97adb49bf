\* Two sessions whose gate calls overlap each other and everything the human
\* and the agent do to one item; one pane; a working turn is fair.
CONSTANTS
    ItemId = {i1}
    Legacy = {i1}
    LoadedVersion = 1
    Session = {s1, s2}
    Pane = {p1}
    Class = {"Subjective", "ObjectiveByAgent"}
    MaxVersion = 2
SPECIFICATION FairSpec
INVARIANTS VerdictStands
PROPERTIES StatusPath ImplementsRule NeverStuck
CHECK_DEADLOCK FALSE
