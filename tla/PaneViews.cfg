SPECIFICATION FairSpec
CONSTANTS
    View = {v1, v2}
    MaxTimeouts = 1
INVARIANTS TypeOK OneFeed NotCutOff LetGoIsNotEnd SeenTo
PROPERTIES LearnsEnd LetsItGo
CHECK_DEADLOCK FALSE
