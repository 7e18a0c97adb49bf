SPECIFICATION Spec
CONSTANTS
    View = {v1}
    MaxTimeouts = 0
INVARIANT EndedMeansEnded
CHECK_DEADLOCK FALSE
