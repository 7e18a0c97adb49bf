\* A command of the app and a request of one session.
CONSTANTS
    Session = {s1}
    Inside = {s1}
    Http = {h1}
    MaxGoal = 2
    MaxEvents = 2
SPECIFICATION Spec
INVARIANTS LostEntryMeansOptOut
CHECK_DEADLOCK FALSE
