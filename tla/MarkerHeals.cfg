\* One session that keeps prompting, and what two commands or mishaps can do to it.
CONSTANTS
    Session = {s1}
    Inside = {s1}
    Http = {h1}
    MaxGoal = 2
    MaxEvents = 2
SPECIFICATION FairSpec
INVARIANTS Derived
PROPERTIES EntryComesBack
CHECK_DEADLOCK FALSE
