\* Two sessions, each with a goal of its own to be made beside an old one; one request
\* beside the app's own thread; a command or mishap.
CONSTANTS
    Session = {s1, s2}
    Inside = {s1, s2}
    Http = {h1}
    MaxGoal = 3
    MaxEvents = 1
SYMMETRY Sessions
SPECIFICATION Spec
INVARIANTS TypeOK OwnGoals EndsOwnTurn NamedWhileWatched
CHECK_DEADLOCK FALSE
