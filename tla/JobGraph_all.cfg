SPECIFICATION FairSpec
CONSTANTS
    a = a
    b = b
    c = c
    Job = {a, b, c}
    Parents <- Join
INVARIANT NoneForgotten
PROPERTIES PropagationSound ReleaseOnlyWaiting GraphEnds
CHECK_DEADLOCK FALSE
