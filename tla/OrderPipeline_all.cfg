SPECIFICATION Spec
CONSTANTS
    w1 = w1
    w2 = w2
    N = 3
    Worker = {w1, w2}
    MaxQueued = 2
    MaxActs = 2
INVARIANTS ExecutedOnce NoneAbandoned
PROPERTIES InOrder FileDoneSound
SYMMETRY Workers
\* The workflow of an order ends.
CHECK_DEADLOCK FALSE
