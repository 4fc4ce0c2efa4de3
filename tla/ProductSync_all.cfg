SPECIFICATION Sync
CONSTANTS
    c1 = c1
    c2 = c2
    c3 = c3
    w1 = w1
    w2 = w2
    Code = {c1, c2, c3}
    Content = {"a", "b"}
    Worker = {w1, w2}
    AutoCreate = {TRUE, FALSE}
    MaxActs = 5
INVARIANTS OneProduct NothingLost
PROPERTY EchoDies
CHECK_DEADLOCK FALSE
