SPECIFICATION Import
CONSTANTS
    o1 = o1
    o2 = o2
    o3 = o3
    w1 = w1
    w2 = w2
    Order = {o1, o2, o3}
    Recent = {o1, o2, o3}
    Importable = {"paid"}
    Subscriptions = {{}, {"create"}, {"paid", "cancelled"}}
    PageLimit = 2
    Worker = {w1, w2}
    Burst = 1
    MaxTime = 4
    MaxActs = 1
INVARIANTS TypeOK NoneMissed OneOrder
PROPERTY Received
