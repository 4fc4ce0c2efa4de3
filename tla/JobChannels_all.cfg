SPECIFICATION Spec
CONSTANTS
    root = root
    sub = sub
    seq = seq
    Channel = {root, sub, seq}
    Root = root
    Parent <- ChainParent
    Above <- ChainAbove
    Capacity <- ChainCapacity
    Sequential = {seq}
    Throttle <- ChainThrottle
    Job = {1, 2}
    Home <- PairHome
    Priority <- FlatPriority
    MaxTime = 2
INVARIANTS TypeOK MemoryInSync CapacityKept NoOversleep
PROPERTY EtaRespected
