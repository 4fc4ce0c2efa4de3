SPECIFICATION DelaySpec
CONSTANTS
    Delayable = {a, b, c}
    MaxCompounds = 2
    MaxSize = 3
    MaxCalls = 2
SYMMETRY Alike
INVARIANTS InOrder NoneHeld EachOnce
CHECK_DEADLOCK FALSE
