SPECIFICATION MCSpec
CONSTANTS
    o1 = o1
    o2 = o2
    o3 = o3
    Order = {o1, o2, o3}
    External = {"c1", "c2"}
    Data <- Cases
    Setting <- Settings
    MaxActs = 2
SYMMETRY Symmetry
INVARIANTS OneContact NoDuplicates
PROPERTY AddressAlike
CHECK_DEADLOCK FALSE
