SPECIFICATION Delivery
CONSTANTS
    x = x
    y = y
    w1 = w1
    w2 = w2
    Line = {x, y}
    Orders <- SmallOrders
    Apply = {TRUE, FALSE}
    Worker = {w1, w2}
    MaxActs = 3
INVARIANTS AppliedOnce
PROPERTY ShippedAlike
CHECK_DEADLOCK FALSE
