SPECIFICATION Sync
CONSTANTS
    part = part
    made = made
    kit = kit
    m1 = m1
    w1 = w1
    w2 = w2
    Product = {part, made, kit}
    Bom <- Chain
    Consumable = {kit}
    Field = {"free_qty", "qty_available", "virtual_available"}
    Made = {TRUE}
    Move = {m1}
    Worker = {w1, w2}
    BlockSize = 2
    Stock = {0, 1}
    MaxActs = 2
INVARIANTS StoreFollows
PROPERTY StockSettles
CHECK_DEADLOCK FALSE
