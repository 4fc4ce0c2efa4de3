SPECIFICATION Matching
CONSTANTS
    t1 = t1
    t2 = t2
    p1 = p1
    p2 = p2
    w1 = w1
    w2 = w2
    Nothing = Nothing
    Template = {t1, t2}
    Variant = {1, 2, 3}
    Of <- Templates
    Product = {p1, p2}
    Item = {1, 2, 3}
    In <- Products
    Alike <- Attributes
    Sku = {"a", "b", "c"}
    Stores <- StoreStart
    Stocks <- StockStart
    Limit = 2
    Importer = {w1, w2}
    MaxActs = 3
INVARIANTS Reported WholeProduct
PROPERTIES ProductKept ImportsEnd
CHECK_DEADLOCK FALSE
