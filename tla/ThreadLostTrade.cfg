SPECIFICATION Spec
CONSTANTS
    Client = {c1, c2}
    c1 = c1
    c2 = c2
    Ids = {1, 2}
    Item = {1, 2}
    Initial <- MCInitial
    ShowOrder <- MCShowOrder
    FileOrder <- MCFileOrder
    Qty = {1}
    IntMax = 3
    Ops = {"buy", "sell"}
    Budget = 1
INVARIANT EveryTradeCounts
CHECK_DEADLOCK FALSE
