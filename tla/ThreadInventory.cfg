SPECIFICATION SerialSpec
CONSTANTS
    Client = {c1, c2}
    c1 = c1
    c2 = c2
    Ids = {1, 2, 9}
    Item = {1, 2}
    Initial <- MCInitial
    ShowOrder <- MCShowOrder
    FileOrder <- MCFileOrder
    Qty = {2}
    IntMax = 3
    Ops = {"show", "buy", "sell", "junk", "cut", "exit", "reset", "pipe"}
    Budget = 2
SYMMETRY Symmetry
INVARIANT NoLagWithoutOverlap
PROPERTY ImplementsInventory
CHECK_DEADLOCK FALSE
