SPECIFICATION FairSpec
CONSTANTS
    Client = {c1, c2}
    c1 = c1
    c2 = c2
    Ids = {1}
    Item = {1}
    Initial <- MCInitial
    ShowOrder <- MCShowOrder
    FileOrder <- MCFileOrder
    Qty <- MCQtyEdge
    IntMax = 3
    Ops = {"show", "buy", "sell", "cut", "exit", "reset", "pipe"}
    Budget = 1
INVARIANTS TypeOK NoLossWithoutRace ReadersCounted ClientsCounted SemaphoresOwned NoLagWithoutOverlap
PROPERTIES RequestAnswered ConnectionServed
CHECK_DEADLOCK FALSE
