SPECIFICATION FinishSpec
CONSTANTS
    Client = {c1, c2, c3}
    c1 = c1
    c2 = c2
    c3 = c3
    None = None
    Slots = 2
    Ids = {1}
    Item = {1}
    Initial <- MCInitial
    Qty = {1}
    IntMax = 3
    Ops = {"buy", "exit"}
    Pipelining = {}
    Splitting = {c1}
    Rude = {c1}
    Budget = 1
    Kills = 2
INVARIANTS TypeOK FileCurrent PoolExact
PROPERTY Answered
