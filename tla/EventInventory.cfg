SPECIFICATION Spec
CONSTANTS
    Client = {c1, c2}
    c1 = c1
    c2 = c2
    None = None
    Slots = 2
    Ids = {1, 9}
    Item = {1}
    Initial <- MCInitial
    Qty = {2}
    IntMax = 15
    Ops = {"show", "buy", "sell", "junk"}
    Pipelining = {}
    Splitting = {c1, c2}
    Rude = {}
    Budget = 2
    Kills = 0
SYMMETRY Symmetry
PROPERTY ImplementsInventory
