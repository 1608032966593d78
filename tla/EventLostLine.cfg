SPECIFICATION Spec
CONSTANTS
    Client = {c1}
    c1 = c1
    None = None
    Slots = 1
    Ids = {1}
    Item = {1}
    Initial <- MCInitial
    Qty = {1}
    IntMax = 3
    Ops = {"show", "buy"}
    Pipelining = {c1}
    Splitting = {}
    Rude = {}
    Budget = 2
    Kills = 0
INVARIANT NoLineLost
