SPECIFICATION Spec
CONSTANTS
    Lists = {list0, list1}
    list0 = list0
    list1 = list1
    NoList = NoList
    Items = {i1, i2, i3, i4}
    i1 = i1
    i2 = i2
    i3 = i3
    i4 = i4
    HashItems = {i1, i2, i3, i4}
    Data = {0, 1, 2}
    IntMod = 4
    HashOf <- SmallHash
    MinBuckets = 1
    BestPerBucket = 1
    ElemBits = 4
    AsmBits = 2
    MaxBits = 5
SYMMETRY Symmetry
INVARIANTS ListsSound OrderingRight MovesRight TableSound FindsWhatIsThere LowBitsExact
PROPERTY StaysASet
CHECK_DEADLOCK FALSE
