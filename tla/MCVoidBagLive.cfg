SPECIFICATION FairBagSpec
CONSTANTS
    Items = {i1}
    Chars = {c1, c2}
    Objs = {p1, p2}
    Calls = {k1, k2}
    InvSlots = {}
    CellsPerVoidPage = 1
    ChunkItems = 1
    NoChar = NoChar
    Overlap = TRUE
    MayFail = FALSE
    kStockTypes = 1
    kTypes = 2
    Elems = {0}
    Values = {1}
    LineOf <- TwoLines
    Jobs = {2, 3, 5}
    MaxRows = 1
    MaxFree = 1
PROPERTIES
    BagEventuallyLoads
