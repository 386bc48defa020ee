SPECIFICATION StoresSpec
CONSTANTS
    Items = {i1, i2}
    Chars = {c1, c2}
    Objs = {p1, p2}
    Calls = {k1, k2}
    InvSlots = {0}
    CellsPerVoidPage = 1
    ChunkItems = 1
    NoChar = NoChar
    Overlap = FALSE
    MayFail = TRUE
    kStockTypes = 1
    kTypes = 2
    Elems = {0, 1}
    Values = {1, 7}
    LineOf <- TwoLines
    Jobs = {2, 3, 5}
    MaxRows = 3
    MaxFree = 3
    Sites <- MCSites
    Backed <- MCBacked
    Key <- MCKey
    Recipes <- MCRecipes
    Refused = Refused
    Absent = Absent
    Torn = Torn
    Cut = Cut
    SectionAlign = 16
    FileAlign = 4
    RegionAlign = 2
    ArenaHeader = 4
    ArenaDirAt = 2
    ArenaDirMax = 3
    ArenaExecSize = 8
    HeaderRoom = 2
    StockImports = 1
    StockRelocs = 2
    Paths = {"stock", "a"}
    StockPath = "stock"
    Outs = {"a"}
    MaxChain = 2
    MaxApplied = 4
    MayOverwrite = TRUE
SYMMETRY Symmetry
INVARIANTS
    NoSharedSlot
    LoadedBagIsTheRows
    ClientShowsTheBag
    OneBagPerCharacter
    NoForeignItems
    RegionsNeverOverlap
    DirectoryTellsTheTruth
    AllOrNothing
    BuildHolds
PROPERTIES
    RowsMoveLegally
    OneTitleSet
    VaultsByJob
CHECK_DEADLOCK FALSE
