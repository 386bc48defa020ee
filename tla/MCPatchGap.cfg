SPECIFICATION PatchSpec
CONSTANTS
    Sites <- MCSites
    Backed <- MCBacked
    Key <- MCKey
    Recipes <- MCRecipes
    Refused = Refused
    Absent = Absent
    Torn = Torn
    Cut = Cut
    SectionAlign = 16
    FileAlign = 4
    RegionAlign = 2
    ArenaHeader = 4
    ArenaDirAt = 2
    ArenaDirMax = 4
    ArenaExecSize = 8
    HeaderRoom = 2
    StockImports = 1
    StockRelocs = 2
    Paths = {"stock", "a"}
    StockPath = "stock"
    Outs = {"a"}
    MaxChain = 2
    MaxApplied = 2
    MayOverwrite = TRUE
INVARIANT BytesToTheEnd
