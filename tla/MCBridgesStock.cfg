SPECIFICATION BridgesSpec
CONSTANTS
    Sessions = {1}
    Shifts = {0, 21}
    Worlds = {0, 1}
    MaxPackets = 8
    kAvatarSlots = 3
    Members = {0, 1, 3}
    Chunk = 2
    Players = {1, 2}
    Quests = {1, 2, 3}
    kTracked = 2
    Items <- MCItems
    Handles = {1, 2}
    Extra = {792, 1079}
    Uncovered = {"late unknown"}
    MaxQueue = 3
    Classes <- MCClasses
    Counts = {0, 2, 3}
    MaxItems = 2
    Rows <- MCRows
    Slots16 <- MCSlots16
    Rewards <- MCRewards
    Tables <- MCTables
    Companion <- MCCompanion
    ClientRows <- MCClientRows
    kMax = 65535
    Folds <- MCFolds
    Sites = 3
INVARIANT StockSessionsStayStock
CHECK_DEADLOCK FALSE
