SPECIFICATION DungeonsSpec
SYMMETRY MCPlayers
CONSTANTS
    p1 = p1
    p2 = p2
    Players = {p1, p2}
    Gates = {"helga", "psiken", "lone"}
    Links <- MCLinks
    Rows <- MCRows
    GatedMaps = {"tomb"}
    Blocked = {"mansion"}
    Ring = 3
    Sites = 3
    MaxRecords = 5
    Chars = {1, 2}
    Parties = {1, 2}
    KeyBase = 4
    kMaxMembers = 2
    MaxMoving = 1
    MaxOpen = 2
INVARIANTS
    ButtonMeansWhatItSays
    BuffFits
PROPERTIES
    GatesHold
    EntersByRight
    OwnersAreTold
CHECK_DEADLOCK FALSE
