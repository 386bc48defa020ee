SPECIFICATION StartupSpec
CONSTANTS
    dA = dA
    dB = dB
    dC = dC
    dD = dD
    missing = missing
    Names <- AllNames
    kMaxDeps = 2
    Folder <- FourPlugins
    Setups <- ServiceOrClient
    kMaxPlugins = 3
    kMaxCallbacks = 2
    t1 = t1
    t2 = t2
    Callers = {t1, t2}
    MaxTabs = 4
    Player = {"name", "pass", "render"}
    Slots = {0, 1, 6}
    ShownPage = 0
    WantWorld <- None
    MaxWorlds = 2
    FirstSlot = 0
    ByName <- None
    Commands = 2
    MaxEntries = 3
    Midway = FALSE
    CallCommands = 2
    Frames = 1
INVARIANTS
    LoadedInOrder
    AnswersMatch
    NoTornRead
    OkMeansWritten
    FormAsMeant
    PasswordInAField
PROPERTIES
    NoLateFile
    EveryPartEnds
CHECK_DEADLOCK FALSE
