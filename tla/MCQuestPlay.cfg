SPECIFICATION PlaySpec
CONSTANTS
    Quests = {"A", "B", "C"}
    Mobs = {"m", "n"}
    Items = {"quest"}
    AnyMob = "any"
    QuestData <- MCQuestData
    QuestItems = {"quest"}
    kSlots = 2
    EndSlots = 1
    Limit = 3
    MaxLot = 2
    CellNos = {1, 2}
    MaxGround = 1
    MaxStack = 2
    MaxAsks = 1
    Objs = {p, r}
    RewardQuests = {1, 2, 3, 4}
    FullReward <- MCFull
    DW = 16
    FP = 8
    kMaxPending = 2
    Boosts = {100, 500}
    HasSlot = TRUE
    MaxRewards = 2
SYMMETRY Symmetry
INVARIANTS
    BookIsRight
    RewardsHold
PROPERTIES
    OnlyReturnsOverfill
    GivenUpItemsGo
    PicksAreExact
