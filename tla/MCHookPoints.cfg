SPECIFICATION HookSpec
CONSTANTS
    Plugins = {a, b}
    Cmds = {0, 1}
    Depts = {0, 1}
    Ks = {c, d}
    kMaxSwaps = 2
    MaxHooks = 3
    Kbs = {a, b}
    Mice = {c, d}
    Setups <- KeyboardsOrMice
    Keys = {Enter, q}
    Enter = Enter
    Tab = Tab
    Places = {0, 1}
    Commands = 2
    Rooms = {1, 9}
SYMMETRY Symmetry
INVARIANTS
    OnlyTheHooksAsked
    OriginalsKept
    EventsWhole
CHECK_DEADLOCK FALSE
