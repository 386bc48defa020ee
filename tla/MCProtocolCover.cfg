SPECIFICATION Spec
CONSTANTS
    Plugins = {p1, p2}
    Cmds = {0, 1}
    Depts = {0, 1}
    Ks = {k1, k2}
    kMaxSwaps = 2
    MaxHooks = 4
SYMMETRY Symmetry
INVARIANT CoverHolds
CHECK_DEADLOCK FALSE
