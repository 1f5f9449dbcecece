SPECIFICATION Spec
CONSTANTS
    large = large
    small = small
    Areas = {large, small}
    Size <- MCSize
    MaxRanges = 3
    AllocFails = {FALSE}
INVARIANTS
    ListsAgree
    UnpinnedExactly
    LossRemembered
CHECK_DEADLOCK FALSE
