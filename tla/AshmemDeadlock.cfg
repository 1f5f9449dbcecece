SPECIFICATION Spec
CONSTANTS
    large = large
    small = small
    Areas = {large, small}
    Size <- MCSize
    MaxRanges = 3
    AllocFails = {FALSE}
INVARIANT
    NoCircularWait
CHECK_DEADLOCK FALSE
