CONSTANTS
    Apps <- MCApps
    MaxProbes = 3
SPECIFICATION PacksSpec
INVARIANT
    MutatesOnlyWhenAllowed
CHECK_DEADLOCK FALSE
