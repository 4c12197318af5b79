CONSTANT
    MaxLaunches = 2
SPECIFICATION ServerSpec
INVARIANT
    NothingSurvivesStop
CHECK_DEADLOCK FALSE
