CONSTANTS
    Failures <- OneClass
    Length = 3
    Attempts = 3
    Budget = 4
SPECIFICATION FindingSpec
INVARIANT
    ClassesReproduced
CHECK_DEADLOCK FALSE
