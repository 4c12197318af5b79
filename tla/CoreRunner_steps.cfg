SPECIFICATION RunSpec
CONSTANTS
    Machine <- StepClients
    Properties <- MCProperties
    MaxDepth = 2
    ShrinkBudget = 3
    Cases = 2
    MaxStates = 3
INVARIANT NoDanglingTransition
CHECK_DEADLOCK FALSE
