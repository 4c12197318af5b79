CONSTANT
    Pages <- MCPages
SPECIFICATION InventorySpec
INVARIANT
    OnlyOperable
CHECK_DEADLOCK FALSE
