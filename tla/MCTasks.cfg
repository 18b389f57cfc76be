SPECIFICATION FairSpec
CONSTANTS
    Slots = {root, a, b}
    Root = root
    Stacks = {x, y}
    NULL = NULL
    MaxForks = 6
CONSTRAINT UpToDate
INVARIANTS RingHolds FailureExplained Owned
PROPERTIES HeapReleased
CHECK_DEADLOCK FALSE
