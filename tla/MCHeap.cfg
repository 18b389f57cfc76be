SPECIFICATION QuietSpec
CONSTANTS
    PAGE = 4
    TableSpan = 3
    HeapStart = 4
    HeapPages = 11
    MemPages = 17
    NoHeader = NoHeader
    NoFooter = NoFooter
    Tasks = {t1}
    Sizes = {8, 14}
    MaxLive = 3
CONSTRAINT Followed
INVARIANTS BlockListSound OwnersSafe UsedIsOwned StopsExplained
PROPERTY Returns
CHECK_DEADLOCK FALSE
