SPECIFICATION Spec
CONSTANTS
    PAGE = 8
    TableSpan = 2
    HeapStart = 8
    HeapPages = 3
    MemPages = 7
    NoHeader = NoHeader
    NoFooter = NoFooter
    Tasks = {t1, t2}
    Sizes = {1, 4}
    MaxLive = 2
INVARIANT Tiling
CHECK_DEADLOCK FALSE
