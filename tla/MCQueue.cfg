SPECIFICATION Spec
CONSTANTS
    Threads = {t1, t2, t3}
    Elem = {a, b}
    Garbage = garbage
    Cap = 2
    MaxCalls = 2
SYMMETRY Symmetry
INVARIANTS TestStillHolds SizeIsLedger
CHECK_DEADLOCK FALSE
