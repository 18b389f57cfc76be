SPECIFICATION FairSpec
CONSTANTS
    Tasks = {t1, t2, t3}
    Nobody = nobody
    Elem = {x}
    Garbage = garbage
    Cap = 2
    MaxChars = 6
INVARIANTS Exclusion PopNonEmpty CharsConserved
PROPERTIES Returns ImplementsDevice
