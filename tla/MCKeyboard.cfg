SPECIFICATION FairSpec
CONSTANTS
    Keys <- MCKeys
    Code <- MCCode
    Shifted <- MCShifted
    Shifts = {"F"}
    Silent = {"F"}
    LF = "NL"
    BS = "BS"
    NUL = ""
    Garbage = "?"
    Depth = 3
    Size = 3
    MaxEvents = 5
INVARIANTS OnceEach LineWhole
PROPERTIES PressesArrive
