SPECIFICATION Spec
CONSTANTS
    W = 4
    H = 2
    TAB = 2
    BYTE = 6
    Chars = {x, blank}
    Blank = blank
    Colours = {white, green}
    White = white
    MaxAbove = 1
    MaxMarks = 2
CONSTRAINT Bounded
INVARIANTS RowOnScreen
PROPERTIES ImplementsPaper
