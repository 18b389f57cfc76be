SPECIFICATION EditorSpec
CONSTANTS
    Printing <- MCPrinting
    Zero <- NUL
    Parse <- parse
    SIZE = 7
    WORD = 8
    Deepest = 2
    MaxTyped = 7
    MaxAny = 5
    MaxRubbed = 3
CONSTRAINT Bounded
INVARIANTS LineIsKept ParserAgrees
PROPERTIES ExecutedIsTyped
CHECK_DEADLOCK FALSE
