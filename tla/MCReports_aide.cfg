\* AIDE's logs, one or two of them, with every other report at its smallest.
CONSTANTS
    Width = 1
    ValueLists = {}
    AideCounts = {1, 3}
    AideDirs <- MCAideDirs
    Now = 2
    Window = 1
    Tolerance = 0
    Clock = 2
    WindowMin = 1
    MaxLogLines = 1
SPECIFICATION RepSpec
INVARIANT AideIsNewest
CHECK_DEADLOCK FALSE
