\* As IoThread, and patches are put last on output lines.
SPECIFICATION Spec
CONSTANTS
    eq = eq
    echo = echo
    wide = wide
    Patches = {eq, echo, wide}
    NumLines = 2
    NumGprs = 6
    LinesOf <- MCLinesOf
    Connections <- Crossed
    Places <- OutLast
    MaxLoads = 1
    MaxEdits = 2
INVARIANT FoundAgain
