SPECIFICATION Spec
CONSTANTS
    eq = eq
    echo = echo
    wide = wide
    Patches = {eq, echo, wide}
    NumLines = 2
    NumGprs = 6
    LinesOf <- MCLinesOf
    Connections <- Crossed
    Places <- InAnyOutFirst
    MaxLoads = 1
    MaxEdits = 3
SYMMETRY Alike
INVARIANTS
    TypeOK
    LacksWhenRefused
    SignalPath
    FoundAgain
    TwoPerLine
