\* Three input lines to one output line, the middle one through a patch.
SPECIFICATION Spec
CONSTANTS
    eq = eq
    echo = echo
    wide = wide
    Patches = {eq}
    NumLines = 3
    NumGprs = 6
    LinesOf <- OneMiddle
    Connections <- ToOne
    Places <- InLastOutFirst
    MaxLoads = 1
    MaxEdits = 4
INVARIANT OneInputPerOp
