SPECIFICATION Spec
CONSTANTS
    Probe = 6
    SyncInfo = 2
    Frames = 2
    FrameSizes <- MCFrameSizes
    MaxLength = 34
INVARIANTS
    BurstsWhole
    WholeFile
CHECK_DEADLOCK FALSE
