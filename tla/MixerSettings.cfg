SPECIFICATION Spec
CONSTANTS
    Configs = {c1, c2}
    Guis = {g1}
    Audigy = TRUE
    Amounts <- MCAmounts
    VoiceBuses <- MCVoiceBuses
    Voices = {1}
    Moved = {2}
    Sources = {3}
    RecBuses = {15}
    Registers = {"spdif"}
    MaxOptions <- OneEach
    c1 = c1
    c2 = c2
    g1 = g1
INVARIANTS
    TypeOK
    CopyExplained
    PinsReleased
    OutputPinsAgree
PROPERTIES
    ConfigEnds
    SourceArrives
CHECK_DEADLOCK FALSE
