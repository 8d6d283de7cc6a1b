SPECIFICATION Spec
CONSTANTS
    echo = echo
    chorus = chorus
    reverb = reverb
    Patches = {echo, chorus, reverb}
    Tables <- MCTables
    Delays <- MCDelays
    IMem = 4
    EMem = 6
    ILines = 4
    ELines = 4
    U8 = 8
    AddrSpace = 8
    MaxLoads = 2
INVARIANTS
    TypeOK
    LinesReachBlocks
    MemoryApart
    NoStrayLine
    ExternalFits
