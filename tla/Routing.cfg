CONSTANTS
    NumIns = 2
    NumOuts = 2
    NumGprs = 3
    WordBits = 2
    Patches = {p1}
    Detached = Detached
SPECIFICATION Spec
INVARIANT TypeOK
INVARIANT NoSpareVolumeGpr
INVARIANT VolumeGprsExact
PROPERTY AnswersTrue
INVARIANT OutputPatchRouted
PROPERTY KeepsTable
