\* Ample memory, chunks that hold every code, one load per process.
SPECIFICATION Spec
CONSTANTS
    a = a
    b = b
    c = c
    Patches = {a, b, c}
    Routing = Routing
    Size <- ThreeSizes
    RSizes = {0, 1, 2}
    PartSizes = {}
    CodeSize = 7
    Chunk = 4
    MaxLoads = 1
    Nop = Nop
    Junk = Junk
INVARIANT CodeCounted
INVARIANT CodeIntact
PROPERTY KeepsImage
