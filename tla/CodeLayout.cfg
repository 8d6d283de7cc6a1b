\* Memory for four words, chunks of one word, routing code that fails half
\* way, two loads per process.
SPECIFICATION Spec
CONSTANTS
    a = a
    b = b
    c = c
    Patches = {a, b}
    Routing = Routing
    Size <- TwoSizes
    RSizes = {0, 1, 2}
    PartSizes = {1}
    CodeSize = 4
    Chunk = 1
    MaxLoads = 2
    Nop = Nop
    Junk = Junk
INVARIANT TypeOK
INVARIANT OneBlock
