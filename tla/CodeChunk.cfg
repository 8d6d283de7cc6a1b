\* As CodeMemory, with chunks of one word.
SPECIFICATION Spec
CONSTANTS
    a = a
    b = b
    c = c
    Patches = {a, b, c}
    Routing = Routing
    Size <- ThreeSizes
    RSizes = {0, 1, 2}
    PartSizes = {}
    CodeSize = 7
    Chunk = 1
    MaxLoads = 1
    Nop = Nop
    Junk = Junk
PROPERTY LoadsWhole
