\* Two patches and the routing patch; three registers, the last without a bit
\* of its own; counts overflow when all three programs use a register.
CONSTANTS
    NumGprs = 3
    WordBits = 2
    UsageMax = 2
    Patches = {p1, p2}
    Routing = Routing
    Lines = {l1, l2}
    Names = {vol}
    Values = {half}
    NoTag = NoTag
    Wrapped <- NoneWrapped
SPECIFICATION Spec
INVARIANT TypeOK
INVARIANT BitmapExact
INVARIANT UsersCounted
INVARIANT IoTableExact
PROPERTY KeepsPromise
PROPERTY DynamicDistinct
