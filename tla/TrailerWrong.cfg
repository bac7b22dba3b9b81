\* The smallest input: one block.
CONSTANTS
    Worker = {c1, c2}
    c1 = c1
    c2 = c2
    BlockSize = 3
    Dict = 2
    Calls <- OneBlock
    Fits = {TRUE}
SPECIFICATION Spec
INVARIANT TrailerMatchesInput
