\* Data that deflate() makes longer than a block.
CONSTANTS
    Worker = {c1, c2}
    c1 = c1
    c2 = c2
    BlockSize = 3
    Dict = 2
    Calls <- OneBlock
    Fits = {FALSE}
SPECIFICATION Spec
INVARIANT BlocksAreWhole
