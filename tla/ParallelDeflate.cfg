\* Two compress threads and one, blocks of three units, dictionaries of two;
\* the calls of MCParallelDeflate.
CONSTANTS
    Worker = {c1, c2}
    c1 = c1
    c2 = c2
    BlockSize = 3
    Dict = 2
    Calls <- MCCalls
    Fits = {TRUE}
SPECIFICATION FairSpec
INVARIANTS
    TypeOK
    InputStable
    DictNeverBlocks
    PoolsRefilled
PROPERTIES
    SequentialSpec
    Terminates
