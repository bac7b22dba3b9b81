\* Buffers of three and two units and content of three per unit: inputs end before,
\* at and behind the end of each buffer, and output fills its own in between.
CONSTANTS
    MaxErrors = 1
    InBuf = 3
    Buf = 2
    Grow = 3
    Calls <- MCCalls
SPECIFICATION Spec
INVARIANTS
    NeverSkips
    SpoolIsInput
    OutputIsContent
PROPERTY EveryRunEnds
