\* Bytes of two bits, codes of two to four; tables with an index of two bits and of
\* one, for codes of up to three and four; a window of four characters.
CONSTANTS
    ByteBits = 2
    Lit = 2
    InitBits = 2
    Bits = 4
    InBuf = 6
    Extra = 5
    OutBuf = 3
    MaxBitLen = 3
    MaxPeek = 2
    Literals = 3
    Width = 4
    CBits = 2
    PBits = 1
    NC = 6
    NP = 3
    Threshold = 2
    Window = 4
    Files <- MCLzwFiles
    PackFiles <- MCPackFiles
    LzhFiles <- MCLzhFiles
SPECIFICATION DecodersSpec
INVARIANTS
    OutputIsText
    ChainsEnd
    PackIsInverted
    TablesDecode
    WindowIsText
