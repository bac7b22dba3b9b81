\* A file that is cut off in a member.
CONSTANTS
    MaxErrors = 0
    InBuf = 3
    Buf = 2
    Grow = 3
    Calls <- Damaged
SPECIFICATION Spec
INVARIANT
    DamageIsReported
