\* Four threads compete for three spaces: more threads than spaces, so that
\* get_space blocks on "have", and two threads race for "safe" behind it.
CONSTANTS
    User = {t1, t2, t3, t4}
    Space = {s1, s2, s3}
SPECIFICATION PoolSpec
SYMMETRY Symmetry
INVARIANTS
    NoNullHead
    NoSpaceLostOrShared
PROPERTY BankSpec
\* The clients of this module decide when they give spaces back, so all of
\* them may end up waiting: ParallelDeflate shows that the real ones do not.
CHECK_DEADLOCK FALSE
