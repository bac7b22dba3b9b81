\* Three consumers and three jobs: consumers race for the same job, some of
\* them find the queue empty before, while and after it is closed.
CONSTANTS
    Consumer = {c1, c2, c3}
    Reader = reader
    MaxJobs = 3
SPECIFICATION FairSpec
INVARIANTS
    ActiveAccounts
    ListConsistent
    EndOnlyWhenDrained
PROPERTIES
    AbstractSpec
    EveryThreadEnds
