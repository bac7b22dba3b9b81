\* Two compress threads and up to three blocks: blocks finish out of order,
\* the writer sees half published jobs, sleeps, polls, and meets the close.
CONSTANTS
    Worker = {c1, c2}
    Writer = writer
    MaxBlocks = 3
SPECIFICATION FairSpec
INVARIANTS
    TypeOK
    ListConsistent
    FoundJobIsThere
    NullOnlyAtTheEnd
PROPERTIES
    MailboxSpec
    EveryBlockIsFetched
