\* Three files, so that one is finished, one is treated and one is to come;
\* every command line and, at any moment, an error, a signal or a crash.
CONSTANTS
    NFiles = 3
    Dirs <- MCDirs
    DirOf <- MCDirOf
    Searchable <- MCSearchable
    Options <- OptionRecords
SPECIFICATION Spec
INVARIANTS
    NeverLost
    CrashKeeps
    NoPartialLeft
    SuccessMeansWhole
PROPERTIES
    ForeignKept
    ReplaceSpec
