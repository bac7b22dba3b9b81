\* Names of up to nine characters, so that names of one more than fits, with the
\* suffix, and of several more, are cut in each of the ways of shorten_name.
CONSTANTS
    Characters <- MCCharacters
    NameMax = 9
    MinPart = 3
    SavedName <- MCSavedName
    Scripts <- MCScripts
SPECIFICATION Spec
INVARIANTS
    DataIsKept
    NameComesBack
    SuffixIsKept
    OutputIsNotInput
PROPERTY EveryFileIsTreated
