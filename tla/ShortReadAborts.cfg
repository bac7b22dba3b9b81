\* A pipe delivers less than a dictionary, and more later.
CONSTANTS
    Worker = {c1, c2}
    c1 = c1
    c2 = c2
    BlockSize = 3
    Dict = 2
    Calls <- Piped
    Fits = {TRUE}
SPECIFICATION Spec
INVARIANT DictionaryAssertion
