CONSTANTS
    Threads = {executor, request}
    Inserts = 2
    MaxWrites = 1
    MaxErrors = 0
    MaxTime = 1
SPECIFICATION ConnectionSpec
INVARIANTS
    WritesAreAtomic
CHECK_DEADLOCK FALSE
