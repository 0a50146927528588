CONSTANTS
    Readers = {r1}
    Contents <- GrowingContents
    Wanted = {"B"}
    BindMounted = FALSE
    MaxReads = 2
    MaxCrashes = 0
    MaxRestarts = 0
SPECIFICATION Spec
INVARIANTS
    ServesLastPublication
CHECK_DEADLOCK FALSE
