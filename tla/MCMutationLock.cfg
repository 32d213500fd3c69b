\* Two workers on Windows, each of which may crash twice, at any step.
SPECIFICATION FairSpec
CONSTANTS
    w1 = w1
    w2 = w2
    w3 = w3
    Workers = {w1, w2}
    NoFile = NoFile
    OpenFilesStay = TRUE
    MaxCrashes = 2
INVARIANTS
    TypeOK
    OneHolder
    LockInvariant
    LeftoverIsReported
PROPERTIES
    AcquireEnds
