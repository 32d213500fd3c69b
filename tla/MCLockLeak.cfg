SPECIFICATION Spec
CONSTANTS
    Workers = {w1, w2}
    w1 = w1
    w2 = w2
    w3 = w3
    NoFile = NoFile
    OpenFilesStay = TRUE
    MaxCrashes = 0
INVARIANTS
    FinishedReleases
