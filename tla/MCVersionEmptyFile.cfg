SPECIFICATION Spec
CONSTANTS
    f1 = f1
    f2 = f2
    a = a
    b = b
    z = z
    Files = {f1, f2}
    Contents = {a, z}
    Size <- Sizes
    Absent = Absent
    MaxVersions = 1
    MaxFaults = 0
    MaxCrashes = 0
    MaxEdits = 0
    CrashIn = {}
INVARIANTS
    ListedVersionsLoad
