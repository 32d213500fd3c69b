\* Three versions of two files, two failing steps, a crash, an edit.  A crash in a
\* capture leaves what a failing write of it leaves.
SPECIFICATION Spec
CONSTANTS
    f1 = f1
    f2 = f2
    a = a
    b = b
    z = z
    Files = {f1, f2}
    Contents = {a}
    Size <- Sizes
    Absent = Absent
    MaxVersions = 3
    MaxFaults = 2
    MaxCrashes = 1
    MaxEdits = 1
    CrashIn = {"drop", "rollback"}
SYMMETRY Symmetric
INVARIANTS
    TypeOK
    RecordsAreKept
    DropIsAllOrNothing
    ReceiptedRollbackIsComplete
    LineageIsComplete
    StoreInvariant
PROPERTIES
    ImplementsHistory
