\* One refresh whose fuse fails, is undone and resumed; outside edits; a crash.
SPECIFICATION FairSpec
CONSTANTS
    c1 = c1
    c2 = c2
    s0 = s0
    s1 = s1
    x = x
    Candidates = {c1}
    Sources = {x}
    Contents = {s0, s1}
    Initial = s0
    Unverified = Unverified
    Empty = Empty
    NoDir = NoDir
    None = None
    MaxVersions = 3
    MaxCrashes = 1
    MaxFaults = 2
    MaxEdits = 1
    ConcurrentReader = FALSE
INVARIANTS
    FusedVersionIsReviewed
    FailedFuseKeepsBrain
    ResumeIsPossible
    RecoveryInvariant
PROPERTIES
    FuseCommitsReviewedSources
    FuseResolves
