\* A crash after the promotion, then a drop.
SPECIFICATION Spec
CONSTANTS
    c1 = c1
    c2 = c2
    s0 = s0
    s1 = s1
    x = x
    Candidates = {c1}
    Sources = {}
    Contents = {s0, s1}
    Initial = s0
    Unverified = Unverified
    Empty = Empty
    NoDir = NoDir
    None = None
    MaxVersions = 3
    MaxCrashes = 1
    MaxFaults = 0
    MaxEdits = 0
    ConcurrentReader = FALSE
INVARIANTS
    DroppedWasNotPromoted
