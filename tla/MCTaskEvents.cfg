\* One app, a build and a command of one brain and a command of another, one
\* failing file or stream, one death; the record of a brain keeps two entries.
SPECIFICATION FairSpec
CONSTANTS
    p = p
    q = q
    b1 = b1
    b2 = b2
    r1 = r1
    r2 = r2
    r3 = r3
    Apps = {p}
    Brains = {b1, b2}
    Requests = {r1, r2, r3}
    AppOf <- OneApp
    BrainOf <- TwoBrains
    Builds = {r1}
    NoRequest = NoRequest
    NoApp = NoApp
    MirrorLimit = 2
    MaxFaults = 1
    MaxCrashes = 1
CHECK_DEADLOCK FALSE
INVARIANTS
    TypeOK
    CompletedTookEffect
    OkIsRecorded
    MirrorKeepsItsBrain
    AtMostTwice
    AnswerIsLast
PROPERTIES
    EveryRequestIsAnswered
