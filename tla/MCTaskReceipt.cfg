SPECIFICATION Spec
CONSTANTS
    p = p
    q = q
    b1 = b1
    b2 = b2
    r1 = r1
    r2 = r2
    r3 = r3
    Apps = {p}
    Brains = {b1}
    Requests = {r1}
    AppOf <- OneApp
    BrainOf <- TwoBrains
    Builds = {r1}
    NoRequest = NoRequest
    NoApp = NoApp
    MirrorLimit = 2
    MaxFaults = 0
    MaxCrashes = 0
CHECK_DEADLOCK FALSE
INVARIANTS
    ReceiptIsOfTheEvent
