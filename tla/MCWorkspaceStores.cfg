SPECIFICATION WorkspaceSpec
CONSTANTS
    c1 = c1
    c2 = c2
    e1 = e1
    e2 = e2
    p1 = p1
    s1 = s1
    p2 = p2
    g1 = g1
    g2 = g2
    g3 = g3
    a = a
    b = b
    db = db
    f1 = f1
    f2 = f2
    x1 = x1
    x2 = x2
    k1 = k1
    k2 = k2
    t1 = t1
    z1 = z1
    m1 = m1
    b1 = b1
    b2 = b2
    d1 = d1
    n1 = n1
    q1 = q1
    r1 = r1
    u = u
    l1 = l1
    l2 = l2
    v1 = v1
    v2 = v2
    v3 = v3
    o1 = o1
    o2 = o2
    w1 = w1
    h1 = h1
    h2 = h2
    y1 = y1
    i1 = i1
    i2 = i2
    j1 = j1
    j2 = j2
    rt1 = rt1
    rt2 = rt2
    mb = mb
    rb = rb
    ot1 = ot1
    mt1 = mt1
    ct1 = ct1
    Candidates = {c1, c2}
    NoCandidate = NoCandidate
    NoLedger = NoLedger
    MaxEvents = 2
    MaxLedgerFaults = 1
    MaxEnds = 1
    MaxAsked = 2
    MaxContext = 1
    MaxLoad = 1
    Endpoints = {e1, e2}
    NoEndpoint = NoEndpoint
    Remote = {e1}
    MaxTurns = 1
    MaxChanges = 2
    MaxTurnFaults = 1
    Plans = {p1, p2}
    Steers = {s1}
    PlanSteers = {}
    Gated = {s1}
    Chosen = {"DROPPED"}
    MaxSettings = 1
    MaxInterruptions = 1
    Grants = {g1, g2, g3}
    NoGrant = NoGrant
    MaxMutationFaults = 3
    Names = {a, b}
    NoName = NoName
    MaxBrainRows = 2
    MaxMishaps = 1
    TreeFiles = {db, f1, registry, routes}
    Database = db
    AuthorityFiles = {registry}
    RouteReceipt = routes
    Written = Written
    Missing = Missing
    NoTree = NoTree
    MaxEdits = 2
    MaxMigrationFaults = 1
    Assets = {x1, x2}
    NoAsset = NoAsset
    LineageKeys = {k1, k2}
    NoKey = NoKey
    MaxChats = 2
    MaxLocalFaults = 2
    SemanticLane = {t1}
    StructuralLane = {z1}
    CodeLane = {m1}
    Unverified = {z1}
    Contents = {1, 2}
    NoRow = NoRow
    NoSource = NoSource
    MaxSourceEdits = 2
    MaxIngestions = 2
    MaxIngestFaults = 1
    BuildSources = {b1, b2}
    CodeSources = {b1}
    Duplicates = {b1, b2}
    PayloadOwner = b1
    UseModes = {"CANONICAL_FLASHABLE", "READ_ONLY_STRESS_RESULT"}
    ChatGPTTooLarge = {4}
    GeminiTooLarge = {3}
    Absent = Absent
    Skipped = Skipped
    MaxSourceChanges = 1
    MaxBuilds = 2
    MaxBuildFaults = 1
    Databases = {d1}
    Versions = {1, 2}
    GoalDeltas = {n1}
    NoSnapshot = NoSnapshot
    MaxDatabaseEdits = 1
    MaxCommands = 3
    MaxCommandFaults = 1
    ChatLogs = {q1}
    ResearchLogs = {r1}
    Lines = {u}
    Responses = {1}
    NoLog = NoLog
    Unseen = Unseen
    MaxLogEdits = 2
    MaxAppends = 2
    MaxAppendFaults = 1
    Paths = {l1, l2}
    CodeContents = {1, 2}
    Broken = {2}
    Checked = {l1}
    Importing = {1}
    Gone = Gone
    Same = Same
    MaxTreeEdits = 2
    MaxRefreshes = 2
    PlainSources = {v1}
    ResearchSources = {v2}
    ChatSources = {v3}
    SourceTexts = {1, 2}
    FirstText = 1
    Continuations <- LaterTexts
    NoText = NoText
    Unindexed = Unindexed
    MaxListChanges = 2
    MaxTakeIns = 2
    Origins = {o1, o2}
    RestoredNames = {w1}
    NoOrigin = NoOrigin
    NoFolder = NoFolder
    MaxRollbacks = 3
    MaxOriginEdits = 1
    MaxRollbackFaults = 2
    NoPackage = NoPackage
    NoPair = NoPair
    MaxHandoffBuilds = 3
    MaxMarks = 3
    MaxHandoffs = 2
    MaxHands = 2
    MaxHandoffFaults = 1
    Viewers = {h1, h2}
    Sectors = {y1}
    NoGraph = NoGraph
    NoDelta = NoDelta
    MaxIndexEdits = 1
    MaxCaptures = 1
    MaxDeltas = 1
    MaxQueries = 2
    MaxViewFaults = 1
    Desktops = {i1, i2}
    Routes = {j1, j2}
    MainRoute = j1
    NoCatalog = NoCatalog
    MaxCatalogs = 2
    MaxCatalogEvents = 1
    RuntimeFiles = {rt1, rt2}
    NoRoot = NoRoot
    MaxPreparations = 3
    MaxTold = 2
    MaxRootFaults = 1
    StageCount = 2
    Percents = {}
    HistoryLimit = 2
    MaxPipelines = 2
    MaxRows = 1
    NoState = NoState
    MaxProgressFaults = 1
    MainBrain = mb
    RestoredBrain = rb
    OutputTexts = {ot1}
    MediaTypes = {mt1}
    ContinuationKeys = {ct1}
    NoContinuation = NoContinuation
    OtherReceipt = OtherReceipt
    NoCopy = NoCopy
    NoOutput = NoOutput
    MaxSessionCommands = 4
    MaxEvidenceFaults = 1
INVARIANTS
    WorkspaceTypeOK
    LedgerIsKept
    RegistryIsKept
    TurnsAndPlanAreKept
    MutationsAreSettled
    ViewsAreTrue
    LocalFilesAreKept
    SourcesAreTaken
    ProductsAreTrue
CHECK_DEADLOCK FALSE
