\* The components that keep state between awaits, one small instance of each.
SPECIFICATION Spec
CONSTANTS
    h1 = h1
    h2 = h2
    h3 = h3
    l1 = l1
    l2 = l2
    a1 = a1
    a2 = a2
    None = None
    Nothing = Nothing
    CircuitAttempts = {l1, l2}
    CircuitRoutes = {"r"}
    CircuitModels = {"m1", "m2"}
    CircuitCooldowns = {}
    ProbeInterval = 1
    CircuitCooldown = 1
    CircuitLimit = 1
    HostRequests = {h1, h2, h3}
    Origins = {"o1", "o2"}
    FailureWindow = 2
    Cooldown = 1
    MaxEntries = 1
    FailureThreshold = 2
    MaxTime = 3
    MaxGeneration = 4
    MaxRestarts = 1
    Callers = {c1, c2}
    CallerKinds = {"request", "manual", "scheduled"}
    MaxAttempts = 3
    MaxReplacements = 1
    MaxFetches = 3
    TurnKeys = {"k1"}
    Lanes = {l1, l2}
    MaxItems = 1
    MaxReceipts = 1
    MaxGenerations = 2
    TableRows = {"u", "s1", "s2", "g"}
    Transient = {"g"}
    Values = {1, 2}
    Collection <- RowCollections
    MaxSteps = 3
    MaxEvents = 3
    CompatRequests = {"r1", "r2", "r3"}
    CompatShared = {"r1", "r3"}
    CompatKind <- OneOfEachKind
    MaxPolls = 1
    RawRequests = {"r1"}
    RawShared = {"r1"}
    AccountTypes = {"codex", "claude", "compass"}
    QuotaInterval = 1
    QuotaOwners = 2
    QuotaTokens = 2
    QuotaTime = 1
    CatalogAccounts = {"a1", "a2"}
    CatalogModels = {"m1"}
    CatalogRank <- FirstBeforeSecond
    FreshTtl = 1
    ListingTtls = {}
    FailureSuppression = 1
    MaxCatalogs = 1
    MaxAggregations = 1
    MaxNegative = 1
    CatalogGenerations = 2
    CatalogRevisions = 4
    CatalogFetches = 2
    CatalogTime = 1
    ToolNames <- NamesThatCollide
    PlainTools = {"m0a", "m1a"}
    AliasWords = 2
    NameHash <- HashOfNames
    SanitizedName <- NamesWithoutMarks
    AliasName <- NamesOfAliases
    MaxTools = 4
    MarkedBodies <- BodiesWithFewMarks
    MarkLimit = 4
    SuffixBudgets = {0, 2, 3, 4}
    TokenLimits = {1, 2, 3}
    LeastBudget = 2
    DefaultTokens = 2
    MaxCompressed = 2
    MaxDecompressed = 3
    MaxRatio = 2
    BodyDeadline = 1
    MaxBodySize = 4
    BodyChunks = 2
    DecodedBytes = 1
    RejectedBytes = 1
    CollectedBytes = 1
    ManagedIds = {1, 2}
    ManagedTypes <- TwoAccounts
    OperatorTokens = {"t1", "t1b", "t2", "t3"}
    TokenPerson <- PersonOfEach
    TokenOwner <- OwnerOfEach
    TokenAccount <- DerivedFromEach
    TokenEpochs = 2
    TornAccounts = 1
    RelayAccounts = {a1, a2}
    RelayShared = TRUE
    RelayTurns = 2
    RelayQueue = 1
    RelayResends = 1
    RelayConns = 2
    LaneResponses = {"x", "y"}
    LaneSteers = 1
    LaneTurns = 2
    LaneSockets = 2
    LaneControls = 1
    LaneReplacements = 1
    SessionAccounts = {"a1", "a2"}
    SessionRequests = {"r1", "r2"}
    SessionIds = {"s1"}
    AccountCapacity <- BothOrdinary
    AccountPriority <- BothFirst
    AccountQuota <- OneKnown
    PreferredAccounts = {"a1", "a2"}
    Strategies = {"most-remaining-quota", "deterministic-rotation"}
    Rotation = 2
    SessionCosts = {1}
    SessionLimit = 1
    PinLimit = 1
    PinTtl = 1
    SessionTime = 2
    SessionChanges = 1
    SpendingAttempts = {"x1", "x2", "x3"}
    AttemptCosts = {1, 2}
    SpendingCaps = {1}
    SettlementWindow = 2
    DayLength = 2
    Retention = 1
    SpendingTime = 2
    CapChanges = 2
    MaxDeliveries = 4
    LearningRequests = {"r1", "r2"}
    RejectedFields = {"f1"}
    PromotionCount = 2
    ObservationGap = 2
    FactTtl = 2
    ObservationLimit = 1
    LearningTime = 2
    LearningGenerations = 1
SYMMETRY Interchangeable
CHECK_DEADLOCK FALSE
INVARIANTS
    TypeOK
    EvidenceIsFenced
    NoLostRotation
    TurnsGiveBack
    RunningHasALane
    OneStory
    RoutesLeaveNothing
    PinsAreHonest
    SavedIsDurable
    SpentCoversTheWindow
    FactsAreEvidenced
    AliasesAreReversible
    BodiesAreAcceptable
PROPERTIES
    NoBlindReplay
