SPECIFICATION Spec
CONSTANTS
    a = a  b = b
    File = {a, b}
    Listings <- MCListings
    Selections <- MCSelections
    ScanModes = {"files", "photos"}
    HistoryLoads <- MCHistoryLoads
    PageSize = 2
    MaxPage = 2
    MaxScans = 2
    OptionModes = {"files", "photos"}
    FirstMode = "files"
    MaxWrites = 3
    FilePath <- MCFilePath
    LinkTo <- MCLinkTo
    Plans <- MCPlans
    MaxPlans = 3
    MaxGone = 1
    MaxTorn = 1
    MaxTokens = 2
    ScanId = {"s1"}
    SessionFile = {"a", "b"}
    MaxOps = 5
    MaxFaults = 2
    Sheets <- MCSheets
    MaxGid = 3
    Markable = {"a", "d"}
    Threshold = 1
    FirstRows = 1
    PerTick = 1
    MaxHandlers = 3
    Worker = {w1, w2}
    Fetch = {f1, f2}
    MaxChanges = 2
    MaxErrors = 1
    Views = {"browse", "inspect"}
    Wanted <- MCWanted
    Readable = {"c"}
    Task = {t1, t2}
    MaxEntries = 1
    MaxLoads = 3
    MaxMissed = 1
    Under <- MCUnder
    FolderOf <- MCFolderOf
    Chosen <- MCChosen
    Protected = {"d"}
    Contents <- MCContents
    Radius = 1
    Tolerance = 1
    MinBurst = 2
    MinFiles = 1
    FoundPath <- MCFoundPath
    ResolvesTo <- MCResolvesTo
    Fenced = {"link"}
    Blobs <- MCBlobs
    OptionSets <- MCOptionSets
    SparsePercent = 60
    EscalateOver = 5
    PrefixSize = 1
    MaxMishaps = 1
INVARIANTS
    StoreConsistent
    RailAgrees
    PagesCurrent
    SettingsKept
    DeletionsGuarded
    AuditTells
    LocksHold
    ScreensCurrent
    ThumbsShown
    GroupsAsCompared
    FunnelExact
PROPERTIES
    StatsSettle
CHECK_DEADLOCK FALSE
