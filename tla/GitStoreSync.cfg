CONSTANTS
    shared = shared
    theirs = theirs
    none = none
    one = one
    two = two
    Files <- Shared
    Versions <- TwoContents
    Absent = none
    LocalFiles <- OnlyShared
    ForeignFiles <- Shared
    RemoteCount = 2
    Workers = {w1}
    Starts = {0, 1}
    MaxSaves = 1
    MaxForeign = 2
    MaxSyncs = 2
    MaxFailures = 1
    Branches = {1}
    PageSize = 2
    MaxCommits = 4
    MaxCatalogLoads = 2
    MaxPageLoads = 4
    Entries = {1, 2}
    MaxLoads = 2
    MaxQueries = 2
    MaxChanges = 1
    MaxListFaults = 1
    ToolEntries = {1}
    MaxMoves = 6
    MaxReloads = 2
    MaxLocked = 2
    Windows = {1, 2}
    Bases = {1, 2}
    Urls = {1, 2}
    MaxClicks = 3
    MaxGitErrors = 2
    MaxOutside = 1
    QueryWords <- mcQueryWords
    MaxWords = 5
    Places <- mcPlaces
    ResultLimit = 1
    MaxLaunches = 2
    MaxSwaps = 1
    MaxEdits = 2
    MaxPieces = 2
SPECIFICATION SearchSpec
INVARIANT TypesOK
INVARIANT SyncedIsPublished
INVARIANT NoMergeIsLeftBehind
INVARIANT PagesShowTheNewest
INVARIANT FieldSearchSeesEveryRow
INVARIANT PartsKeepTheirWord
INVARIANT RemotesFollowTheDialogs
INVARIANT EveryWaitHasAWorker
PROPERTY ImplementsHistory
SYMMETRY Contents
CHECK_DEADLOCK FALSE
