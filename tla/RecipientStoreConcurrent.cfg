CONSTANTS
    root = root
    sub = sub
    top = top
    inner = inner
    k1 = k1
    k2 = k2
    k3 = k3
    s1 = s1
    s2 = s2
    Dirs <- mcDirs
    Root = root
    Labels <- mcLabels
    Chain <- mcChain
    NoFile = NoFile
    NoDir = NoDir
    Absent = Absent
    NoJob = NoJob
    Keys = {k1, k2}
    Files <- mcSharedFiles
    Secrets = {s1}
    Managed = {k1, k2}
    Threads = {t1, t2}
    Renames <- mcRenames
    MayFail = TRUE
    MayCrash = TRUE
    MaxLayers = 2
    WindowPageNames = {"root", "entry", "raw", "settings", "tools", "docs", "document", "values", "exact", "weak", "audit", "import", "makeKey", "recipients", "storeGit", "log", "busy"}
    MaxDepth = 4
    MaxOperations = 2
    PipeSize = 1
    MaxBytes = 2
    StoreWindows = {1, 2}
    Stores = {1, 2}
    MaxPicks = 3
    MaxImports = 1
    MaxFolderChanges = 1
    p1 = p1
    p2 = p2
    uid = uid
    RowKeys = {p1, p2}
    Protected = {p1}
    UserIds = {uid}
    IdsOf <- mcIdsOf
    Strangers = {}
    MaxClicks = 2
    MaxEvents = 1
    SettingsWindows = {1, 2}
    MaxSettingClicks = 3
    MaxSettingFaults = 1
SPECIFICATION AllSpec
INVARIANT
    CommonKeyOpens
    WhatIsShownIsCurrent
    ABusyWindowIsWorking
    ChoicesAreKept
    CommandsEndWell
PROPERTY FinishKeepsThePage
