CONSTANTS
    root = root
    sub = sub
    top = top
    inner = inner
    k1 = k1
    k2 = k2
    k3 = k3
    s1 = s1
    s2 = s2
    Dirs <- mcDirs
    Root = root
    Labels <- mcLabels
    Chain <- mcChain
    NoFile = NoFile
    NoDir = NoDir
    Absent = Absent
    NoJob = NoJob
    Keys = {k1, k2}
    Files <- mcMixedManagedFiles
    Secrets = {s1}
    Managed = {k1, k2}
    Threads = {t1}
    Renames = {}
    MayFail = TRUE
    MayCrash = TRUE
    MaxLayers = 3
    bank = bank
    mail = mail
    PageLabels = {bank, mail}
    NoLabel = NoLabel
    TypedName = TypedName
    MaxSteps = 4
    url = url
    phone = phone
    v1 = v1
    v2 = v2
    FieldNames = {url, phone}
    Filled = {v1, v2}
    Empty = Empty
    Passkey = Passkey
    NoName = NoName
    Template <- mcTemplate
    Opened <- mcOpened
    MaxLines = 3
    MaxEdits = 2
SPECIFICATION AllSpec
INVARIANT
    TypesOK
    SavedScopeIsUnified
    TextsStayWithTheirEntry
    ALoadingEntryHasACarrier
SYMMETRY Interchangeable
CHECK_DEADLOCK FALSE
