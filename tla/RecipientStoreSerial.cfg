CONSTANTS
    root = root
    sub = sub
    top = top
    inner = inner
    k1 = k1
    k2 = k2
    k3 = k3
    s1 = s1
    s2 = s2
    Dirs <- mcDirs
    Root = root
    Labels <- mcLabels
    Chain <- mcChain
    NoFile = NoFile
    NoDir = NoDir
    Absent = Absent
    NoJob = NoJob
    Keys = {k1, k2, k3}
    Files <- mcMixedFiles
    Secrets = {s1, s2}
    Managed = {k1, k2}
    Threads = {t1}
    Renames = {}
    MayFail = FALSE
    MayCrash = FALSE
    MaxLayers = 2
    AuditKeys = {k1, k2}
    UserId = UserId
    Trees <- mcTrees
    Signatures <- mcSignatures
    MaxLog = 2
SPECIFICATION AllSpec
INVARIANTS
    EntriesMatchRecipients
    QuietReadsReturnTheSecret
    VerdictsFollowTheRecipients
PROPERTY
    ImplementsVault
    JobsEnd
CHECK_DEADLOCK FALSE
