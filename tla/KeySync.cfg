CONSTANTS
    k1 = k1
    k2 = k2
    o1 = o1
    left = left
    right = right
    thread = thread
    Keys = {k1, k2}
    Open = {o1}
    Windows = {left, right}
    Ui = thread
    MaxOps = 4
    MaxFailures = 1
    SessionKeyIds = {1}
    Prompts = {1}
    IdleTicks = 2
    MaxTicks = 3
    MaxKeyJobs = 3
    MaxRuns = 2
    MaxUpdateFaults = 1
    a = a
    b = b
    Writers = {1, 2}
    Contents = {a, b}
    Absent = Absent
    Torn = Torn
    MaxWrites = 3
    MaxFaults = 2
    Versions = {1, 2}
    MaxInstallSteps = 4
    MaxInstallFaults = 2
    card1 = card1
    Cards = {card1}
    CardWindows = {left, right}
    MaxCardUses = 2
    MaxCardFaults = 1
SPECIFICATION AllSpec
INVARIANTS
    TypesOK
    SharedKeysStay
    KeysSurvive
    SidesAgree
    UnlockedKeysAreStoredAndFresh
    PromptsAnswerOnce
    OnlyWholeFilesAreKept
    WhatIsBusyHasACarrier
PROPERTY
    ImplementsRegister
SYMMETRY Interchangeable
CHECK_DEADLOCK FALSE
