CONSTANTS
    Files = {mine, theirs}
    Versions = {none, one}
    Absent = none
    LocalFiles = {mine}
    ForeignFiles = {theirs}
    RemoteCount = 1
    Workers = {w1}
    Starts = {1}
    MaxSaves = 1
    MaxForeign = 1
    MaxSyncs = 1
    MaxFailures = 0
SPECIFICATION Spec
INVARIANT MergedChangesStay
CHECK_DEADLOCK FALSE
