CONSTANTS
    Stores = {home, work}
    Labels = {login}
    Texts = {t1}
    Absent = Absent
    NoPlace = NoPlace
    Slots = {w1, w2}
    Waits = FALSE
    MaxUndo = 2
    MaxOps = 2
    MaxFailures = 0
SPECIFICATION Spec
INVARIANT EntriesSurvive
CHECK_DEADLOCK FALSE
