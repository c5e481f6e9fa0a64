CONSTANTS
    home = home
    work = work
    login = login
    mail = mail
    t1 = t1
    t2 = t2
    t3 = t3
    w1 = w1
    w2 = w2
    Stores = {home, work}
    Labels = {login, mail}
    Texts = {t1, t2, t3}
    Absent = Absent
    NoPlace = NoPlace
    Slots = {w1}
    Waits = TRUE
    MaxUndo = 2
    MaxOps = 4
    MaxFailures = 1
    plain = plain
    own = own
    other = other
    EntryLabels = {plain, own, other}
    Escaping = Escaping
    Shaped = {own, other}
    Root = Root
    Nested = Nested
    password = password
    passkey = passkey
    Damaged = Damaged
    NoFile = NoFile
    Dangling = Dangling
    Callers = {home, work}
    MaxCalls = 2
    MaxChanges = 1
SPECIFICATION AllSpec
INVARIANT NothingIsLost
INVARIANT UndoLeadsBack
SYMMETRY Symmetric
CHECK_DEADLOCK FALSE
