CONSTANTS
    Stores = {home}
    Scopes = {root}
    Root = root
    Settings = {none, alice, bob}
    Keyless = {none}
    Blank = none
    NoFile = absent
    Known = {}
    Slots = {1, 2}
    MaxOpens = 1
    MaxEdits = 0
    MaxReloads = 0
    MaxFailures = 0
    MaxDeaths = 0
SPECIFICATION Spec
INVARIANT OpenedPageShowsTheStore
CHECK_DEADLOCK FALSE
