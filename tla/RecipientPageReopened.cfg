CONSTANTS
    Stores = {home}
    Scopes = {root, team}
    Root = root
    Settings = {none, alice, bob}
    Keyless = {none}
    Blank = none
    NoFile = absent
    Known = {}
    Slots = {1, 2}
    MaxOpens = 2
    MaxEdits = 2
    MaxReloads = 1
    MaxFailures = 1
    MaxDeaths = 0
SPECIFICATION Spec
INVARIANT SavesStayInTheirPlace
INVARIANT EveryWaitHasACarrier
CHECK_DEADLOCK FALSE
