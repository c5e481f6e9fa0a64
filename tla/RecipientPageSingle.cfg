CONSTANTS
    Stores = {home}
    Scopes = {root}
    Root = root
    Settings = {none, alice, bob}
    Keyless = {none}
    Blank = none
    NoFile = absent
    Known = {home}
    Slots = {1, 2}
    MaxOpens = 1
    MaxEdits = 3
    MaxReloads = 1
    MaxFailures = 2
    MaxDeaths = 1
SPECIFICATION FairSpec
INVARIANT CleanPageShowsTheStore
PROPERTY EditsAreSaved
PROPERTY LoadingEnds
CHECK_DEADLOCK FALSE
