CONSTANTS
    Keys = {"k1", "k2", "k3", "k4"}
    Payloads = {"allow", "reject"}
    MaxRows = 4
    MaxEdits = 2
SPECIFICATION Spec
CHECK_DEADLOCK FALSE
INVARIANTS
    CheckedPrefixGenuine
PROPERTIES
    TamperingShows
