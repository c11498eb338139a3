CONSTANTS
    Keys = {"k1", "k2"}
    Payloads = {"allow", "reject"}
    MaxRows = 2
    MaxEdits = 1
SPECIFICATION Spec
CHECK_DEADLOCK FALSE
PROPERTIES
    DeletionShows
