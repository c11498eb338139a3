CONSTANTS
    None = None
    Keys = {"k1", "blank"}
    BlankKeys = {"blank"}
    Aliases = {"paper"}
    Instruments = {"SPY"}
    Venues = {}
    TicksPerSecond = 2
    SCALE = 2
    RawMax = 10
    Profiles <- MCProfiles
    Intents <- MCIntents
    Bundles <- MCBundles
    Horizon = 6
SPECIFICATION Spec
CHECK_DEADLOCK FALSE
INVARIANTS
    OnlyPublicConfirmedIsLive
