CONSTANTS
    None = None
    Keys = {"k1"}
    BlankKeys = {}
    Aliases = {"paper", "other"}
    Instruments = {"SPY"}
    Venues = {"ARCX", "XXXX"}
    TicksPerSecond = 2
    SCALE = 2
    RawMax = 1000
    Mid <- MCMid
    HalfSpread = 1
    Profiles <- MCProfiles
    Servers = {s1, s2}
    Intents <- FailureIntents
    Bundles = {}
    Times = {1}
    AccountAlias = "paper"
    StartingCash = 20
    MaxStoreFailures = 1
SPECIFICATION FairSpec
INVARIANTS
    RepliesMatchRecord
    ReservationReleased
PROPERTIES
    CallDecides
    EveryCallEnds
