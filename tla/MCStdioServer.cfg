CONSTANTS
    None = None
    Keys = {"k1", "k2"}
    BlankKeys = {}
    Aliases = {"paper"}
    Instruments = {"SPY"}
    Venues = {"ARCX", "XXXX"}
    TicksPerSecond = 2
    SCALE = 2
    RawMax = 1000
    Mid <- MCMid
    HalfSpread = 1
    Profiles <- MCProfiles
    Servers = {s1}
    Intents <- MCIntents
    Bundles = {}
    Times = {1}
    AccountAlias = "paper"
    StartingCash = 20
    MaxStoreFailures = 1
    MaxListed = 2
    DefaultListed = 1
    DefaultScanned = 1
    Lines <- MCLines
    MaxLines = 3
    MaxUnread = 2
SPECIFICATION FairServerSpec
INVARIANTS
    OneAnswerPerRequest
    EveryAnswerRecorded
    ListingsAreRecent
    OpenOrdersAgree
    SnapshotFollowsAnswers
PROPERTIES
    NotificationsDoNothing
    BacklogIsServed
