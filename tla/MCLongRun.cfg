CONSTANTS
    None = None
    Keys = {}
    BlankKeys = {}
    Aliases = {}
    Instruments = {"SPY"}
    Venues = {}
    TicksPerSecond = 1
    SCALE = 10
    SCALE_EXP = 1
    RawMax = 1999
    HoursPerDay = 2
    MinutesPerHour = 3
    SecondsPerMinute = 2
    FracDigits = 2
    NanosPerSecond = 100
    MaxYear = 9999
    Spans <- MCSpans
    StartingUnits = 50
    Quantities <- MCQuantities
    Prices <- MCPrices
    TradingDays <- MCTradingDays
    MaxFills = 3
SPECIFICATION Spec
CHECK_DEADLOCK FALSE
INVARIANTS
    DateAgrees
    InstantReadsBack
    OnlyRealDates
    DecimalTextExact
    AverageWithinFills
PROPERTIES
    OverflowDropsWholeFills
    AverageKeepsSign
