SPECIFICATION Spec
CONSTANTS
    CharBit = 2
    V4Bytes = 2
    V6Bytes = 2
    ShiftModulus = 16
    MaxEvents = 3
    SlashAlways = FALSE
    Settings <- MCSettings
    Versions <- MCVersions
    Data <- MCData
INVARIANTS
    EntriesFromOwnSection
    ConnectToHasAddress
    OptionsMatchVersion
    RoutesComplete
    RoutesOwned
    FiltersHold
    NoRouteLeft
CHECK_DEADLOCK FALSE
