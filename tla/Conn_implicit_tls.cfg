SPECIFICATION FairSpec
CONSTANTS
    UserOptions <- TimedOptions
    Panics = FALSE
    MaxInFlight = 1
    ErrorBound = 1
PROPERTIES
    NoConnHeldForEver
