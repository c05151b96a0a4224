SPECIFICATION Spec
CONSTANTS
    UserOptions <- AllOptions
    Panics = FALSE
    MaxInFlight = 1
    ErrorBound = 1
INVARIANTS
    TimeoutReported
