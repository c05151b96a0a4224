SPECIFICATION FairSpec
CONSTANTS
    UserOptions <- AllOptions
    Panics = TRUE
    MaxInFlight = 2
    ErrorBound = 2
INVARIANTS
    TypeOK
    OneResponsePerCommand
    FlushedBeforeBlocking
    MaxErrorsEnforced
    NoPlaintextUnderTLS
    CredentialsProtected
    ConnReleased
    LoopTimeoutReported
PROPERTIES
    UpgradeLosesNothing
    HijackHandsOver
    ImplementsSessionContract
    AbandonedConnEnds
    AbsoluteTimeoutEnds
