CONSTANTS
    MaxOps = 3
    MaxBody = 2
    MaxResponseLines = 1
    Kinds = {"background", "cancel"}
    Modes = {"starttls"}
    Split = TRUE
    CancelWhen = {"inFlight"}
SPECIFICATION Spec
INVARIANTS
    ClientTypeOK
    ResponseMatches
    GuardStoppedOnce
