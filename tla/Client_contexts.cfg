CONSTANTS
    MaxOps = 2
    MaxBody = 1
    MaxResponseLines = 1
    Kinds = {"cancel", "deadline"}
    Modes = {"starttls"}
    Split = FALSE
    CancelWhen = {"inFlight", "completed"}
SPECIFICATION FairSpec
INVARIANT DeadlinesExplained
PROPERTIES
    ContextEnds
    GuardsEnd
