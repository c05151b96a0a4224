CONSTANTS
    MaxOps = 2
    MaxBody = 1
    MaxResponseLines = 1
    Kinds = {"background", "deadline"}
    Modes = {"plain"}
    Split = FALSE
    CancelWhen = {}
SPECIFICATION Spec
INVARIANT NoStaleDeadline
