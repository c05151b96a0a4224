CONSTANTS
    Bodies <- MCBodies
    TopBodies <- MCTopBodies
    MaxLen = 5
    MaxLines = 4
    MaxTop = 2
    MaxChunk = 3
    ReadErrors = TRUE
    WriteErrors = TRUE
SPECIFICATION Spec
INVARIANTS
    TransferTypeOK
    BodyArrives
    TerminatorIsLast
    LinesIntact
    TopExact
