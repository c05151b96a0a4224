CONSTANTS
    Bodies <- MCBodies
    TopBodies = {}
    MaxLen = 2
    MaxLines = 0
    MaxTop = 0
    MaxChunk = 2
    ReadErrors = TRUE
    WriteErrors = FALSE
SPECIFICATION Spec
INVARIANT EOFMeansWhole
