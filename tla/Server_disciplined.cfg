SPECIFICATION FairSpec
CONSTANTS
    Listeners = {l1}
    Closers = {k1, k2}
    Conns = {c1, c2}
    Nil = Nil
    Disciplined = TRUE
INVARIANTS
    ServerTypeOK
    CloseWaitsForRunning
PROPERTIES
    NoAcceptAfterClose
    CloseEndsServe
    CloseTerminates
