SPECIFICATION FairSpec
CONSTANTS
    Listeners = {l1, l2}
    Closers = {k1}
    Conns = {c1}
    Nil = Nil
    Disciplined = TRUE
PROPERTY
    CloseEndsServe
