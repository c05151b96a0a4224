CONSTANTS
    Users = {u1, u2}
    Passwords = {p}
    Sessions = {s1, s2}
    NoAccount = NoAccount
    MaxMessages = 3
SPECIFICATION Spec
INVARIANTS
    MaildropTypeOK
    Accounted
    NumbersKeepMeaning
PROPERTY ImplementsMailbox
SYMMETRY Symmetry
