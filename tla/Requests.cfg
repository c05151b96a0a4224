CONSTANTS
    Inputs <- MCInputs
    Args <- MCArgs
    Identities <- MCIdentities
    Usernames <- MCUsernames
    Passwords <- MCPasswords
    MaxLen = 7
    BufSize = 3
    MaxLineLength = 4
    Interruptions = TRUE
    MaxArg = 4
    MaxVal = 127
    MaxInt = 32767
    MaxName = 2
    MaxPassword = 3
    MaxWrapped = 3
    InsecureAuths = {TRUE, FALSE}
    TLSConfigs = {TRUE, FALSE}
    Exts = {{}, {"SASL"}, {"LANG", "UTF8"}, {"SASL", "LANG", "UTF8"}}
    Mechanisms = {{}, {"PLAIN"}, {"PLAIN", "OTHER"}}
    Suppressions = {{}, {"UTF8", "LANG"}, {"SASL", "CUSTOM"}}
SPECIFICATION MCSpec
INVARIANTS
    LineReaderTypeOK
    LinesExact
    ParseExact
    CredentialsArrive
    InternalTextStaysInside
    InvitesOnlyWhereAllowed
PROPERTY PromiseKept
