CONSTANTS
    NoRecord <- Null
    Public = public
    MaxLifetime <- MCLifetimeBound
    MaxRecordBytes = 2
    MaxSatoshis = 1000
    MaxFeeSatoshis = 10
    MaxNoteBytes = 2
    MaxLinkBytes = 3
    MaxReplyBytes = 5
    Nodes = {"shop", "buyer"}
    m1 = m1
    m2 = m2
    p1 = p1
    p2 = p2
    Callers = {m1, m2, p1, p2}
    Home <- MCHome
    Work <- MCWork
    Lifetime <- MCLifetime
    RoleChoices = {{"payer"}}
    Notes = {1}
    Destinations <- MCDestinations
    Amounts = {294}
    SourceAccounts <- MCSourceAccounts
    Fees = {0, 10}
    Budget <- MCBudget
    MaxSigned <- MCSigned
    MaxTime = 2
SPECIFICATION ExchangeSpec
SYMMETRY Same
INVARIANTS RepliesImport OneAnswer StrandedOnlyByExpiry
CHECK_DEADLOCK FALSE
