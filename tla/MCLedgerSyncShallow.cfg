\* No rows by hand: what the connector's comment says, with
\* one payment of our own beside one rail transaction.
CONSTANTS
    Txs = {t1, t2}
    Own = {t2}
    Calls = {c1}
    ManualDates = {}
    Overlap = 1
    Lookback = 2
    MaxLag = 1
    Ceiling = 2
    MaxClock = 4
SPECIFICATION Spec
INVARIANTS
    SkippedImportsLater
CHECK_DEADLOCK FALSE
