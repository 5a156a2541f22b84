\* No rows by hand: what the connector's comment says, with
\* no payment of our own and a fetch of one transaction.
CONSTANTS
    Txs = {t1, t2}
    Own = {}
    Calls = {c1}
    ManualDates = {}
    Overlap = 1
    Lookback = 2
    MaxLag = 1
    Ceiling = 1
    MaxClock = 4
SPECIFICATION Spec
INVARIANTS
    CeilingIsSafe
CHECK_DEADLOCK FALSE
