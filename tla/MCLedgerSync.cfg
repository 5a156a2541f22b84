\* A rail transaction and one of our own, two sync calls at once; a fetch holds
\* one transaction, and the user may date one row in the future.
CONSTANTS
    Txs = {t1, t2}
    Own = {t2}
    Calls = {c1, c2}
    ManualDates = {3}
    Overlap = 1
    Lookback = 2
    MaxLag = 1
    Ceiling = 1
    MaxClock = 3
SPECIFICATION Spec
SYMMETRY Symmetry
INVARIANTS
    TypeOK
    LostOnlyForReason
\* The clock stops at its bound.
CHECK_DEADLOCK FALSE
