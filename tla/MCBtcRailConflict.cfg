\* The comment over reservedOutpoints says which rows turn a payment away.
CONSTANTS
    Payments = {p1, p2}
    Coins = {k1}
    Callers = {c1, c2}
    NoPayment = none
    QuoteTTL = 1
    MaxInputs = 1
    MaxClock = 1
SPECIFICATION Spec
PROPERTIES
    OnlySignedRowsConflict
CHECK_DEADLOCK FALSE
