\* Two payments compete for two coins; three confirmations run at once.
CONSTANTS
    Payments = {p1, p2}
    Coins = {k1, k2}
    Callers = {c1, c2, c3}
    NoPayment = none
    QuoteTTL = 1
    MaxInputs = 2
    MaxClock = 3
SPECIFICATION Spec
SYMMETRY Symmetry
INVARIANTS
    TypeOK
    NoDoubleSpend
    PostedOnce
    SentIsReconcilable
    SerialQuotesDisjoint
PROPERTIES
    ImplementsRite
\* The calls all return, the clock stops at its bound, and every payment is used.
CHECK_DEADLOCK FALSE
