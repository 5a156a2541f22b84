\* Three payments of one address; the safe integers end at 2, so the third
\* reservation can find none left; another wallet sends once.
CONSTANTS
    Payments = {p1, p2, p3}
    Callers = {c1, c2}
    NoPayment = none
    MaxNonce = 2
    MaxOthers = 1
SPECIFICATION Spec
SYMMETRY Symmetry
INVARIANTS
    TypeOK
    NonceExclusive
    SignedNonceSticks
    RowsAgree
    NoSkippedNonce
PROPERTIES
    ImplementsRite
\* The calls all return and every payment is used.
CHECK_DEADLOCK FALSE
