\* Two quotes compete for one intent, whose window ends before, with or after
\* theirs; three prepare and confirm calls run at once.
CONSTANTS
    Intents = {i1}
    Payments = {p1, p2}
    Callers = {c1, c2, c3}
    None = none
    QuoteTTL = 2
    MaxClock = 3
SPECIFICATION Spec
SYMMETRY Symmetry
INVARIANTS
    TypeOK
    OnePaymentPerIntent
    OneCommitmentPerIntent
    OutcomeIsRecoverable
    AnswersHold
PROPERTIES
    ImplementsConsent
\* Every call returns, the clock stops at its bound, and every payment is used.
CHECK_DEADLOCK FALSE
