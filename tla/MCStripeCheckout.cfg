\* Two intents, two sessions that name either, two creates at once.
CONSTANTS
    Intents = {i1, i2}
    Sessions = {s1, s2}
    Callers = {c1, c2}
    None = none
SPECIFICATION Spec
SYMMETRY Symmetry
INVARIANTS
    TypeOK
    SubmittedOnce
    AppliedIsBound
    StatusFollowsInbox
    BoundPaymentCounts
PROPERTIES
    ForwardOnly
\* The calls all return and every event has arrived.
CHECK_DEADLOCK FALSE
