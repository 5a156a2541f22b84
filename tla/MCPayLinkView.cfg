CONSTANTS
    None = None
    Intents = {i1, i2}
    MaxLeaves = 1
SPECIFICATION Spec
INVARIANT UnresolvedStaysMarked
PROPERTY OutcomeIsShown
