SPECIFICATION LiveSpec
CONSTANTS
    Surfaces = {s1}
    Raw <- MCRaw
    Histories <- MCHistories
    Callers = {c1, c2}
    MaxTokens = 1
    Usage = {1}
    Caps = {1}
    NoCap = NoCap
    None = None
    MaxEdits = 1
    MaxLogged = 1
    MaxCrashes = 1
INVARIANT LogsTellAll
INVARIANT Overshoot
PROPERTY BudgetSpec
PROPERTY CaughtUp
