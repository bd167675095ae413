SPECIFICATION Spec
CONSTANTS
    Pages <- MCPages
    Page <- MCPage
    Length <- MCLength
    Tokens <- MCTokens
    Phrases <- MCPhrases
    Cap = 2
    Caps <- MCCaps
    OwnPages = {o1, o2}
    Requests = {r1, r2}
    Discoveries = {d1, d2}
    Listings <- MCListings
    NoPage = NoPage
    Revisions = {25, 28}
    MaxEdits = 3
SYMMETRY Alike
INVARIANT CapKept
INVARIANT ChoiceIsBest
INVARIANT ActiveHasJob
PROPERTY UpgradeIsBest
