SPECIFICATION Spec
CONSTANTS
    Sitemaps <- MCSitemaps
    Tier <- MCTier
    Conventional <- MCConventional
    Urls <- MCUrls
    Url <- MCUrl
    Home = "/"
    None = None
    Malformed = Malformed
    Sites <- MCSites
    MaxFetches = 6
    MaxUrls = 9
    MaxDiscovered = 5
CHECK_DEADLOCK FALSE
INVARIANT WalkIsComplete
INVARIANT NoneIsCrowdedOut
INVARIANT OneEach
PROPERTY WalkEnds
