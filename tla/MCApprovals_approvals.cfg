SPECIFICATION LiveSpec
CONSTANTS
    Items = {i1, i2}
    NoItem = NoItem
    Deciders = {d1, d2}
    Providers = {slack}
    Kinds = {"urgent", "digest", "card"}
    MaxCrashes = 1
INVARIANT QueueAgrees
INVARIANT SentOnce
INVARIANT CardApproved
PROPERTY DraftsLive
PROPERTY OnlyApprovedSent
PROPERTY DigestArrives
