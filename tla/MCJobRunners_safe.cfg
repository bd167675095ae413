SPECIFICATION Spec
CONSTANTS
    Rows = {r1, r2}
    Competitors = {c1}
    NoCompetitor = NoCompetitor
    Threads = {t1, t2, t3}
    NoRow = NoRow
    Requesters = {q1, q2}
    Asked = {"briefing", "battlecard", "discovery", "summary"}
    MaxJobs = 1
    Redeliver = 1
    Timeout = 2
    Abandon = 3
    Modes = {"queue", "inline"}
    Events = {"redis", "worker", "web", "enqueue", "delete"}
    MaxEvents = 1
SYMMETRY Symmetry
INVARIANT DraftedOnce
INVARIANT WorkedAlone
PROPERTY VerdictStands
PROPERTY DraftNotDisowned
