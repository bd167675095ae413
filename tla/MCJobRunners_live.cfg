SPECIFICATION LiveSpec
CONSTANTS
    Rows = {r1, r2}
    Competitors = {c1}
    NoCompetitor = NoCompetitor
    Threads = {t1, t2}
    NoRow = NoRow
    Requesters = {q1}
    Asked = {"briefing"}
    MaxJobs = 1
    Redeliver = 1
    Timeout = 2
    Abandon = 3
    Modes = {"queue", "inline"}
    Events = {"worker", "web", "enqueue"}
    MaxEvents = 1
PROPERTY JobsEnd
