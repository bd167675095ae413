SPECIFICATION LiveSpec
CONSTANTS
    Surfaces = {s1}
    NoSurface = NoSurface
    Threads = {t1}
    NoRun = NoRun
    Requesters = {q1}
    MaxRuns = 2
    MaxSweeps = 1
    MaxJobs = 2
    Redeliver = 1
    Stale = 2
    Abandon = 3
    Stuck = 4
    SweepMax = 5
    WaitBound = 9
    CheckBound = 9
    Events = {"redis", "enqueue", "web", "delete"}
    MaxEvents = 1
PROPERTY SweepsClose
PROPERTY RunsEnd
