SPECIFICATION Spec
CONSTANTS
    Surfaces = {s1}
    NoSurface = NoSurface
    Threads = {t1, t2}
    NoRun = NoRun
    Requesters = {q1, q2}
    MaxRuns = 2
    MaxSweeps = 1
    MaxJobs = 2
    Redeliver = 1
    Stale = 2
    Abandon = 3
    Stuck = 4
    SweepMax = 5
    WaitBound = 9
    CheckBound = 9
    Events = {"worker", "web", "enqueue", "delete"}
    MaxEvents = 1
SYMMETRY Symmetry
INVARIANT ExecutedOnce
INVARIANT NotStacked
INVARIANT CheckedApart
PROPERTY RefusedByFreshRun
