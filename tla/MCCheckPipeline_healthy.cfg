SPECIFICATION Spec
CONSTANTS
    Surfaces = {s1, s2}
    NoSurface = NoSurface
    Threads = {t1, t2}
    NoRun = NoRun
    Requesters = {q1}
    MaxRuns = 4
    MaxSweeps = 2
    MaxJobs = 2
    Redeliver = 1
    Stale = 2
    Abandon = 3
    Stuck = 4
    SweepMax = 5
    WaitBound = 1
    CheckBound = 1
    Events = {}
    MaxEvents = 0
SYMMETRY Symmetry
INVARIANT CountersExact
INVARIANT ClosedByLastCheck
PROPERTY TerminalIsFinal
