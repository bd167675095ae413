SPECIFICATION Spec
CONSTANTS
    Callers = {c1, c2}
    Limit = 2
    Window = 2
    MaxWait = 1
    MaxTime = 4
    None = None
    Jobs = {j1, j2}
    MaxPages = 2
    MaxFails = 1
CONSTRAINT ClockOrJobs
CHECK_DEADLOCK FALSE
INVARIANT CountIsPollers
INVARIANT NoneForgotten
INVARIANT OnlyLateOutlive
INVARIANT AtTheLimit
PROPERTY PollersEnd
