SPECIFICATION FairSpec
CONSTANTS
    Pid = {p1, p2}
    p1 = p1
    p2 = p2
    None = None
    MaxJobs = 3
    MaxStages = 2
    Stops = 2

PROPERTY ForegroundReturns
