SPECIFICATION FairSpec
CONSTANTS
    Pid = {p1, p2, p3}
    p1 = p1
    p2 = p2
    p3 = p3
    None = None
    MaxJobs = 3
    MaxStages = 2
    Stops = 1
INVARIANTS JobTableSound AllReaped SuspendedIsStopped EvalWaitArmed
PROPERTY CommandReturns
