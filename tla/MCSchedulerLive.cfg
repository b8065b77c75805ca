CONSTANTS
    c1 = c1
    c2 = c2
    i1 = i1
    i2 = i2
    Cpus = {c1}
    BSP = c1
    Workers = {w1, w2}
    IdleOf <- MCIdleOfOne
    MaxTime = 2
    NoCpu = NoCpu

SPECIFICATION FairSpec

PROPERTY ReadyEventuallyRuns
PROPERTY DeadCurrentEventuallyReplaced
