CONSTANTS
    c1 = c1
    c2 = c2
    i1 = i1
    i2 = i2
    Cpus = {c1, c2}
    BSP = c1
    Workers = {w1, w2, w3}
    IdleOf <- MCIdleOf
    MaxTime = 3
    NoCpu = NoCpu

SPECIFICATION Spec
SYMMETRY MCWorkerSymmetry

INVARIANT TypeOK
INVARIANT ThreadOnOneCore
INVARIANT RunningMatchesCurrent
INVARIANT SchedulerQueuesExact
INVARIANT NoUseAfterFree
INVARIANT DelayedDeadHeld
PROPERTY SleepersWakeOnTime
PROPERTY ThreadStatesRefinement
