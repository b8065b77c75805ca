\* set_frequency(18): the divisor 66287 does not fit in 16 bits.
CONSTANTS
    TimerFrequency = 1193182
    Requests <- MCRequestsLow
    MaxIrqs = 40
SPECIFICATION Spec
INVARIANT UptimeNotFast
CHECK_DEADLOCK FALSE
