\* The input clock of the 8254 PIT (timer_frequency), requests the divisor
\* can represent, and enough interrupts for a few seconds at 19 Hz and one
\* at 100 Hz.  hang() and the interrupt bound end a behaviour.
CONSTANTS
    TimerFrequency = 1193182
    Requests <- MCRequestsValid
    MaxIrqs = 120
SPECIFICATION Spec
INVARIANT TypeOK UptimeNotFast
CHECK_DEADLOCK FALSE
