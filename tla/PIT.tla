--------------------------------- MODULE PIT ---------------------------------
(***************************************************************************)
(* Kernel/Interrupts/ProgrammableIntervalTimer.cpp.  set_frequency(t)      *)
(* rejects t > timer_frequency (hang), stores m_frequency = t and writes   *)
(* divisor = timer_frequency / t to the 16-bit reload register as two      *)
(* bytes.  on_irq counts interrupts in a static `tick` and, once           *)
(* tick / m_frequency is non-zero, counts a second of uptime and resets    *)
(* tick.  The channel fires one interrupt per reload input clocks, a       *)
(* reload of 0 meaning 65536.  `clocks` is the real time elapsed since     *)
(* boot in input clocks, which the model adds and the code never sees.     *)
(***************************************************************************)
EXTENDS Integers, Bitwise

CONSTANTS
    TimerFrequency,  \* timer_frequency: the PIT input clock in Hz
    Requests,        \* ticks_per_second values callers pass (all > 0)
    MaxIrqs          \* bound on interrupts per behaviour

ASSUME Requests \subseteq 1..(TimerFrequency + 1)

VARIABLES
    frequency,  \* m_frequency (0 before the first set_frequency)
    reload,     \* the value latched by the PIT's reload register
    tick,       \* on_irq's static tick
    seconds,    \* on_irq's static seconds_elapsed
    clocks,     \* input clocks elapsed since boot
    irqs,       \* interrupts so far (bounded by MaxIrqs)
    halted      \* set_frequency took the hang() branch

vars == <<frequency, reload, tick, seconds, clocks, irqs, halted>>

TypeOK ==
    /\ frequency \in Requests \cup {0}
    /\ reload \in 0..65535
    /\ tick \in Nat /\ seconds \in Nat /\ clocks \in Nat
    /\ irqs \in 0..MaxIrqs
    /\ halted \in BOOLEAN

(* The two out8 writes of set_frequency: divisor's low byte, then bits    *)
(* 8..15; everything above bit 15 is dropped.                              *)
ReloadOf(divisor) ==
    (divisor & 255) + 256 * shiftR(divisor & 65280, 8)

(* Input clocks between two interrupts for a reload value.                 *)
Period(r) == IF r = 0 THEN 65536 ELSE r

Init ==
    /\ frequency = 0 /\ reload = 0
    /\ tick = 0 /\ seconds = 0 /\ clocks = 0 /\ irqs = 0
    /\ halted = FALSE

(* Variant used to validate TypeOK: m_frequency is given the divisor.      *)
SetFrequencyStoringDivisor(t) ==
    /\ ~halted /\ frequency = 0
    /\ \/ /\ t > TimerFrequency
          /\ halted' = TRUE
          /\ UNCHANGED <<frequency, reload>>
       \/ /\ t <= TimerFrequency
          /\ frequency' = TimerFrequency \div t
          /\ reload' = ReloadOf(TimerFrequency \div t)
          /\ UNCHANGED halted
    /\ UNCHANGED <<tick, seconds, clocks, irqs>>

(* set_frequency(t).  Its only caller is the constructor (with           *)
(* default_ticks_per_second), so it runs once, before any interrupt.       *)
SetFrequency(t) ==
    /\ ~halted /\ frequency = 0
    /\ \/ /\ t > TimerFrequency
          /\ halted' = TRUE
          /\ UNCHANGED <<frequency, reload>>
       \/ /\ t <= TimerFrequency
          /\ frequency' = t
          /\ reload' = ReloadOf(TimerFrequency \div t)
          /\ UNCHANGED halted
    /\ UNCHANGED <<tick, seconds, clocks, irqs>>

(* Variant used to validate UptimeNotFast: tick is not reset after a       *)
(* second is counted.                                                      *)
OnIrqNoReset ==
    /\ ~halted /\ frequency # 0 /\ irqs < MaxIrqs
    /\ irqs' = irqs + 1
    /\ clocks' = clocks + Period(reload)
    /\ tick' = tick + 1
    /\ seconds' = IF (tick + 1) \div frequency # 0 THEN seconds + 1 ELSE seconds
    /\ UNCHANGED <<frequency, reload, halted>>

(* One timer interrupt, arriving a period after the previous one.          *)
OnIrq ==
    /\ ~halted /\ frequency # 0 /\ irqs < MaxIrqs
    /\ irqs' = irqs + 1
    /\ clocks' = clocks + Period(reload)
    /\ IF (tick + 1) \div frequency # 0
       THEN seconds' = seconds + 1 /\ tick' = 0
       ELSE seconds' = seconds /\ tick' = tick + 1
    /\ UNCHANGED <<frequency, reload, halted>>

Next == (\E t \in Requests : SetFrequency(t)) \/ OnIrq

(* hang() stops the core; MaxIrqs ends the others.                         *)
Spec == Init /\ [][Next]_vars

-----------------------------------------------------------------------------

(* The uptime on_irq reports never runs ahead of real time by more than    *)
(* 1%: seconds_elapsed seconds have really passed (up to rounding of the   *)
(* divisor) whatever frequency was requested.                              *)
UptimeNotFast ==
    seconds * TimerFrequency <= clocks + clocks \div 100

=============================================================================
