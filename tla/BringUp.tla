------------------------------- MODULE BringUp -------------------------------
(***************************************************************************)
(* Multiprocessor bring-up: CPU::start_all_processors and                  *)
(* LAPIC::start_processor on the bootstrap core (BSP), the AP trampoline   *)
(* (APTrampoline.asm, not in the snapshot: spec section 4.5) and           *)
(* CPU::ap_entrypoint on each application processor (AP).                 *)
(*                                                                         *)
(* The BSP appends every AP's CPU::LocalData record first, then starts the *)
(* APs one at a time: it resets the low-memory mailbox (alive,             *)
(* acknowledged, initial stack), takes the PIT timer lock, sends INIT and  *)
(* a STARTUP IPI, checks "alive" after 1 ms, else sends a second STARTUP   *)
(* and checks again after 1 s (hang() on failure).  On success it sets     *)
(* "acknowledged", drops the timer lock and spins until the AP's record is *)
(* online.  The AP, once acknowledged, calibrates its LAPIC timer (taking  *)
(* the same timer lock), creates its idle process, brings its record       *)
(* online and enables interrupts.  A delay is a step the AP may or may not *)
(* have overtaken: a slow or dead AP is one whose step comes too late.     *)
(***************************************************************************)
EXTENDS Integers, Sequences, FiniteSets, SequencesExt, GDT, LAPIC

CONSTANTS
    ApIds,      \* InterruptController::smp_data().application_processor_apic_ids
    BspId,      \* the BSP's LAPIC id
    NoCpu,      \* model value: the timer lock is free / mailbox unused
    MaxTicks,   \* bound on LAPIC timer interrupts taken by each AP
    KernelUnits,\* pages managed by AddressSpace::of_kernel().allocator()
    StackUnits  \* Process::default_kernel_stack_size, in pages

Aps == ToSet(ApIds)
ASSUME /\ Len(ApIds) = Cardinality(Aps) /\ NoCpu \notin Aps
       /\ Aps \cup {BspId} \subseteq 0..127 /\ BspId \notin Aps
       /\ StackUnits \in 1..(KernelUnits - 1)

(* BSP program points in start_all_processors / start_processor.          *)
BspPoints == {"append", "prepare", "init", "sipi1", "check1", "sipi2",
              "check2", "wait_online", "timer", "done", "hung"}
(* AP program points: reset, waiting for SIPI after INIT, trampoline       *)
(* started, spinning on "acknowledged", in ap_entrypoint, in the idle loop *)
(* with interrupts enabled; "panic" is runtime::panic or a failed ASSERT. *)
ApPoints == {"halted", "wait_sipi", "started", "spin_ack", "entry", "lgdt",
             "gdt_restore", "calibrate", "current", "bring_online", "enable",
             "idle", "panic"}

VARIABLES
    registry,    \* ids with a CPU::LocalData record in s_processors (APs)
    bspPc,       \* BSP program point
    idx,         \* index in ApIds of the AP being started
    alive,       \* mailbox: is_ap_alive (0x500)
    acked,       \* mailbox: ap_acknowledged (0x510)
    mailboxFor,  \* the AP the mailbox stack (0x520) was allocated for
    timerLock,   \* holder of ::kernel::Timer::the() lock: a core id (BspId or an AP) or NoCpu
    sipis,       \* STARTUP IPIs sent to each AP
    apPc,        \* per AP program point
    apStack,     \* per AP: the mailbox stack it took in the trampoline
    online,      \* per AP: LocalData::m_is_online
    bspTimer,    \* the LAPIC timer made primary and enabled on the BSP
    idleTask,    \* per AP: the record's idle task / current thread is set
    intsOn,      \* per AP: interrupts enabled (IF)
    ticks,       \* per AP: LAPIC timer interrupts handled
    gdt,         \* GDT::s_instance: [active, size, hung] (module GDT)
    gdtr,        \* per AP: the GDTR limit its lgdt loaded, -1 before
    mailboxStack,\* mailbox: the AP stack range published at 0x520
    kFree,       \* kernel allocator: m_free_ranges (module VirtualAllocator)
    kAllocated,  \* kernel allocator: m_allocated_ranges
    kOwned,      \* kernel allocator: ranges its callers hold
    kStatus      \* kernel allocator: "ok" or the error it hung on

(* The kernel address space's range allocator, from which start_processor *)
(* takes each AP's initial stack.                                          *)
Kernel == INSTANCE VirtualAllocator
            WITH Base <- 0, Size <- KernelUnits, MaxRequest <- StackUnits,
                 freeRanges <- kFree, allocatedRanges <- kAllocated,
                 owned <- kOwned, status <- kStatus
kernelVars == <<kFree, kAllocated, kOwned, kStatus>>
NoStack == Kernel!MkRange(0, 0)

(* The state only ap_entrypoint and the AP's interrupts change.           *)
apLocal == <<idleTask, intsOn, ticks, gdt, gdtr>>
vars == <<registry, bspPc, idx, alive, acked, mailboxFor, timerLock, sipis,
          apPc, apStack, online, bspTimer, idleTask, intsOn, ticks, gdt, gdtr,
          mailboxStack, kernelVars>>

TypeOK ==
    /\ registry \subseteq Aps
    /\ bspPc \in BspPoints
    /\ idx \in 1..Len(ApIds)
    /\ alive \in BOOLEAN /\ acked \in BOOLEAN
    /\ mailboxFor \in Aps \cup {NoCpu}
    /\ timerLock \in Aps \cup {BspId, NoCpu}
    /\ sipis \in [Aps -> 0..2]
    /\ apPc \in [Aps -> ApPoints]
    /\ apStack \in [Aps -> Kernel!Ranges]
    /\ mailboxStack \in Kernel!Ranges
    /\ Kernel!TypeOK
    /\ online \in [Aps -> BOOLEAN]
    /\ bspTimer \in BOOLEAN
    /\ idleTask \in [Aps -> BOOLEAN] /\ intsOn \in [Aps -> BOOLEAN]
    /\ ticks \in [Aps -> 0..MaxTicks]
    /\ gdt \in [active : 0..EntryCount, size : 0..(EntryCount * EntrySize),
               hung : BOOLEAN]
    /\ gdtr \in [Aps -> -1..LimitFor(EntryCount)]

Target == ApIds[idx]

(* LAPIC::set_base_address (32-bit): the kernel allocator's first range   *)
(* is the page the local APIC registers are mapped at.                     *)
KernelAfterSetBase ==
    /\ kFree = <<Kernel!MkRange(1, KernelUnits - 1)>>
    /\ kAllocated = <<Kernel!MkRange(0, 1)>>
    /\ kOwned = {Kernel!MkRange(0, 1)}
    /\ kStatus = "ok"

(* CPU::initialize has registered the BSP; the APs are in reset.  The BSP *)
(* has created the basic descriptors and installed the GDT (its install    *)
(* has restored m_pointer.size).                                           *)
Init ==
    /\ registry = {}
    /\ bspPc = "append"
    /\ idx = 1
    /\ alive = FALSE /\ acked = FALSE
    /\ mailboxFor = NoCpu
    /\ timerLock = NoCpu
    /\ sipis = [a \in Aps |-> 0]
    /\ apPc = [a \in Aps |-> "halted"]
    /\ apStack = [a \in Aps |-> NoStack]
    /\ online = [a \in Aps |-> FALSE]
    /\ bspTimer = FALSE
    /\ idleTask = [a \in Aps |-> FALSE] /\ intsOn = [a \in Aps |-> FALSE]
    /\ ticks = [a \in Aps |-> 0]
    /\ gdt = CreateBasicDescriptors(GdtInit)
    /\ gdtr = [a \in Aps |-> -1]
    /\ mailboxStack = NoStack
    /\ KernelAfterSetBase

Goto(p) == bspPc' = p

-----------------------------------------------------------------------------
(* BSP steps.                                                              *)

(* Variant used to validate NoApPanics: records are not appended     *)
(* before the APs are started.                                             *)
AppendRecordsSkipped ==
    /\ bspPc = "append"
    /\ Goto("prepare")
    /\ UNCHANGED <<registry, idx, alive, acked, mailboxFor, timerLock, sipis,
                   apPc, apStack, online, bspTimer>>
    /\ UNCHANGED apLocal
    /\ UNCHANGED <<mailboxStack, kernelVars>>

(* start_all_processors: append every AP's record up front, so no AP can  *)
(* look itself up before its record exists.                                *)
AppendRecords ==
    /\ bspPc = "append"
    /\ registry' = Aps
    /\ Goto("prepare")
    /\ UNCHANGED <<idx, alive, acked, mailboxFor, timerLock, sipis, apPc,
                   apStack, online, bspTimer>>
    /\ UNCHANGED apLocal
    /\ UNCHANGED <<mailboxStack, kernelVars>>

(* start_processor up to the INIT: reset alive/acknowledged, allocate the *)
(* AP stack from the kernel allocator (which hangs when out of ranges) and *)
(* publish it, relocate the trampoline, take the timer lock.              *)
Prepare ==
    /\ bspPc = "prepare"
    /\ timerLock = NoCpu
    /\ alive' = FALSE /\ acked' = FALSE
    /\ Kernel!AllocateRange(StackUnits)
    /\ IF kStatus' = "ok"
       THEN /\ mailboxFor' = Target
            /\ mailboxStack' = Last(kAllocated')
            /\ timerLock' = BspId
            /\ Goto("init")
       ELSE /\ Goto("hung")
            /\ UNCHANGED <<mailboxFor, mailboxStack, timerLock>>
    /\ UNCHANGED <<registry, idx, sipis, apPc, apStack, online, bspTimer>>
    /\ UNCHANGED apLocal

(* The local APIC of the BSP sends the IPI in the ICR words low/high: an  *)
(* INIT resets each target AP, which then waits for a STARTUP IPI; a       *)
(* STARTUP starts the trampoline on a target waiting for one and is        *)
(* ignored by one that runs.  (The APs' hardware, not kernel code.)        *)
HardwareIpi(pcs, low, high) ==
    LET targets == IpiTargets(low, high, BspId, Aps \cup {BspId}) IN
    [a \in Aps |->
        CASE a \notin targets -> pcs[a]
          [] IpiMode(low) = DeliveryMode.INIT -> "wait_sipi"
          [] IpiMode(low) = DeliveryMode.SIPI /\ pcs[a] = "wait_sipi" -> "started"
          [] OTHER -> pcs[a]]

(* LAPIC::send_init_to(id): write the ICR's high word, then the low word,  *)
(* which sends it.                                                         *)
InitIpi(pcs, a) == HardwareIpi(pcs, IcrLower(IcrInit(a)), IcrHigher(IcrInit(a)))

(* LAPIC::send_startup_to(id): the same with the STARTUP ICR.              *)
StartupIpi(pcs, a) ==
    HardwareIpi(pcs, IcrLower(IcrStartup(a)), IcrHigher(IcrStartup(a)))

(* start_processor: send_init_to(id).                                      *)
SendInit ==
    /\ bspPc = "init"
    /\ apPc' = InitIpi(apPc, Target)
    /\ Goto("sipi1")
    /\ UNCHANGED <<registry, idx, alive, acked, mailboxFor, timerLock, sipis,
                   apStack, online, bspTimer>>
    /\ UNCHANGED apLocal
    /\ UNCHANGED <<mailboxStack, kernelVars>>

(* start_processor: send_startup_to(id), then a delay (the next check).   *)
SendStartup(from, to) ==
    /\ bspPc = from
    /\ sipis' = [sipis EXCEPT ![Target] = @ + 1]
    /\ apPc' = StartupIpi(apPc, Target)
    /\ Goto(to)
    /\ UNCHANGED <<registry, idx, alive, acked, mailboxFor, timerLock,
                   apStack, online, bspTimer>>
    /\ UNCHANGED apLocal
    /\ UNCHANGED <<mailboxStack, kernelVars>>

(* Variant used to validate BringUpTerminates: the first-SIPI success      *)
(* path returns without unlocking the timer.                               *)
CheckAliveNoUnlock(onFailure) ==
    /\ bspPc \in {"check1", "check2"}
    /\ \/ /\ alive
          /\ acked' = TRUE
          /\ timerLock' = IF bspPc = "check1" THEN timerLock ELSE NoCpu
          /\ Goto("wait_online")
       \/ /\ ~alive
          /\ Goto(onFailure)
          /\ UNCHANGED <<acked, timerLock>>
    /\ UNCHANGED <<registry, idx, alive, mailboxFor, sipis, apPc, apStack,
                   online, bspTimer>>
    /\ UNCHANGED apLocal
    /\ UNCHANGED <<mailboxStack, kernelVars>>

(* Variant used to validate FailureAfterTwoSipis: no second STARTUP IPI.  *)
CheckAliveNoRetry(onFailure) ==
    /\ bspPc \in {"check1", "check2"}
    /\ \/ /\ alive
          /\ acked' = TRUE
          /\ timerLock' = NoCpu
          /\ Goto("wait_online")
       \/ /\ ~alive
          /\ Goto("hung")
          /\ UNCHANGED <<acked, timerLock>>
    /\ UNCHANGED <<registry, idx, alive, mailboxFor, sipis, apPc, apStack,
                   online, bspTimer>>
    /\ UNCHANGED apLocal
    /\ UNCHANGED <<mailboxStack, kernelVars>>

(* After a delay, poll "alive": on success acknowledge the AP (letting it  *)
(* leave the trampoline) and unlock the timer; otherwise go on to          *)
(* onFailure (the second SIPI, or hang()).                                 *)
CheckAlive(onFailure) ==
    /\ bspPc \in {"check1", "check2"}
    /\ \/ /\ alive
          /\ acked' = TRUE
          /\ timerLock' = NoCpu
          /\ Goto("wait_online")
       \/ /\ ~alive
          /\ Goto(onFailure)
          /\ UNCHANGED <<acked, timerLock>>
    /\ UNCHANGED <<registry, idx, alive, mailboxFor, sipis, apPc, apStack,
                   online, bspTimer>>
    /\ UNCHANGED apLocal
    /\ UNCHANGED <<mailboxStack, kernelVars>>

(* Variant used to validate TypeOK: the loop index is advanced past the    *)
(* last AP.                                                                 *)
AdvanceApPastEnd ==
    /\ idx' = idx + 1
    /\ Goto(IF idx = Len(ApIds) THEN "timer" ELSE "prepare")

(* The range-for over application_processor_apic_ids: start the next AP,   *)
(* or leave the loop.                                                      *)
AdvanceAp ==
    IF idx = Len(ApIds) THEN Goto("timer") /\ UNCHANGED idx
    ELSE Goto("prepare") /\ idx' = idx + 1

(* Variant used to validate MailboxOwnedByStartingAp: the BSP moves to the *)
(* next AP as soon as start_processor returns.                             *)
WaitOnlineSkipped ==
    /\ bspPc = "wait_online"
    /\ AdvanceAp
    /\ UNCHANGED <<registry, alive, acked, mailboxFor, timerLock, sipis, apPc,
                   apStack, online, bspTimer>>
    /\ UNCHANGED apLocal
    /\ UNCHANGED <<mailboxStack, kernelVars>>

(* start_all_processors: after start_processor, look the AP's record up    *)
(* and spin until it is online, then go on with the loop.                  *)
WaitOnline ==
    /\ bspPc = "wait_online"
    /\ Target \in registry
    /\ online[Target]
    /\ AdvanceAp
    /\ UNCHANGED <<registry, alive, acked, mailboxFor, timerLock, sipis, apPc,
                   apStack, online, bspTimer>>
    /\ UNCHANGED apLocal
    /\ UNCHANGED <<mailboxStack, kernelVars>>

(* The LAPIC timer becomes primary and is enabled on the BSP.              *)
EnableBspTimer ==
    /\ bspPc = "timer"
    /\ bspTimer' = TRUE
    /\ Goto("done")
    /\ UNCHANGED <<registry, idx, alive, acked, mailboxFor, timerLock, sipis,
                   apPc, apStack, online>>
    /\ UNCHANGED apLocal
    /\ UNCHANGED <<mailboxStack, kernelVars>>

-----------------------------------------------------------------------------
(* AP steps.                                                               *)

(* The trampoline: load the published stack, report alive, spin until     *)
(* acknowledged.                                                           *)
Trampoline(a) ==
    /\ apPc[a] = "started"
    /\ apStack' = [apStack EXCEPT ![a] = mailboxStack]
    /\ alive' = TRUE
    /\ apPc' = [apPc EXCEPT ![a] = "spin_ack"]
    /\ UNCHANGED <<registry, bspPc, idx, acked, mailboxFor, timerLock, sipis,
                   online, bspTimer>>
    /\ UNCHANGED apLocal
    /\ UNCHANGED <<mailboxStack, kernelVars>>

LeaveTrampoline(a) ==
    /\ apPc[a] = "spin_ack" /\ acked
    /\ apPc' = [apPc EXCEPT ![a] = "entry"]
    /\ UNCHANGED <<registry, bspPc, idx, alive, acked, mailboxFor, timerLock,
                   sipis, apStack, online, bspTimer>>
    /\ UNCHANGED apLocal
    /\ UNCHANGED <<mailboxStack, kernelVars>>

(* ap_entrypoint: GDT::the().install(), first statement: the shared       *)
(* m_pointer.size -= 1, with no lock.                                      *)
GdtShrink(a) ==
    /\ apPc[a] = "entry"
    /\ gdt' = [gdt EXCEPT !.size = InstallShrink(@)]
    /\ apPc' = [apPc EXCEPT ![a] = "lgdt"]
    /\ UNCHANGED <<registry, bspPc, idx, alive, acked, mailboxFor, timerLock,
                   sipis, apStack, online, bspTimer, idleTask, intsOn, ticks, gdtr>>
    /\ UNCHANGED <<mailboxStack, kernelVars>>

(* install: lgdt m_pointer, loading the size as this core's GDTR limit.   *)
LoadGdt(a) ==
    /\ apPc[a] = "lgdt"
    /\ gdtr' = [gdtr EXCEPT ![a] = gdt.size]
    /\ apPc' = [apPc EXCEPT ![a] = "gdt_restore"]
    /\ UNCHANGED <<registry, bspPc, idx, alive, acked, mailboxFor, timerLock,
                   sipis, apStack, online, bspTimer, idleTask, intsOn, ticks, gdt>>
    /\ UNCHANGED <<mailboxStack, kernelVars>>

(* install, last statement: m_pointer.size += 1; then IDT::install and     *)
(* PAT::synchronize, which touch no state modelled here.                   *)
GdtRestore(a) ==
    /\ apPc[a] = "gdt_restore"
    /\ gdt' = [gdt EXCEPT !.size = InstallRestore(@)]
    /\ apPc' = [apPc EXCEPT ![a] = "calibrate"]
    /\ UNCHANGED <<registry, bspPc, idx, alive, acked, mailboxFor, timerLock,
                   sipis, apStack, online, bspTimer, idleTask, intsOn, ticks, gdtr>>
    /\ UNCHANGED <<mailboxStack, kernelVars>>

(* The LAPIC timer of an AP is armed (periodic, unmasked LVT, LAPIC.cpp   *)
(* line 58) once it is calibrated; it fires only with interrupts enabled. *)
TimerArmed(a) ==
    apPc[a] \notin {"halted", "wait_sipi", "started", "spin_ack", "entry", "lgdt",
                    "gdt_restore", "calibrate"}

(* Variant used to validate NoApPanics: interrupts are enabled together    *)
(* with the timer, before the core has a current thread.                   *)
CalibrateTimerEnablingInterrupts(a) ==
    /\ apPc[a] = "calibrate"
    /\ timerLock = NoCpu
    /\ apPc' = [apPc EXCEPT ![a] = "current"]
    /\ intsOn' = [intsOn EXCEPT ![a] = TRUE]
    /\ UNCHANGED <<registry, bspPc, idx, alive, acked, mailboxFor, timerLock,
                   sipis, apStack, online, bspTimer, idleTask, ticks, gdt, gdtr>>
    /\ UNCHANGED <<mailboxStack, kernelVars>>

(* ap_entrypoint up to the timer, after the GDT, IDT and PAT: initialise  *)
(* LAPIC, calibrate the LAPIC timer against the PIT under the timer lock   *)
(* (taken and released inside initialize_for_this_processor, which also    *)
(* arms it) and timer.enable(), all with interrupts still disabled.       *)
CalibrateTimer(a) ==
    /\ apPc[a] = "calibrate"
    /\ timerLock = NoCpu
    /\ apPc' = [apPc EXCEPT ![a] = "current"]
    /\ UNCHANGED <<registry, bspPc, idx, alive, acked, mailboxFor, timerLock,
                   sipis, apStack, online, bspTimer, idleTask, intsOn, ticks,
                   gdt, gdtr>>
    /\ UNCHANGED <<mailboxStack, kernelVars>>

(* CPU::current() once the interrupt controller is up: at_id(my_id())      *)
(* finds the core's record by linear search; without one it panics.        *)
HasRecord(a) == a \in registry

(* ap_entrypoint from the start to the TSS: CPU::current() (after the     *)
(* timer steps of CalibrateTimer), the idle process, which makes its       *)
(* thread the record's current thread, and the TSS.                        *)
CreateIdle(a) ==
    /\ apPc[a] = "current"
    /\ IF HasRecord(a)
       THEN /\ apPc' = [apPc EXCEPT ![a] = "bring_online"]
            /\ idleTask' = [idleTask EXCEPT ![a] = TRUE]
       ELSE /\ apPc' = [apPc EXCEPT ![a] = "panic"]
            /\ UNCHANGED idleTask
    /\ UNCHANGED <<registry, bspPc, idx, alive, acked, mailboxFor, timerLock,
                   sipis, apStack, online, bspTimer, intsOn, ticks, gdt, gdtr>>
    /\ UNCHANGED <<mailboxStack, kernelVars>>

(* LocalData::bring_online: ASSERT it was offline, set m_is_online.       *)
BringOnline(a) ==
    /\ apPc[a] = "bring_online"
    /\ IF online[a]
       THEN apPc' = [apPc EXCEPT ![a] = "panic"] /\ UNCHANGED online
       ELSE /\ apPc' = [apPc EXCEPT ![a] = "enable"]
            /\ online' = [online EXCEPT ![a] = TRUE]
    /\ UNCHANGED <<registry, bspPc, idx, alive, acked, mailboxFor, timerLock,
                   sipis, apStack, bspTimer, idleTask, intsOn, ticks, gdt, gdtr>>
    /\ UNCHANGED <<mailboxStack, kernelVars>>

(* ++s_alive_counter (atomic), Interrupts::enable(), then the hlt loop.   *)
EnableInterrupts(a) ==
    /\ apPc[a] = "enable"
    /\ apPc' = [apPc EXCEPT ![a] = "idle"]
    /\ intsOn' = [intsOn EXCEPT ![a] = TRUE]
    /\ UNCHANGED <<registry, bspPc, idx, alive, acked, mailboxFor, timerLock,
                   sipis, apStack, online, bspTimer, idleTask, ticks, gdt, gdtr>>
    /\ UNCHANGED <<mailboxStack, kernelVars>>

(* LAPIC::Timer::handle_irq on an AP: EOI, CPU::current() (a panic without *)
(* a record), not the BSP so no uptime update, then Scheduler::on_tick,    *)
(* which switches away from the core's current thread (a fault when the    *)
(* core has none yet).                                                     *)
ApTick(a) ==
    /\ intsOn[a] /\ TimerArmed(a) /\ apPc[a] # "panic"
    /\ ticks[a] < MaxTicks
    /\ ticks' = [ticks EXCEPT ![a] = @ + 1]
    /\ IF HasRecord(a) /\ idleTask[a]
       THEN UNCHANGED apPc
       ELSE apPc' = [apPc EXCEPT ![a] = "panic"]
    /\ UNCHANGED <<registry, bspPc, idx, alive, acked, mailboxFor, timerLock,
                   sipis, apStack, online, bspTimer, idleTask, intsOn, gdt, gdtr>>
    /\ UNCHANGED <<mailboxStack, kernelVars>>

Next ==
    \/ AppendRecords \/ Prepare \/ SendInit
    \/ SendStartup("sipi1", "check1") \/ SendStartup("sipi2", "check2")
    \/ bspPc = "check1" /\ CheckAlive("sipi2")
    \/ bspPc = "check2" /\ CheckAlive("hung")
    \/ WaitOnline \/ EnableBspTimer
    \/ \E a \in Aps : \/ Trampoline(a) \/ LeaveTrampoline(a)
                      \/ GdtShrink(a) \/ LoadGdt(a) \/ GdtRestore(a)
                      \/ CalibrateTimer(a) \/ CreateIdle(a) \/ BringOnline(a)
                      \/ EnableInterrupts(a) \/ ApTick(a)

(* During bring-up interrupts are off and each core runs straight-line     *)
(* code: every core that can take its next step eventually does.           *)
Spec == Init /\ [][Next]_vars /\ WF_vars(Next)

-----------------------------------------------------------------------------

(* While an AP is still in the trampoline (about to load the published     *)
(* stack, or spinning on "acknowledged"), the mailbox is the one prepared *)
(* for it: the BSP never resets alive/acknowledged or republishes the     *)
(* stack for the next AP under a core still reading them, and every AP     *)
(* runs on a stack the kernel allocator handed out and still counts as    *)
(* allocated, sharing no page with the stack of any other AP.               *)
MailboxOwnedByStartingAp ==
    /\ \A a \in Aps : apPc[a] \in {"started", "spin_ack"} => mailboxFor = a
    /\ \A a, b \in Aps :
          a # b /\ apStack[a] # NoStack =>
             /\ apStack[a] \in kOwned
             /\ \A u \in 0..(KernelUnits - 1) :
                   ~(Kernel!RangeContains(apStack[a], u)
                     /\ Kernel!RangeContains(apStack[b], u))

(* No AP stops in a panic: when ap_entrypoint calls CPU::current() its     *)
(* record is already in s_processors, and when its armed LAPIC timer       *)
(* interrupt is first delivered the core has a record and a current       *)
(* (idle) thread for Scheduler::on_tick, whatever the BSP is doing.        *)
NoApPanics == \A a \in Aps : apPc[a] # "panic"

(* The BSP takes the hang() branch only after exactly two STARTUP IPIs to  *)
(* the AP being started, and only while that AP has still not reported   *)
(* alive: an AP merely slow to answer the first one is retried first.     *)
FailureAfterTwoSipis ==
    [][bspPc # "hung" /\ bspPc' = "hung" => sipis[Target] = 2 /\ ~alive]_vars

(* Every AP loads a GDTR limit that covers exactly the descriptors GDT     *)
(* holds, and m_pointer.size is the size of those descriptors whenever no  *)
(* core is inside GDT::install: the unlocked size -= 1 / lgdt / size += 1  *)
(* of two cores never overlap, because the BSP starts the next AP only    *)
(* once the previous one is online.                                        *)
GdtLimitExact ==
    /\ \A a \in Aps : gdtr[a] \in {-1, LimitFor(gdt.active)}
    /\ (\A a \in Aps : apPc[a] \notin {"lgdt", "gdt_restore"})
          => gdt.size = gdt.active * EntrySize

(* Every IPI start_processor sends lands on the AP being started and on no *)
(* other core: the ICR words LAPIC::ICR's bitfields produce carry INIT or  *)
(* STARTUP, no shorthand and that AP's id where the local APIC reads them, *)
(* so the INIT resets the target and no running AP is reset or restarted. *)
IpisReachTargetOnly ==
    [][bspPc # bspPc' =>
         /\ \A a \in Aps \ {Target} : apPc'[a] = apPc[a]
         /\ bspPc = "init" => apPc'[Target] = "wait_sipi"]_vars

(* Bring-up ends: the BSP either hangs on a dead AP or has every AP        *)
(* online in its idle loop and its own LAPIC timer enabled.               *)
BringUpTerminates ==
    <>(\/ bspPc = "hung"
       \/ bspPc = "done" /\ \A a \in Aps : apPc[a] = "idle")

=============================================================================
