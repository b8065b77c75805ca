# TLA+ models of the UltraOS scheduling core

These modules model the parts of UltraOS (`src/Kernel`) where correctness
depends on interleavings. That means the thread state machine driven by
several cores, the deferred finalization of threads killed while blocked, the
multiprocessor bring-up handshake, and the kernel's virtual range allocator. They also model
the MP configuration table parser that feeds bring-up, and the bitmap pitch arithmetic
of the window manager.
Every action is translated from the code. `PROJECT.json` maps each one to its
source lines. The Scheduler and TaskFinalizer sources, and the AP trampoline,
are not in the snapshot. Those parts are modelled from `spec.md` and marked
`spec_modelled` in the map.

## The system and how its parts interact

- **Thread** (`Multitasking/Thread.cpp`, `Thread.h`). The state is one of
  UNDEFINED, READY, RUNNING, BLOCKED, SLEEPING, DEAD or DELAYED_DEAD.
  - `activate` asserts READY.
  - `deactivate`, `sleep` and `block` are no-ops unless the thread is RUNNING.
  - `unblock` has three branches: DELAYED_DEAD goes to `TaskFinalizer::free_thread`, DEAD is a no-op, and any other state clears the blocker, sets READY and requeues the thread.
  - `exit` sets DELAYED_DEAD under a non-cancellable blocker, and DEAD otherwise.
  - `Thread.h` adds `m_should_die` (the request form of `exit`) and an unconditional `wake_up`. It also adds `should_be_woken_up` (`wake time <= now`) and the NOTE that these members need `Scheduler::s_queues_lock`.
- **Process** (`Process.cpp`). `create_supervisor` and `create_thread` build a READY thread and register it with the scheduler. `create_idle_for_this_processor` builds the core's idle thread already RUNNING and current.
- **Scheduler / TaskFinalizer** (spec 4.3 and 4.4; source absent).
  - One queue lock guards a FIFO ready queue and the sleep set.
  - `on_tick` wakes due sleepers, honours a death request, and rotates the running worker to the back of the queue.
  - The idle thread is the fallback and is never queued.
- **LAPIC timer** (`Interrupts/LAPIC.cpp`). `handle_irq` advances time only on the BSP, then calls `Scheduler::on_tick` on every core.
- **Bring-up** (`Core/CPU.cpp`, `LAPIC::start_processor`).
  - The BSP appends every AP record first. Then, for each AP, it:
    - resets the low-memory mailbox (alive, acknowledged, stack);
    - takes the PIT timer lock and sends INIT and a SIPI;
    - polls `alive` after 1 ms, and otherwise sends a second SIPI and polls after 1 s, calling `hang()` on failure;
    - on success, acknowledges the AP, unlocks the timer and spins until the AP's record is online.
  - The AP runs the trampoline: it loads the stack, sets alive and spins on acknowledged. Then it runs `ap_entrypoint`, which calibrates its LAPIC timer under the same PIT lock, creates the idle process, brings the record online and enables interrupts.
  - The AP stack comes from the kernel `VirtualAllocator`.
  - On every AP, `LAPIC::handle_irq` runs `on_tick` once the timer is armed and interrupts are on. It needs the AP's record and idle thread to exist by then.
- **GDT** (`GDT.cpp`, `Core/GDT.h`).
  - One table, `GDT::s_instance`, is shared by every core.
  - `new_entry` counts entries up to 9, and hangs after that.
  - `install` runs `m_pointer.size -= 1`, then `lgdt`, then `m_pointer.size += 1`, with no lock. Each AP calls it first thing in `ap_entrypoint`.
- **MP table** (`Interrupts/MP.cpp`).
  - `find_floating_pointer` searches the EBDA, the BIOS ROM and the last base-memory KB, in that order.
  - `parse_configuration_table` walks the entries in order:
    - processor entries append a LAPIC, and the bootstrap flag picks the BSP;
    - bus entries record the ISA and PCI bus ids;
    - the first I/O APIC is taken, and a second one is an ASSERT;
    - interrupt entries give legacy IRQ overrides on the ISA bus and NMI routes on LINT lines.
  - Afterwards the NMIs are connected to LAPICs, and an id of 0xFF means all of them. This is the SMP data that `CPU::start_all_processors` reads.
- **Bitmap** (`WindowManager/Bitmap.cpp`).
  - The constructors compute the pitch as `ceiling_divide(width * bpp, 8)`.
  - `scanline_at(y)` is `data + pitch * y`.
  - `color_at` asserts that a palette exists and that the index is below 2^bpp.
  - The `MutableBitmap` destructor frees what it owns.
- **VirtualAllocator** (`Memory/VirtualAlloctor.cpp`).
  - It keeps a first-fit free array and an allocated array.
  - The two `deallocate_range` overloads search the allocated array and call `return_back_to_free_pool`, which appends to the free array without coalescing.

## Modules

| Module | Models | State | Actions |
|---|---|---|---|
| `ThreadStates` | abstract lifecycle (spec 4.1) | `state` | any permitted transitions; a tick may take a sleeper through READY to RUNNING in one step |
| `Scheduler` | Thread, Process admission, queue lock, on_tick, finalizer, timer IRQ | state, blocker kind, wake time, should_die, current per core, ready queue, sleep set, clock, lock holder, per-core "switching", held-by-blocker, finalizer sets | CreateThread, Sleep, Block, ExitSelf, Switch, Tick (its Reschedule), Kill, RequestDeath, Unblock, FreeThread |
| `VirtualAllocator` | `VirtualAlloctor.cpp` | free array, allocated array, ranges owned by callers, hang status | AllocateRange, DeallocateRange, DeallocateAddress |
| `BringUp` | `start_all_processors`, `start_processor`, trampoline, `ap_entrypoint` | records, BSP program point and loop index, mailbox (alive, acknowledged, published stack range), timer lock, SIPI counts, AP program points, AP stacks, online flags, the GDT and each AP's GDTR limit, the kernel `VirtualAllocator` (an instance) | AppendRecords, Prepare, SendInit, SendStartup (x2), CheckAlive (x2), WaitOnline, EnableBspTimer, Trampoline, LeaveTrampoline, CalibrateTimer, CreateIdle, BringOnline, EnableInterrupts, ApTick, GdtShrink, LoadGdt, GdtRestore |
| `LAPIC` | `Interrupts/LAPIC.h`, `LAPIC.cpp` (operators only) | the ICR as a record of its bitfields | IcrInit, IcrStartup (what `send_init_to`/`send_startup_to` fill in), IcrLower and IcrHigher (the two 32-bit words GCC's bitfield layout gives), and the local APIC's decoding of those words (IpiMode, IpiTargets, from the Intel SDM) |
| `GDT` | `GDT.cpp`, `Core/GDT.h` (operators only) | a table record `[active, size, hung]` | NewEntry, CreateDescriptor, CreateBasicDescriptors, InstallShrink, InstallRestore; BringUp runs install as the AP steps GdtShrink, LoadGdt, GdtRestore |
| `MPTable` | `MP.cpp` | program point, floating-pointer region, table chosen, entry index, ISA/PCI bus ids, NMI entries, SMP data (BSP, LAPICs with NMI, I/O APIC count, IRQ overrides) | Parse, ParseConfigurationTable, ProcessorEntry, BusEntry, IoApicEntry, InterruptEntry, UnknownEntry, AssignNmis |
| `Bitmap` | `Bitmap.cpp` | the bitmap record (size, format, pitch, palette, ownership), ASSERT status, freed buffers | Construct, ColorAt, Destroy |
| `DynamicBitArray` | `Common/DynamicBitArray.h` | bit count, byte array (bytes 0..255), fault status, last `set_range_to` arguments | SetSize, SetBit, SetRangeTo (RECURSIVE loop over SetBitIn) |
| `PIT` | `Interrupts/ProgrammableIntervalTimer.cpp` | m_frequency, reload register, on_irq's static tick and seconds, real input clocks elapsed, interrupt count, halted | SetFrequency (constructor's single call), OnIrq |
| `MCScheduler`, `MCVirtualAllocator`, `MCBringUp`, `MCDynamicBitArray`, `MCPIT`, `MCMPTable`, `MCBitmap` | model values and definitions for TLC | | |

### Scheduler

- **Sleep, block and exit.** Sleep, Block and ExitSelf are a core's running worker calling `sleep`, `block` or `exit` on itself. The core then holds the queue lock with `switching` set until Switch activates the next thread. This models the NOTE in `Thread.h`, and it closes the window in which another core could unblock, requeue and activate a thread that has not yet been switched away from.
- **Tick.** Tick is one whole `handle_irq` plus `on_tick`:
  - the BSP-only time advance;
  - waking every due sleeper with `wake_up`, in wake-time order;
  - the should_die exit;
  - rotation with the idle fallback.
- **Kill and unblock.** Kill is `exit()` called from another core. It removes a READY thread from the queue and a SLEEPING one from the sleep set, and it leaves a RUNNING thread current until that core's next tick. Unblock is the Blocker completing, and it has all three branches of `Thread::unblock`.
- **Refinement.** `Lifecycle == INSTANCE ThreadStates` with the identity mapping on `state`, and `ThreadStatesRefinement == Lifecycle!Spec` is checked as a property.

### BringUp

- **Timing.** A delay is represented by the order of steps. A slow AP is one whose Trampoline step comes after the BSP's poll. A dead AP is one that never takes it before `hang()`.
- **Hardware effects.** SendInit and SendStartup build the ICR the code builds, pack it into two words, and hand the words to `HardwareIpi`, which decodes them the way the local APIC does: the delivery mode from bits 8-10, the shorthand from bits 18-19, the destination from bits 24-31 of the high word. INIT puts each core it reaches into "wait for SIPI"; a SIPI starts only a core that is waiting, and hardware ignores the others. Core ids are the LAPIC ids (the BSP is 0, the APs 1..3).
- **AP stacks.** `Prepare` calls the `VirtualAllocator` module, instanced as the kernel address space's allocator, for `StackUnits` pages, and publishes the range in the mailbox; when the allocator is out of ranges it hangs, which the model takes as the BSP's hung state. The allocator starts with the page `LAPIC::set_base_address` takes on 32-bit builds. The Trampoline step loads the published range as the AP's stack.
- **AP entry.** `ap_entrypoint` begins with `GDT::install` as three steps on the shared `gdt` record: GdtShrink, LoadGdt (which records the core's GDTR limit in `gdtr`) and GdtRestore. The rest is four steps: CalibrateTimer, CreateIdle, BringOnline and EnableInterrupts. After EnableInterrupts, ApTick is the AP's timer interrupt, which runs `on_tick` for the core. It panics if the core has no record or no idle thread. CreateIdle panics too if the record is missing (`Process::create_idle_for_this_processor` looks it up). ApTick is bounded by `MaxTicks`.

### MPTable

- **Program points.** The parser is sequential: one action per entry type, with `i` indexing the chosen table, followed by AssignNmis.
- **Choices.** The table is chosen from `Tables` when the floating pointer is found and the configuration table is valid. IMCR, the default-configuration branch and the signature check are free choices.
- **ASSERTs.** An ASSERT is the program point `"assert"`.
- **Data.** An entry is a record holding only the fields the code reads.

### VirtualAllocator

- **Search.** SearchAllocated is exactly the code's loop. It runs to `m_free_ranges.size()` and reads `m_allocated_ranges`. A read past the end of the allocated array is taken as no match, since it only happens for a range that is not there.
- **Contains checks.** The checks whose failure branch no owned range can take are guards.

## Runs

| Run | cfg | Checks | Result |
|---|---|---|---|
| scheduler_safety | `MCScheduler.cfg` | TypeOK, ThreadOnOneCore, RunningMatchesCurrent, SchedulerQueuesExact, NoUseAfterFree, DelayedDeadHeld, SleepersWakeOnTime, ThreadStatesRefinement | pass |
| scheduler_liveness | `MCSchedulerLive.cfg` | ReadyEventuallyRuns, DeadCurrentEventuallyReplaced | pass |
| allocator_partition | `VirtualAllocator.cfg` | TypeOK, RangesPartition | pass |
| allocator_dealloc | `VirtualAllocatorDealloc.cfg` | HangsOnlyWhenExhausted | **violation** (two code bugs) |
| bitarray_roundtrip | `DynamicBitArray.cfg` | TypeOK, RangeRoundTrip | pass |
| bitarray_bounds | `DynamicBitArrayBounds.cfg` | NoOutOfBounds | **violation** (code bug) |
| pit_uptime | `PIT.cfg` | TypeOK, UptimeNotFast | pass |
| pit_low_frequency | `PITLowFrequency.cfg` | UptimeNotFast | **violation** (code bug) |
| bringup | `BringUp.cfg` | TypeOK, MailboxOwnedByStartingAp, NoApPanics, GdtLimitExact, IpisReachTargetOnly, FailureAfterTwoSipis, BringUpTerminates | pass |
| mp_legacy_irqs | `MPTable.cfg` | TypeOK, LegacyIrqsMatchTable | pass |
| mp_lapics | `MPTableLapics.cfg` | LapicsMatchTable | **violation** (code bug, spec/code divergence) |
| bitmap_pitch | `Bitmap.cfg` | TypeOK, PixelsFitScanlines | pass |

What the properties say:

- **ThreadOnOneCore**: no thread is current on two cores at once.
- **RunningMatchesCurrent**: every RUNNING thread is some core's current thread. A core that is not switching runs a thread that is RUNNING, or DEAD by a remote kill.
- **SchedulerQueuesExact**: the ready queue is exactly the READY workers, each once, and the sleep set is exactly the SLEEPING ones. This is what keeps `activate`'s assertion true and rules out lost wake-ups.
- **NoUseAfterFree**: a finalized thread is current nowhere, queued nowhere and held by no blocker.
- **DelayedDeadHeld**: a DELAYED_DEAD thread is still held by its blocker or already with the finalizer.
- **SleepersWakeOnTime** (action property): a sleeper becomes READY only once the clock has reached its wake time, and after every step no thread is left in the sleep set with its wake time reached. The second half depends on `handle_irq` advancing time on the BSP *before* `on_tick` runs: with the two calls swapped (the `TickBeforeTimeAdvance` variant), TLC finds a sleeper still asleep at its wake time.
- **ThreadStatesRefinement**: every state change is a lifecycle transition, so DEAD is never left.
- **ReadyEventuallyRuns** and **DeadCurrentEventuallyReplaced**: no ready worker starves, and a worker that `Thread::exit` marks DEAD while it is still a core's current thread (`Thread.cpp:189`) is eventually switched away from. `RunningMatchesCurrent` allows a DEAD current thread, and only this property forbids the core from resuming it forever. The tick keeping its current thread whenever nothing is ready, without checking that the thread is still RUNNING, breaks it.
- **RangesPartition**: every unit of the managed range lies in exactly one free or allocated range, and the allocated array is exactly the set of ranges callers own.
- **HangsOnlyWhenExhausted**: the allocator calls `hang()` only for a caller's mistake or for real exhaustion. Releasing an owned range never reports "wasn't found as allocated", and "out of ranges" comes only when no run of `MaxRequest` unallocated units is left. Two code bugs break it:
  - TLC's shortest trace has 3 steps: allocate 2 units, allocate 1 unit, then release the second allocation. The free array then has size 1, so index 1 of the allocated array is never examined (`VirtualAlloctor.cpp:121`).
  - With releases that the search does find, `return_back_to_free_pool` never merges adjacent free ranges (`VirtualAlloctor.cpp:166`). After allocate 1, allocate 1, release, allocate 2 and release, a request for 2 units hangs while units 0 and 1 are free. TLC found this 6-step trace when that half of the property was checked on its own.
- **RangeRoundTrip**: after a completed `set_range_to`, `range_as_number` over the same bits returns the number.
- **NoOutOfBounds**: an index that passes `set_bit`'s ASSERT has a byte behind it. TLC violates it with `set_size(1)` followed by `set_bit(0)`. `set_size` allocates `bit_count / 8` bytes, rounded down, so every last partial byte is missing.
- **UptimeNotFast**: the uptime `on_irq` reports is never more than 1% ahead of real time. `clocks` counts PIT input clocks, one reload period per interrupt, with 0 meaning 65536. The property holds for 19 Hz and above. At 18 Hz it fails: the divisor 66287 loses bit 16 in the two byte writes, becomes 751, and a "second" is reported after 0.011 s.
- **MailboxOwnedByStartingAp**: while an AP is in the trampoline, the mailbox is the one prepared for it; and every AP that loaded a stack runs on a range the kernel allocator handed out and still counts as allocated, sharing no page with another AP's stack. Stack disjointness rests on the alive handshake: the BSP republishes the stack only after the previous AP reported alive, which it does after loading its stack.
- **IpisReachTargetOnly** (action property): every INIT and STARTUP IPI that `start_processor` sends reaches the AP being started and no other core. It is checked on the words the `ICR` bitfields produce, so it depends on `reserved_4` putting `destination_id` in bits 24-31.
- **NoApPanics**: no AP panics. This means creating its idle process finds its record, and no timer tick arrives before the record and the idle thread exist. A tick is possible as soon as the timer is armed and interrupts are on.
- **GdtLimitExact**: every AP loads a GDTR limit of exactly `8 * active - 1`, and outside `install` the shared size equals `8 * active`. It holds only because the BSP waits for each AP to come online before starting the next, so no two `install`s overlap. With that wait removed (the `WaitOnlineSkipped` variant), TLC finds two APs interleaving their `size -= 1` and one loading a limit a byte short.
- **LegacyIrqsMatchTable**: when parsing completes, the IRQ overrides are exactly those the table's INT entries on the ISA bus give. A later entry for the same IRQ wins, and other buses are ignored.
- **LapicsMatchTable**: the LAPIC list that `start_all_processors` receives holds only enabled processors, and every LAPIC an NMI entry names has an NMI connection. Two behaviours of the code break it:
  - `MP.cpp:130` appends a processor whatever its enabled flag says, so bring-up would send SIPIs to a disabled core and hang. TLC's shortest trace shows this case.
  - `MP.cpp:258` honours 0xFF only in the first NMI entry. An NMI for all LAPICs that follows one for LAPIC 1 is looked up as LAPIC id 0xFF and dropped, so LAPIC 0 gets no NMI. TLC found this trace when the NMI half of the property was checked on its own.
- **PixelsFitScanlines**: for every format and width, the bits of each pixel of row y end before `scanline_at(y + 1)`. Rows never overlap, also when width * bpp is not a multiple of 8.
- **FailureAfterTwoSipis** (action property): the step to `hang()` happens only after exactly two SIPIs to the AP, while it is still not alive. This is the spec 8 scenario.
- **BringUpTerminates**: bring-up ends with every AP idle, or with the BSP hung. It catches a timer-lock deadlock between the BSP's spin on `is_online` and the AP's calibration.

Each property of a passing run has a mutant in `PROJECT.json`. A mutant is a "Variant used to validate ..." operator placed before the definition it replaces, and each one models a plausible slip in the code. For the scheduler, allocator and bring-up:

- the queue lock dropped after block;
- a deactivate forgotten;
- a killed thread left in the queue;
- a missing return after `free_thread`;
- the blocker not cleared;
- `on_tick` run before the BSP advances time;
- no check for DEAD;
- the idle thread queued;
- no preemption of workers;
- the `free_thread` call dropped;
- no shrink of the free range;
- no erase from the allocated array;
- an off-by-one in the AP loop;
- the `is_online` spin dropped;
- records appended late;
- no second SIPI;
- a missing timer unlock;
- interrupts enabled during calibration;
- the GDT size loaded as the limit without the decrement;
- the ICR destination id packed without the 24 reserved bits before it.

For the bit array and PIT:

- bit_count taken as a byte count;
- a clear that forgets the complement;
- the divisor stored as m_frequency;
- tick never reset.

For the MP table and bitmaps:

- a second I/O APIC accepted;
- overrides taken from any bus;
- the pitch rounded down;
- rows addressed by width.

TLC finds the intended property violated for every one of them.

## Bounds and why they suffice

- **Scheduler safety:** 2 cores, 3 workers and clock values 0..3.
  - Two cores are the least number needed for cross-core unblock, kill and double dispatch.
  - Three workers let one block, one sleep and one be killed or queued at the same time, and give a queue of length above one.
  - Wake times are 1..3, so sleepers can wake in order or together, a thread can go to sleep after the clock has advanced, and non-BSP ticks can fall between two clock advances.
  - Worker symmetry is used here only, because it is sound for safety. The run reaches about 645k distinct states in about 40 s.
- **Scheduler liveness:** 1 core and 2 workers. The cross-core cases are covered by the safety run. Two workers already exercise rotation, and a DELAYED_DEAD worker alongside a runnable one. Larger liveness models took more than 4 minutes.
- **Allocator:** 4 units and requests of 1..2. This is enough for split, exact fit, exhaustion, and more free than allocated entries and the reverse.
- **DynamicBitArray:** bit counts 0..17, which give zero, one or two bytes and a partial third, and writes (`set_bit`, and `set_range_to` of 1..2 bits with any value that fits) at bit indices 0, 7, 8 and 15. A 2-bit range at 7 straddles the boundary between bytes 0 and 1, and one at 15 reaches bit 16, past the second byte. So completed writes exercise `byte_of_bit` and `index_of_bit` in byte 1, and the partial-byte faults and ASSERT branches are all reached. Restricting the indices keeps the byte contents to the bits those writes touch: about 28k distinct states in a few seconds.
- **PIT:** requests of 19 Hz (the lowest divisor that fits), 100 Hz, and one above the input clock (the hang branch), with up to 120 interrupts, so several seconds at 19 Hz and one at 100 Hz. `set_frequency` runs once because its only caller is the constructor. Requests are positive: 0 would divide by zero, and the hazard list notes this.
- **Bring-up:** 3 APs (LAPIC ids 1..3, BSP 0), with `MaxTicks = 1`, and a kernel range of 7 pages: the LAPIC page and three stacks of 2 pages, so every AP gets a stack and the allocator's exhaustion hang (the documented fatal path) is left to the allocator runs. With three APs the mailbox is reused twice, and an AP may still be slow when the next is started. One tick per AP is enough to reach a tick arriving at each AP program point.
- **MP table:** LAPIC ids {0, 1}, and tables built from families:
  - processor lists, including a disabled core and a missing BSP flag;
  - bus lists, including ISA-less and PCI-only;
  - zero, one or two I/O APICs, including an unusable first one;
  - up to two I/O interrupt entries, two of them competing for IRQ 0 with different modes;
  - up to two local entries: NMI to all, NMI to LAPIC 1, and ExtINT;
  - an unknown entry.

  Every branch of every entry handler is reached, and so are the orderings of NMI entries. The run reaches about 1.5M states in 15 s.
- **Bitmap:** widths 1..9 and heights 1..2, with all six formats. Widths up to 9 give every remainder of width * bpp mod 8 for 1, 2 and 4 bpp, and a second row makes overlap visible. Palette indices are 0..256, which crosses the 2^bpp limit of every indexed format.

## Fairness

- **Tick:** strong fairness. The LAPIC timer keeps interrupting every core, and a pending tick waits only for the queue lock, which is released infinitely often.
- **Switch:** weak fairness. The core that stopped its thread completes the switch in straight-line code.
- **Unblock:** strong fairness. The spec assumes blockers complete, and they too wait for the lock.
- **FreeThread:** weak fairness. The finalizer worker eventually runs.
- **Bring-up:** weak fairness on the next-state relation. Each core runs straight-line code with interrupts off.
- **Deadlock checking:** `CHECK_DEADLOCK FALSE` appears only where the code really stops. After `hang()` in the allocator, a core stops. After bring-up, the BSP is done and the APs idle in `hlt`, or the BSP hangs.

## Not modelled, and why

- **`requested_state` CAS and `ScopedInvulnerability`:** no consumer or caller is in the snapshot.
- **`set_range_to` with counts above 32:** the `1 << i` expression is int-width, but such counts need integers wider than TLC's.
- **`DynamicArray`:** not in the snapshot. `expand_to` is taken to append zero bytes, and an index past its size is a fault.
- **`LAPIC::send_ipi`, `my_id`, timer `enable_irq`/`disable_irq`:** `send_ipi` has no caller in the snapshot (its caller `IPICommunicator::send_ipi` is only declared), and it uses `DestinationType::SPECIFIC` and `invalid_destination`, which `LAPIC.h` does not declare (there the first value is `DEFAULT`): `LAPIC.cpp` and `LAPIC.h` come from different revisions. The model uses the value 0 both names give. The others are single register accesses.
- **GDT descriptor encoding and `create_tss_descriptor`:** the encoding is data. `create_tss_descriptor` is declared in `Core/GDT.h` but not defined in the snapshot. How many entries each core takes, and so when `new_entry` would hang, cannot be read from the code.
- **IDT/APIC register programming, XHCI structures, drivers, window-manager drawing, `Traits.h`, logger and terminal:** these are byte layout, compile-time type traits, hardware programming or pure formatting. They have no interleaving or state that these properties distinguish.
- **`Thread.h` against `Thread.cpp`:** the header and the source come from different revisions (`request_state` against `m_state_lock`). The models follow `Thread.cpp` and the `Thread.h` NOTE.
- **`CPU.cpp` against `MP.cpp`:** `CPU::start_all_processors` (`CPU.cpp:86-90`) reads `application_processor_apic_ids` from the SMP data, but `MP.cpp` never fills such a field: it records local APICs with their NMIs. The two files come from different revisions. BringUp therefore takes the AP APIC ids as a constant set rather than composing with MPTable.
- **DEAD threads that were not DELAYED_DEAD:** nothing in the code shown ever frees them. The spec leaves process destruction open, so no property claims it.

## Plan for the next sittings

1. A composition of BringUp with the Scheduler. An AP's idle thread joins the scheduler only once its record is online and interrupts are enabled.
2. Per-core TSS descriptors in the GDT, if `create_tss_descriptor` becomes available, to bound the number of cores before `new_entry` hangs.
