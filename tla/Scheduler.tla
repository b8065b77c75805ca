------------------------------ MODULE Scheduler ------------------------------
(***************************************************************************)
(* The multiprocessor scheduling core: the Thread state machine of         *)
(* Kernel/Multitasking/Thread.cpp, the process/thread factories of         *)
(* Process.cpp, the per-core current thread of CPU::LocalData, and the     *)
(* Scheduler and TaskFinalizer they call (whose code is not in the         *)
(* repository snapshot; those parts follow spec sections 4.3-4.4).         *)
(*                                                                         *)
(* Every core runs one thread at a time.  A running worker may sleep,      *)
(* block on a cancellable or non-cancellable Blocker, or exit itself; any  *)
(* core may create a thread, kill one, or post a death request; a Blocker  *)
(* completes from any core by calling unblock(); every core takes timer    *)
(* ticks.  All queue mutations hold the single scheduler queue lock.      *)
(***************************************************************************)
EXTENDS Integers, Sequences, FiniteSets, SequencesExt

CONSTANTS
    Cpus,       \* the cores (CPU::LocalData records)
    BSP,        \* the bootstrap core: the only one that advances time
    Workers,    \* non-idle threads, created at run time
    IdleOf,     \* [Cpus -> idle thread]: each core's idle task
    MaxTime,    \* bound on the tick clock (Timer::nanoseconds_since_boot)
    NoCpu       \* model value: the queue lock is free

ASSUME BSP \in Cpus /\ MaxTime \in Nat /\ NoCpu \notin Cpus
ASSUME \A c, d \in Cpus : c # d => IdleOf[c] # IdleOf[d]

IdleThreads == {IdleOf[c] : c \in Cpus}
Threads == Workers \cup IdleThreads

States == {"UNDEFINED", "READY", "RUNNING", "BLOCKED", "SLEEPING",
           "DEAD", "DELAYED_DEAD"}
BlockerKinds == {"cancellable", "noncancellable"}

VARIABLES
    state,       \* Thread::m_state
    blocker,     \* Thread::m_blocker: "none" or the kind of Blocker held
    wakeTime,    \* Thread::m_wake_up_time
    shouldDie,   \* Thread::m_should_die
    current,     \* CPU::LocalData current thread, per core
    readyQueue,  \* the scheduler's FIFO ready queue
    sleepSet,    \* the scheduler's sleep set
    now,         \* ticks since boot
    lockHolder,  \* Scheduler queue lock: the core holding it, or NoCpu
    switching,   \* per core: its thread stopped itself, a switch is due
    waiting,     \* per thread: a Blocker will still call unblock() on it
    toFree,      \* threads handed to TaskFinalizer::free_thread
    freed        \* threads whose stacks the finalizer has released

vars == <<state, blocker, wakeTime, shouldDie, current, readyQueue, sleepSet,
          now, lockHolder, switching, waiting, toFree, freed>>

TypeOK ==
    /\ state \in [Threads -> States]
    /\ blocker \in [Threads -> BlockerKinds \cup {"none"}]
    /\ wakeTime \in [Threads -> 0..MaxTime]
    /\ shouldDie \in [Threads -> BOOLEAN]
    /\ current \in [Cpus -> Threads]
    /\ readyQueue \in Seq(Workers)
    /\ sleepSet \subseteq Workers
    /\ now \in 0..MaxTime
    /\ lockHolder \in Cpus \cup {NoCpu}
    /\ switching \in [Cpus -> BOOLEAN]
    /\ waiting \in [Threads -> BOOLEAN]
    /\ toFree \subseteq Workers /\ freed \subseteq Workers

(***************************************************************************)
(* Thread operations (Thread.cpp), as functions of the state they change.  *)
(***************************************************************************)

(* Thread::activate: READY -> RUNNING (asserted READY; the assertion is    *)
(* checked by SchedulerQueuesExact, since only queued threads and a        *)
(* deactivated idle thread are activated).  The caller publishes the       *)
(* thread as the core's current thread.                                    *)
Activated(st, t) == [st EXCEPT ![t] = "RUNNING"]

(* Variant used to validate RunningMatchesCurrent: deactivate forgotten.  *)
DeactivatedNoop(st, t) == st

(* Thread::deactivate: RUNNING -> READY, a no-op in any other state.       *)
Deactivated(st, t) ==
    IF st[t] = "RUNNING" THEN [st EXCEPT ![t] = "READY"] ELSE st

(* Thread::exit(): the new state.  A thread held by a non-cancellable      *)
(* Blocker becomes DELAYED_DEAD, every other thread DEAD.                  *)
ExitState(t) ==
    IF blocker[t] = "noncancellable" THEN "DELAYED_DEAD" ELSE "DEAD"

(* Thread::should_be_woken_up: wake time reached.                          *)
ShouldBeWokenUp(t, time) == wakeTime[t] <= time

(* Thread::wake_up (unconditional m_state = READY) applied to a set.      *)
WokenUp(st, woken) == [t \in Threads |-> IF t \in woken THEN "READY" ELSE st[t]]

(* The scheduler's choice: the head of the ready queue, else the core's    *)
(* idle thread, which is never queued.                                     *)
NextThread(q, c) == IF q = <<>> THEN IdleOf[c] ELSE Head(q)
Dequeued(q) == IF q = <<>> THEN q ELSE Tail(q)

-----------------------------------------------------------------------------
(***************************************************************************)
(* Actions.                                                                *)
(***************************************************************************)

(* Thread::create_supervisor: the Thread constructor leaves m_state at its *)
(* member default, READY; the kernel stack top and the fabricated register *)
(* frame that resumes at the entry point are data.                         *)
NewSupervisorThread(st, t) == [st EXCEPT ![t] = "READY"]

(* Process::create_supervisor / Process::create_thread: a new Thread is    *)
(* constructed READY and registered with the scheduler (queue lock held).  *)
CreateThread(t) ==
    /\ lockHolder = NoCpu
    /\ state[t] = "UNDEFINED"
    /\ state' = NewSupervisorThread(state, t)
    /\ readyQueue' = Append(readyQueue, t)
    /\ UNCHANGED <<blocker, wakeTime, shouldDie, current, sleepSet, now,
                   lockHolder, switching, waiting, toFree, freed>>

(* The running worker of core c puts itself to sleep: Thread::sleep        *)
(* records the wake time and sets SLEEPING, the scheduler adds it to the   *)
(* sleep set and keeps the queue lock until the core has switched away.   *)
(* sleep() is a no-op unless RUNNING (a remote kill may have made it       *)
(* DEAD); that branch changes nothing.                                     *)
Sleep(c) ==
    LET t == current[c] IN
    /\ lockHolder = NoCpu /\ ~switching[c]
    /\ t \in Workers /\ state[t] = "RUNNING"
    /\ \E until \in (now + 1)..MaxTime :
          wakeTime' = [wakeTime EXCEPT ![t] = until]
    /\ state' = [state EXCEPT ![t] = "SLEEPING"]
    /\ sleepSet' = sleepSet \cup {t}
    /\ lockHolder' = c
    /\ switching' = [switching EXCEPT ![c] = TRUE]
    /\ UNCHANGED <<blocker, shouldDie, current, readyQueue, now, waiting,
                   toFree, freed>>

(* Variant used to validate ThreadOnOneCore: the queue lock is dropped     *)
(* between Thread::block and the switch away from the blocked thread.      *)
BlockReleasingLock(c) ==
    LET t == current[c] IN
    /\ lockHolder = NoCpu /\ ~switching[c]
    /\ t \in Workers /\ state[t] = "RUNNING"
    /\ \E kind \in BlockerKinds : blocker' = [blocker EXCEPT ![t] = kind]
    /\ state' = [state EXCEPT ![t] = "BLOCKED"]
    /\ waiting' = [waiting EXCEPT ![t] = TRUE]
    /\ lockHolder' = NoCpu
    /\ switching' = [switching EXCEPT ![c] = TRUE]
    /\ UNCHANGED <<wakeTime, shouldDie, current, readyQueue, sleepSet, now,
                   toFree, freed>>

(* The running worker of core c blocks on a Blocker of either kind:        *)
(* Thread::block records it and sets BLOCKED (a no-op unless RUNNING).     *)
(* The Blocker now holds the thread and will call unblock() once.          *)
Block(c) ==
    LET t == current[c] IN
    /\ lockHolder = NoCpu /\ ~switching[c]
    /\ t \in Workers /\ state[t] = "RUNNING"
    /\ \E kind \in BlockerKinds : blocker' = [blocker EXCEPT ![t] = kind]
    /\ state' = [state EXCEPT ![t] = "BLOCKED"]
    /\ waiting' = [waiting EXCEPT ![t] = TRUE]
    /\ lockHolder' = c
    /\ switching' = [switching EXCEPT ![c] = TRUE]
    /\ UNCHANGED <<wakeTime, shouldDie, current, readyQueue, sleepSet, now,
                   toFree, freed>>

(* The running worker of core c exits: Thread::exit() on itself returns    *)
(* RUNNING, so the caller reschedules the core at once.                    *)
ExitSelf(c) ==
    LET t == current[c] IN
    /\ lockHolder = NoCpu /\ ~switching[c]
    /\ t \in Workers /\ state[t] = "RUNNING"
    /\ state' = [state EXCEPT ![t] = ExitState(t)]
    /\ lockHolder' = c
    /\ switching' = [switching EXCEPT ![c] = TRUE]
    /\ UNCHANGED <<blocker, wakeTime, shouldDie, current, readyQueue,
                   sleepSet, now, waiting, toFree, freed>>

(* The switch that follows sleep/block/exit on core c: activate the next   *)
(* ready thread (or the idle thread) and release the queue lock.           *)
Switch(c) ==
    LET next == NextThread(readyQueue, c) IN
    /\ switching[c] /\ lockHolder \in {c, NoCpu}
    /\ state' = Activated(state, next)
    /\ current' = [current EXCEPT ![c] = next]
    /\ readyQueue' = Dequeued(readyQueue)
    /\ lockHolder' = NoCpu
    /\ switching' = [switching EXCEPT ![c] = FALSE]
    /\ UNCHANGED <<blocker, wakeTime, shouldDie, sleepSet, now, waiting,
                   toFree, freed>>

(* Variant used to validate ReadyEventuallyRuns: a running worker is      *)
(* never preempted by the tick, only a stopped or idle thread is replaced. *)
RescheduleOnlyIdle(c, st, q) ==
    LET cur == current[c]
        st2 == IF shouldDie[cur] /\ st[cur] = "RUNNING"
               THEN [st EXCEPT ![cur] = ExitState(cur)] ELSE st
    IN  IF st2[cur] = "RUNNING" /\ (cur \in Workers \/ q = <<>>)
        THEN /\ state' = st2 /\ readyQueue' = q /\ current' = current
        ELSE LET next == NextThread(q, c) IN
             /\ state' = Activated(Deactivated(st2, cur), next)
             /\ current' = [current EXCEPT ![c] = next]
             /\ readyQueue' = Dequeued(q)

(* Variant used to validate TypeOK: a preempted idle thread is queued like *)
(* a worker.                                                               *)
RescheduleQueueingIdle(c, st, q) ==
    LET cur == current[c]
        st2 == IF shouldDie[cur] /\ st[cur] = "RUNNING"
               THEN [st EXCEPT ![cur] = ExitState(cur)] ELSE st
        q2  == IF st2[cur] = "RUNNING" THEN Append(q, cur) ELSE q
    IN  IF st2[cur] = "RUNNING" /\ q = <<>>
        THEN /\ state' = st2 /\ readyQueue' = q /\ current' = current
        ELSE LET next == NextThread(q2, c) IN
             /\ state' = Activated(Deactivated(st2, cur), next)
             /\ current' = [current EXCEPT ![c] = next]
             /\ readyQueue' = Dequeued(q2)

(* Variant used to validate DeadCurrentEventuallyReplaced: the tick keeps  *)
(* the current thread whenever nothing is ready, without checking that it  *)
(* is still RUNNING.                                                       *)
RescheduleKeepingWhenIdle(c, st, q) ==
    LET cur == current[c]
        st2 == IF shouldDie[cur] /\ st[cur] = "RUNNING"
               THEN [st EXCEPT ![cur] = ExitState(cur)] ELSE st
        q2  == IF cur \in Workers /\ st2[cur] = "RUNNING"
               THEN Append(q, cur) ELSE q
    IN  IF q = <<>>
        THEN /\ state' = st2 /\ readyQueue' = q /\ current' = current
        ELSE LET next == NextThread(q2, c) IN
             /\ state' = Activated(Deactivated(st2, cur), next)
             /\ current' = [current EXCEPT ![c] = next]
             /\ readyQueue' = Dequeued(q2)

(* The rescheduling half of Scheduler::on_tick on core c, given the thread *)
(* states st and ready queue q after the sleepers were woken.  A current   *)
(* thread whose death was requested exits first.  The current thread keeps *)
(* the core if it is still RUNNING and nothing is ready; otherwise it is   *)
(* deactivated (a running worker goes to the back of the queue) and the    *)
(* next thread is activated.                                               *)
Reschedule(c, st, q) ==
    LET cur == current[c]
        st2 == IF shouldDie[cur] /\ st[cur] = "RUNNING"
               THEN [st EXCEPT ![cur] = ExitState(cur)] ELSE st
        q2  == IF cur \in Workers /\ st2[cur] = "RUNNING"
               THEN Append(q, cur) ELSE q
    IN  IF st2[cur] = "RUNNING" /\ q = <<>>
        THEN /\ state' = st2 /\ readyQueue' = q /\ current' = current
        ELSE LET next == NextThread(q2, c) IN
             /\ state' = Activated(Deactivated(st2, cur), next)
             /\ current' = [current EXCEPT ![c] = next]
             /\ readyQueue' = Dequeued(q2)

(* Variant used to validate SleepersWakeOnTime: on_tick runs before the    *)
(* BSP advances time, so the sleepers are tested against the old clock.   *)
TickBeforeTimeAdvance(c) ==
    LET time  == IF c = BSP /\ now < MaxTime THEN now + 1 ELSE now
        woken == {t \in sleepSet : ShouldBeWokenUp(t, now)}
    IN  /\ lockHolder = NoCpu /\ ~switching[c]
        /\ now' = time
        /\ sleepSet' = sleepSet \ woken
        /\ \E order \in SetToSeqs(woken) :
              /\ IsSorted(order, LAMBDA a, b : wakeTime[a] <= wakeTime[b])
              /\ Reschedule(c, WokenUp(state, woken), readyQueue \o order)
        /\ UNCHANGED <<blocker, wakeTime, shouldDie, lockHolder, switching,
                       waiting, toFree, freed>>

(* A timer interrupt on core c: LAPIC::Timer::handle_irq advances time on  *)
(* the BSP only, then Scheduler::on_tick wakes every sleeper whose wake    *)
(* time has come, in wake-time order, and reschedules the core.  A core    *)
(* about to switch holds the queue lock with interrupts off: no tick.      *)
Tick(c) ==
    LET time  == IF c = BSP /\ now < MaxTime THEN now + 1 ELSE now
        woken == {t \in sleepSet : ShouldBeWokenUp(t, time)}
    IN  /\ lockHolder = NoCpu /\ ~switching[c]
        /\ now' = time
        /\ sleepSet' = sleepSet \ woken
        /\ \E order \in SetToSeqs(woken) :
              /\ IsSorted(order, LAMBDA a, b : wakeTime[a] <= wakeTime[b])
              /\ Reschedule(c, WokenUp(state, woken), readyQueue \o order)
        /\ UNCHANGED <<blocker, wakeTime, shouldDie, lockHolder, switching,
                       waiting, toFree, freed>>

(* Variant used to validate SchedulerQueuesExact: the killed thread is     *)
(* left in the ready queue.                                                *)
KillKeepingQueue(t) ==
    /\ lockHolder = NoCpu
    /\ t \in Workers
    /\ state[t] \notin {"UNDEFINED", "DEAD", "DELAYED_DEAD"}
    /\ state' = [state EXCEPT ![t] = ExitState(t)]
    /\ sleepSet' = sleepSet \ {t}
    /\ UNCHANGED <<blocker, wakeTime, shouldDie, current, readyQueue, now,
                   lockHolder, switching, waiting, toFree, freed>>

(* Forced termination from any core, under the queue lock: Thread::exit()  *)
(* sets DEAD, or DELAYED_DEAD when a non-cancellable Blocker holds the     *)
(* thread, and returns the prior state; the scheduler drops a READY thread *)
(* from the ready queue and a SLEEPING one from the sleep set.  A RUNNING  *)
(* thread stays current on its core until that core's next tick.          *)
Kill(t) ==
    /\ lockHolder = NoCpu
    /\ t \in Workers
    /\ state[t] \notin {"UNDEFINED", "DEAD", "DELAYED_DEAD"}
    /\ state' = [state EXCEPT ![t] = ExitState(t)]
    /\ readyQueue' = IF state[t] = "READY" THEN Remove(readyQueue, t)
                     ELSE readyQueue
    /\ sleepSet' = sleepSet \ {t}
    /\ UNCHANGED <<blocker, wakeTime, shouldDie, current, now, lockHolder,
                   switching, waiting, toFree, freed>>

(* Thread::exit() of Thread.h: post a death request (atomic m_should_die), *)
(* observed by the tick of the core that runs the thread.                  *)
RequestDeath(t) ==
    /\ t \in Workers
    /\ state[t] \notin {"UNDEFINED", "DEAD", "DELAYED_DEAD"}
    /\ ~shouldDie[t]
    /\ shouldDie' = [shouldDie EXCEPT ![t] = TRUE]
    /\ UNCHANGED <<state, blocker, wakeTime, current, readyQueue, sleepSet,
                   now, lockHolder, switching, waiting, toFree, freed>>

(* Variant used to validate DelayedDeadHeld: m_blocker is not cleared.    *)
UnblockKeepingBlocker(t) ==
    /\ waiting[t] /\ lockHolder = NoCpu
    /\ waiting' = [waiting EXCEPT ![t] = FALSE]
    /\ \/ /\ state[t] = "DELAYED_DEAD"
          /\ toFree' = toFree \cup {t}
          /\ UNCHANGED <<state, blocker, readyQueue>>
       \/ /\ state[t] = "DEAD"
          /\ UNCHANGED <<state, blocker, readyQueue, toFree>>
       \/ /\ state[t] \notin {"DELAYED_DEAD", "DEAD"}
          /\ state' = [state EXCEPT ![t] = "READY"]
          /\ readyQueue' = Append(readyQueue, t)
          /\ UNCHANGED <<blocker, toFree>>
    /\ UNCHANGED <<wakeTime, shouldDie, current, sleepSet, now, lockHolder,
                   switching, freed>>

(* Variant used to validate NoUseAfterFree: the DELAYED_DEAD branch hands  *)
(* the thread to the finalizer but does not return.                      *)
UnblockNoReturn(t) ==
    /\ waiting[t] /\ lockHolder = NoCpu
    /\ waiting' = [waiting EXCEPT ![t] = FALSE]
    /\ \/ /\ state[t] = "DEAD"
          /\ UNCHANGED <<state, blocker, readyQueue, toFree>>
       \/ /\ state[t] # "DEAD"
          /\ toFree' = IF state[t] = "DELAYED_DEAD" THEN toFree \cup {t}
                       ELSE toFree
          /\ blocker' = [blocker EXCEPT ![t] = "none"]
          /\ state' = [state EXCEPT ![t] = "READY"]
          /\ readyQueue' = Append(readyQueue, t)
    /\ UNCHANGED <<wakeTime, shouldDie, current, sleepSet, now, lockHolder,
                   switching, freed>>

(* Variant used to validate ThreadStatesRefinement: no check for DEAD.     *)
UnblockIgnoringDead(t) ==
    /\ waiting[t] /\ lockHolder = NoCpu
    /\ waiting' = [waiting EXCEPT ![t] = FALSE]
    /\ \/ /\ state[t] = "DELAYED_DEAD"
          /\ toFree' = toFree \cup {t}
          /\ UNCHANGED <<state, blocker, readyQueue>>
       \/ /\ state[t] # "DELAYED_DEAD"
          /\ blocker' = [blocker EXCEPT ![t] = "none"]
          /\ state' = [state EXCEPT ![t] = "READY"]
          /\ readyQueue' = Append(readyQueue, t)
          /\ UNCHANGED toFree
    /\ UNCHANGED <<wakeTime, shouldDie, current, sleepSet, now, lockHolder,
                   switching, freed>>

(* The Blocker holding t completes and calls Thread::unblock() (with the   *)
(* queue lock held, per the invariant noted in Thread.h).  A thread killed *)
(* while non-cancellably blocked goes to the TaskFinalizer; a thread      *)
(* already killed stays dead; any other is made READY and requeued.        *)
Unblock(t) ==
    /\ waiting[t] /\ lockHolder = NoCpu
    /\ waiting' = [waiting EXCEPT ![t] = FALSE]
    /\ \/ /\ state[t] = "DELAYED_DEAD"
          /\ toFree' = toFree \cup {t}
          /\ UNCHANGED <<state, blocker, readyQueue>>
       \/ /\ state[t] = "DEAD"
          /\ UNCHANGED <<state, blocker, readyQueue, toFree>>
       \/ /\ state[t] \notin {"DELAYED_DEAD", "DEAD"}
          /\ blocker' = [blocker EXCEPT ![t] = "none"]
          /\ state' = [state EXCEPT ![t] = "READY"]
          /\ readyQueue' = Append(readyQueue, t)
          /\ UNCHANGED toFree
    /\ UNCHANGED <<wakeTime, shouldDie, current, sleepSet, now, lockHolder,
                   switching, freed>>

(* The TaskFinalizer worker releases a thread handed to it.                *)
FreeThread(t) ==
    /\ t \in toFree
    /\ toFree' = toFree \ {t}
    /\ freed' = freed \cup {t}
    /\ UNCHANGED <<state, blocker, wakeTime, shouldDie, current, readyQueue,
                   sleepSet, now, lockHolder, switching, waiting>>

-----------------------------------------------------------------------------

(* Boot: every core already runs its idle thread (Thread::create_idle sets *)
(* RUNNING and publishes it as current); no worker exists yet.             *)
Init ==
    /\ state = [t \in Threads |-> IF t \in IdleThreads THEN "RUNNING"
                                  ELSE "UNDEFINED"]
    /\ blocker = [t \in Threads |-> "none"]
    /\ wakeTime = [t \in Threads |-> 0]
    /\ shouldDie = [t \in Threads |-> FALSE]
    /\ current = IdleOf
    /\ readyQueue = <<>>
    /\ sleepSet = {}
    /\ now = 0
    /\ lockHolder = NoCpu
    /\ switching = [c \in Cpus |-> FALSE]
    /\ waiting = [t \in Threads |-> FALSE]
    /\ toFree = {}
    /\ freed = {}

Next ==
    \/ \E c \in Cpus : Sleep(c) \/ Block(c) \/ ExitSelf(c) \/ Switch(c)
                       \/ Tick(c)
    \/ \E t \in Workers : CreateThread(t) \/ Kill(t) \/ RequestDeath(t)
                          \/ Unblock(t) \/ FreeThread(t)

Spec == Init /\ [][Next]_vars

(* The timer keeps interrupting every core, and a pending interrupt waits  *)
(* for the queue lock, which is released infinitely often: strong         *)
(* fairness for Tick.  A core that stopped its thread always completes the *)
(* switch.  Blockers eventually complete (SF: they too wait for the lock)  *)
(* and the finalizer worker eventually runs.                               *)
Fairness ==
    /\ \A c \in Cpus : SF_vars(Tick(c)) /\ WF_vars(Switch(c))
    /\ \A t \in Workers : SF_vars(Unblock(t)) /\ WF_vars(FreeThread(t))

FairSpec == Spec /\ Fairness

-----------------------------------------------------------------------------
(***************************************************************************)
(* Properties.                                                             *)
(***************************************************************************)

(* No thread is ever the current thread of two cores at once: a thread     *)
(* that blocked on core c cannot be unblocked, requeued and activated by  *)
(* another core before c has switched away from it.                       *)
ThreadOnOneCore ==
    \A c, d \in Cpus : c # d => current[c] # current[d]

(* Spec section 3: a RUNNING thread is some core's current thread, and a  *)
(* core that is not in the middle of a switch runs a thread that is        *)
(* RUNNING or was killed while running (DEAD, switched away at the tick).  *)
RunningMatchesCurrent ==
    /\ \A t \in Threads : state[t] = "RUNNING" => \E c \in Cpus : current[c] = t
    /\ \A c \in Cpus : ~switching[c] => state[current[c]] \in {"RUNNING", "DEAD"}

(* The ready queue holds exactly the READY workers, each once, and the    *)
(* sleep set exactly the SLEEPING ones: no lost wake-up, no killed thread *)
(* left queued (so activate's ASSERT(m_state == READY) always holds).      *)
SchedulerQueuesExact ==
    /\ Len(readyQueue) = Cardinality(ToSet(readyQueue))
    /\ ToSet(readyQueue) = {w \in Workers : state[w] = "READY"}
    /\ sleepSet = {w \in Workers : state[w] = "SLEEPING"}

(* A thread handed to the TaskFinalizer is unreachable: no core runs it,   *)
(* it is in no scheduler queue and no Blocker will touch it again.        *)
NoUseAfterFree ==
    \A t \in toFree \cup freed :
        /\ \A c \in Cpus : current[c] # t
        /\ ~Contains(readyQueue, t) /\ t \notin sleepSet
        /\ ~waiting[t]

(* A DELAYED_DEAD thread is still held by its Blocker (whose unblock()     *)
(* will finalize it) or already with the finalizer: deferred teardown is   *)
(* never lost, and no running thread is ever DELAYED_DEAD.                 *)
DelayedDeadHeld ==
    \A t \in Threads : state[t] = "DELAYED_DEAD" =>
        waiting[t] \/ t \in toFree \cup freed

(* Sleepers wake exactly on time: a SLEEPING thread becomes READY only     *)
(* once the clock has reached its wake time, and no sleeper is ever left   *)
(* in the sleep set with its wake time already reached.  The second half   *)
(* depends on handle_irq advancing time on the BSP before on_tick tests    *)
(* should_be_woken_up, and on ticks of the other cores (which do not       *)
(* advance time) finding nothing due.                                      *)
SleepersWakeOnTime ==
    [][/\ \A t \in Threads :
            state[t] = "SLEEPING" /\ state'[t] = "READY" => wakeTime[t] <= now'
       /\ \A t \in sleepSet' : wakeTime'[t] > now'
      ]_vars

(* The scheduler implements the abstract thread lifecycle: every state     *)
(* change is a transition of spec section 4.1, so DEAD is never left.      *)
Lifecycle == INSTANCE ThreadStates WITH state <- state
ThreadStatesRefinement == Lifecycle!Spec

(* Every READY worker eventually runs (or is killed): FIFO rotation on     *)
(* ticks leaves no worker starving.                                        *)
ReadyEventuallyRuns ==
    \A t \in Workers :
        state[t] = "READY" ~> state[t] \in {"RUNNING", "DEAD", "DELAYED_DEAD"}

(* A worker killed by another core while it runs (Thread::exit sets DEAD  *)
(* but leaves it the core's current thread) is eventually switched away   *)
(* from: the core's next tick notices the DEAD current thread and          *)
(* activates another one, the idle thread if nothing is ready, instead of *)
(* resuming the dead thread.                                               *)
DeadCurrentEventuallyReplaced ==
    \A c \in Cpus, t \in Workers :
        current[c] = t /\ state[t] = "DEAD" ~> current[c] # t

=============================================================================
