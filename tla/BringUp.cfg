\* Bring-up of three APs.  The behaviour ends once every AP idles or the BSP
\* hangs on an AP that never answered: those final states are not deadlocks.
\* The kernel range holds the LAPIC page and exactly three AP stacks.
CONSTANTS
    BspId = 0
    NoCpu = NoCpu
    MaxTicks = 1
    KernelUnits = 7
    StackUnits = 2
    ApIds <- MCApIds
SPECIFICATION Spec
INVARIANT TypeOK MailboxOwnedByStartingAp NoApPanics GdtLimitExact
PROPERTY IpisReachTargetOnly FailureAfterTwoSipis BringUpTerminates
CHECK_DEADLOCK FALSE
