\* Two priorities and the idle slot, at most two of them with a task; two
\* usable stack positions, so that a saved context can differ from the one before.
CONSTANTS
    MAX_TASKS = 3
    StackSize = 2
    MaxTasks = 2
SPECIFICATION FairSchedulerSpec
CONSTRAINT FewTasks
INVARIANT
    SchedulerTypeOK
PROPERTIES
    PetEarned
    FaultNeverPets
    ReadmittedChecksIn
PROPERTY WatchdogServed
