\* Two cores, each with a thread and an interrupt service routine; the host registers and
\* removes the callbacks of the lock and the panic hooks, and never registers the others.
CONSTANTS
    c1 = c1
    c2 = c2
    Cores = {c1, c2}
    Crate = "rtos"
    Registries = {"disable_interrupts", "restore_interrupts", "crypto_panic_hook", "rtos_panic_hook"}
\* When every context has halted, nothing happens any more.
CHECK_DEADLOCK FALSE
SPECIFICATION FairSpinSpec
INVARIANTS
    MutualExclusion
    InterruptsOff
    FlagsRestored
    HooksOnce
PROPERTY
    LockReleased
