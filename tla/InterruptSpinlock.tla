------------------------- MODULE InterruptSpinlock -------------------------
(***************************************************************************)
(* InterruptSafeSpinlock of shawncore-rtos-sync, and CryptoSpinlock of     *)
(* shawncore-pq-crypto, which is the same code: a test-and-set lock taken  *)
(* with the core's interrupts disabled.  Every core has a thread and an    *)
(* interrupt service routine (ISR) that preempts it whenever interrupts    *)
(* are enabled; both use the lock.                                         *)
(*                                                                         *)
(* Interrupts are disabled and restored through callbacks the host         *)
(* registers (ffi_callbacks.rs).  A context that needs a callback that is  *)
(* not there runs the panic hook of its crate and spins for ever.  A Rust  *)
(* panic runs the hooks of both crates, once, and spins (shawncore-ffi).   *)
(* The interrupt controller and the host's code are the environment.       *)
(***************************************************************************)
EXTENDS Naturals, Sequences

CONSTANTS
    Cores,
    Crate,        \* "rtos" or "crypto", the crate of the lock
    Registries    \* bound: the registries the host sets; the others stay null

Contexts == {"thread", "isr"}
PanicHook(crate) == IF crate = "crypto" THEN "crypto_panic_hook" ELSE "rtos_panic_hook"

VARIABLES
    locked,       \* the AtomicBool
    enabled,      \* are the core's interrupts enabled
    active,       \* the context the core executes
    spin_pc,      \* the step a context is at
    saved_flags,  \* what disable_and_save returned
    callbacks,    \* the registries that are not null
    panicking,    \* PANIC_IN_PROGRESS
    hooks,        \* ghost: the hooks the panic handler has called
    wanted        \* ghost: the interrupt state the running context set itself

lockVars == <<locked, enabled, active, saved_flags>>
hostVars == <<callbacks, panicking, hooks>>
spinVars == <<lockVars, spin_pc, hostVars, wanted>>

SpinInit ==
    /\ locked = FALSE
    /\ enabled = [c \in Cores |-> TRUE]
    /\ active = [c \in Cores |-> "thread"]
    /\ spin_pc = [c \in Cores |-> [x \in Contexts |-> "idle"]]
    /\ saved_flags = [c \in Cores |-> [x \in Contexts |-> FALSE]]
    /\ callbacks = {}
    /\ panicking = FALSE
    /\ hooks = <<>>
    /\ wanted = [c \in Cores |-> [x \in Contexts |-> x = "thread"]]

At(c, x, step) == active[c] = x /\ spin_pc[c][x] = step
SpinGoto(c, x, step) == spin_pc' = [spin_pc EXCEPT ![c][x] = step]

-----------------------------------------------------------------------------
\* The shawncore_*_register_* functions.  By the contract of the registries nothing is
\* under way that could use the old pointer.
Quiescent == \A c \in Cores, x \in Contexts : spin_pc[c][x] \in {"idle", "halted"}

Register(r, present) ==
    /\ Quiescent
    /\ callbacks' = IF present THEN callbacks \cup {r} ELSE callbacks \ {r}
    /\ UNCHANGED <<lockVars, spin_pc, panicking, hooks, wanted>>

\* host_read_monotonic_clock, host_cache_invalidate, host_cache_flush, host_pet_watchdog,
\* outside the lock.  The host's function runs and returns, which changes nothing here,
\* or there is none.
HostCall(c, x, r) ==
    /\ At(c, x, "idle")
    /\ r \notin callbacks
    /\ SpinGoto(c, x, "missing")
    /\ UNCHANGED <<lockVars, hostVars, wanted>>

\* invoke_panic_hook of the crate, then the endless loop.
Halt(c, x) ==
    /\ At(c, x, "missing")
    /\ SpinGoto(c, x, "halted")
    /\ UNCHANGED <<lockVars, hostVars, wanted>>

-----------------------------------------------------------------------------
\* lock: HostInterruptContext::disable_and_save.
disable_and_save(c, x) ==
    /\ saved_flags' = [saved_flags EXCEPT ![c][x] = enabled[c]]
    /\ enabled' = [enabled EXCEPT ![c] = FALSE]

\* Without a callback the lock is taken all the same, with flags nobody saved.
LockSilently(c, x) ==
    /\ At(c, x, "idle")
    /\ IF "disable_interrupts" \in callbacks
       THEN disable_and_save(c, x)
       ELSE saved_flags' = [saved_flags EXCEPT ![c][x] = FALSE] /\ UNCHANGED enabled
    /\ SpinGoto(c, x, "spin")
    /\ UNCHANGED <<locked, active, hostVars, wanted>>

Lock(c, x) ==
    /\ At(c, x, "idle")
    /\ IF "disable_interrupts" \in callbacks
       THEN disable_and_save(c, x) /\ SpinGoto(c, x, "spin")
       ELSE SpinGoto(c, x, "missing") /\ UNCHANGED <<enabled, saved_flags>>
    /\ UNCHANGED <<locked, active, hostVars, wanted>>

\* The lock word is not looked at before it is taken.
AcquireBlindly(c, x) ==
    /\ At(c, x, "spin")
    /\ locked' = TRUE
    /\ SpinGoto(c, x, "held")
    /\ UNCHANGED <<enabled, active, saved_flags, hostVars, wanted>>

\* The exchange that succeeds; a failed one spins.
Acquire(c, x) ==
    /\ At(c, x, "spin")
    /\ ~ locked
    /\ locked' = TRUE
    /\ SpinGoto(c, x, "held")
    /\ UNCHANGED <<enabled, active, saved_flags, hostVars, wanted>>

\* The flags are restored first; the lock is released when that has returned.
RestoreFirst(c, x) ==
    /\ At(c, x, "held")
    /\ IF "restore_interrupts" \in callbacks
       THEN /\ locked' = FALSE
            /\ SpinGoto(c, x, "restore")
       ELSE SpinGoto(c, x, "missing") /\ UNCHANGED locked
    /\ UNCHANGED <<enabled, active, saved_flags, hostVars, wanted>>

\* drop of the guard: the lock is released first ...
Unlock(c, x) ==
    /\ At(c, x, "held")
    /\ locked' = FALSE
    /\ SpinGoto(c, x, "restore")
    /\ UNCHANGED <<enabled, active, saved_flags, hostVars, wanted>>

\* Interrupts are enabled, whatever they were before.
RestoreEnabled(c, x) ==
    /\ At(c, x, "restore")
    /\ enabled' = [enabled EXCEPT ![c] = TRUE]
    /\ SpinGoto(c, x, "idle")
    /\ UNCHANGED <<locked, active, saved_flags, hostVars, wanted>>

\* ... and the saved flags are restored after it (HostInterruptContext::restore).
Restore(c, x) ==
    /\ At(c, x, "restore")
    /\ IF "restore_interrupts" \in callbacks
       THEN enabled' = [enabled EXCEPT ![c] = saved_flags[c][x]] /\ SpinGoto(c, x, "idle")
       ELSE SpinGoto(c, x, "missing") /\ UNCHANGED enabled
    /\ UNCHANGED <<locked, active, saved_flags, hostVars, wanted>>

-----------------------------------------------------------------------------
\* Rust code panics: in the critical section, or called back by a hook.
Panics(c, x) ==
    /\ active[c] = x
    /\ \/ spin_pc[c][x] = "held"
       \/ spin_pc[c][x] = "missing" /\ PanicHook(Crate) \in callbacks
       \/ \E crate \in {"crypto", "rtos"} :
              spin_pc[c][x] = PanicHook(crate) /\ PanicHook(crate) \in callbacks

\* Every panic runs the hooks.
PanicAgain(c, x) ==
    /\ Panics(c, x)
    /\ panicking' = TRUE
    /\ SpinGoto(c, x, PanicHook("crypto"))
    /\ UNCHANGED <<lockVars, callbacks, hooks, wanted>>

\* panic: begin_panic lets the first one through.
Panic(c, x) ==
    /\ Panics(c, x)
    /\ panicking' = TRUE
    /\ SpinGoto(c, x, IF panicking THEN "halted" ELSE PanicHook("crypto"))
    /\ UNCHANGED <<lockVars, callbacks, hooks, wanted>>

\* The handler calls the hook of the crate, if there is one; it returns.
invoke_panic_hook(c, x, crate) ==
    /\ At(c, x, PanicHook(crate))
    /\ hooks' = IF PanicHook(crate) \in callbacks THEN Append(hooks, crate) ELSE hooks
    /\ SpinGoto(c, x, IF crate = "crypto" THEN PanicHook("rtos") ELSE "halted")
    /\ UNCHANGED <<lockVars, callbacks, panicking, wanted>>

-----------------------------------------------------------------------------
\* External: an interrupt is taken, with interrupts disabled meanwhile.
Interrupt(c) ==
    /\ active[c] = "thread" /\ enabled[c]
    /\ active' = [active EXCEPT ![c] = "isr"]
    /\ enabled' = [enabled EXCEPT ![c] = FALSE]
    /\ UNCHANGED <<locked, spin_pc, saved_flags, hostVars, wanted>>

ReturnFromInterrupt(c) ==
    /\ At(c, "isr", "idle")
    /\ active' = [active EXCEPT ![c] = "thread"]
    /\ enabled' = [enabled EXCEPT ![c] = TRUE]
    /\ UNCHANGED <<locked, spin_pc, saved_flags, hostVars, wanted>>

\* External: host code of the thread masks or unmasks interrupts, outside the lock.
Mask(c) ==
    /\ At(c, "thread", "idle")
    /\ wanted' = [wanted EXCEPT ![c]["thread"] = ~ @]
    /\ enabled' = [enabled EXCEPT ![c] = wanted'[c]["thread"]]
    /\ UNCHANGED <<locked, active, spin_pc, saved_flags, hostVars>>

\* What a context does by itself once it has called.
ContextStep(c, x) ==
    \/ Acquire(c, x) \/ Unlock(c, x) \/ Restore(c, x)
    \/ Halt(c, x)
    \/ \E crate \in {"crypto", "rtos"} : invoke_panic_hook(c, x, crate)

SpinNext ==
    \/ \E r \in Registries, present \in BOOLEAN : Register(r, present)
    \/ \E c \in Cores :
           \/ \E x \in Contexts :
                  \/ Lock(c, x) \/ ContextStep(c, x) \/ Panic(c, x)
                  \/ \E r \in {"read_monotonic_clock", "cache_invalidate",
                             "cache_flush", "pet_watchdog"} : HostCall(c, x, r)
           \/ Interrupt(c)
           \/ ReturnFromInterrupt(c)
           \/ Mask(c)

SpinSpec == SpinInit /\ [][SpinNext]_spinVars

\* A core keeps executing the code of its running context, and an ISR that has
\* nothing left to do returns.  Nothing is assumed about who wins the exchange.
FairSpinSpec ==
    /\ SpinSpec
    /\ \A c \in Cores :
           /\ WF_spinVars(ReturnFromInterrupt(c))
           /\ \A x \in Contexts : WF_spinVars(ContextStep(c, x))

-----------------------------------------------------------------------------
Steps == {"idle", "spin", "held", "restore", "missing", "halted",
          "crypto_panic_hook", "rtos_panic_hook"}

\* Every core runs one context, and every context is at one step of lock, drop or a panic.
SpinTypeOK ==
    /\ locked \in BOOLEAN
    /\ enabled \in [Cores -> BOOLEAN]
    /\ active \in [Cores -> Contexts]
    /\ spin_pc \in [Cores -> [Contexts -> Steps]]
    /\ saved_flags \in [Cores -> [Contexts -> BOOLEAN]]
    /\ callbacks \subseteq Registries
    /\ panicking \in BOOLEAN
    /\ hooks \in Seq({"crypto", "rtos"})
    /\ wanted \in [Cores -> [Contexts -> BOOLEAN]]

Holds(c, x) == spin_pc[c][x] = "held"

\* At most one context of one core holds the lock (lock, compare_exchange_weak).
MutualExclusion ==
    \A c, d \in Cores, x, y \in Contexts :
        Holds(c, x) /\ Holds(d, y) => c = d /\ x = y

\* No context is in the critical section with its interrupts enabled, whichever callbacks
\* the host has registered: a missing one never fails silently (disable_and_save).
InterruptsOff == \A c \in Cores, x \in Contexts : Holds(c, x) => ~ enabled[c]

\* Outside the lock a context finds interrupts as it left them, whether they
\* were enabled or already disabled when it called lock (SpinlockGuard::drop).
FlagsRestored ==
    \A c \in Cores : spin_pc[c][active[c]] = "idle" => enabled[c] = wanted[c][active[c]]

\* The lock does not stay taken unless there was a panic: an ISR never runs on top of the
\* holder it would have to wait for, and a core that halts for want of a callback has
\* released the lock (lock, SpinlockGuard::drop).
LockReleased == locked ~> ~ locked \/ panicking

\* The panic handler calls each hook at most once and the one of the crypto crate first,
\* although cores panic together and a hook may panic itself (begin_panic).
HooksOnce ==
    \A i, j \in 1 .. Len(hooks) : i < j => hooks[i] = "crypto" /\ hooks[j] = "rtos"
=============================================================================
