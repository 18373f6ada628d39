------------------------ MODULE MCInterruptSpinlock -------------------------
\* Small instances of the interrupt-safe spinlock for TLC.
EXTENDS InterruptSpinlock
=============================================================================
