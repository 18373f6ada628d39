------------------------- MODULE MCBitmapScheduler --------------------------
\* Small instances of the scheduler for TLC.
EXTENDS BitmapScheduler

CONSTANT MaxTasks

\* The host creates at most MaxTasks tasks, in any of the slots.
FewTasks == Cardinality(registered) <= MaxTasks
=============================================================================
