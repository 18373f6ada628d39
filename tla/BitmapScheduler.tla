-------------------------- MODULE BitmapScheduler --------------------------
(***************************************************************************)
(* The per-core scheduler of shawncore-rtos-sync with its watchdog gate.   *)
(* A bitmap is the set of priorities whose bit is set.  A stack pointer is *)
(* a position in the task's own stack: 1 .. StackSize lie above the canary *)
(* word and within the stack, StackSize + 1 is outside, and 0 is no        *)
(* context.  Task code and the host's timer are the environment: tasks     *)
(* check in, block and may overwrite their own canary.                     *)
(***************************************************************************)
EXTENDS Integers, FiniteSets, FiniteSetsExt

CONSTANTS
    MAX_TASKS,   \* 16
    StackSize

ASSUME SchedulerAssumption == MAX_TASKS \in Nat \ {0} /\ StackSize \in Nat \ {0}

Priorities == 0 .. MAX_TASKS - 1
Idle == MAX_TASKS - 1
Pointers == 0 .. StackSize + 1

VARIABLES
    registered,          \* priorities whose TCB has a stack base
    rsp,                 \* the saved stack pointer of each TCB
    intact,              \* priorities whose canary word is as registered
    ready_bitmap,
    current_task,
    watchdog_matrix,
    critical_task_mask,
    checked_in,          \* ghost: check-ins since the watchdog was last petted
    left_out,            \* ghost: left out by a change of the mask, no check-in since
    pets,                \* ghost: parity of the number of pets
    pet_rsp              \* ghost: the argument of the tick that last petted

schedulerVars == <<registered, rsp, intact, ready_bitmap, current_task,
          watchdog_matrix, critical_task_mask, checked_in, left_out, pets, pet_rsp>>

valid_stack_pointer(p) == p \in 1 .. StackSize

SchedulerInit ==
    /\ registered = {}
    /\ rsp = [i \in Priorities |-> 0]
    /\ intact = {}
    /\ ready_bitmap = {}
    /\ current_task = Idle
    /\ watchdog_matrix = {}
    /\ critical_task_mask = {}
    /\ checked_in = {}
    /\ left_out = {}
    /\ pets = 0
    /\ pet_rsp = 0

\* Registers a task, writes its canary and makes it ready; a taken priority
\* or a stack pointer outside the stack is refused.
create_task(i, p) ==
    /\ valid_stack_pointer(p)
    /\ i \notin registered
    /\ registered' = registered \cup {i}
    /\ rsp' = [rsp EXCEPT ![i] = p]
    /\ intact' = intact \cup {i}
    /\ ready_bitmap' = ready_bitmap \cup {i}
    /\ UNCHANGED <<current_task, watchdog_matrix, critical_task_mask, checked_in,
                   left_out, pets, pet_rsp>>

\* Takes any priority, registered or not.
set_ready(i) ==
    /\ ready_bitmap' = ready_bitmap \cup {i}
    /\ UNCHANGED <<registered, rsp, intact, current_task, watchdog_matrix,
                   critical_task_mask, checked_in, left_out, pets, pet_rsp>>

clear_ready(i) ==
    /\ ready_bitmap' = ready_bitmap \ {i}
    /\ UNCHANGED <<registered, rsp, intact, current_task, watchdog_matrix,
                   critical_task_mask, checked_in, left_out, pets, pet_rsp>>

task_check_in(i) ==
    /\ i \in registered
    /\ watchdog_matrix' = watchdog_matrix \cup {i}
    /\ checked_in' = checked_in \cup {i}
    /\ left_out' = left_out \ {i}
    /\ UNCHANGED <<registered, rsp, intact, ready_bitmap, current_task,
                   critical_task_mask, pets, pet_rsp>>

\* The mask is stored as given, unregistered priorities included.
SetMaskUnfiltered(mask) ==
    /\ critical_task_mask' = mask
    /\ watchdog_matrix' = watchdog_matrix \cap mask
    /\ left_out' = left_out \cup (Priorities \ mask)
    /\ UNCHANGED <<registered, rsp, intact, ready_bitmap, current_task, checked_in,
                   pets, pet_rsp>>

\* The check-ins of tasks that are no longer critical are kept.
SetMaskKeepsCheckIns(mask) ==
    /\ critical_task_mask' = mask \cap registered
    /\ left_out' = left_out \cup (Priorities \ critical_task_mask')
    /\ UNCHANGED <<registered, rsp, intact, ready_bitmap, current_task,
                   watchdog_matrix, checked_in, pets, pet_rsp>>

set_critical_task_mask(mask) ==
    /\ critical_task_mask' = mask \cap registered
    /\ watchdog_matrix' = watchdog_matrix \cap critical_task_mask'
    /\ left_out' = left_out \cup (Priorities \ critical_task_mask')
    /\ UNCHANGED <<registered, rsp, intact, ready_bitmap, current_task, checked_in,
                   pets, pet_rsp>>

\* The environment: a task overruns its stack.
Overflow(i) ==
    /\ i \in intact
    /\ intact' = intact \ {i}
    /\ UNCHANGED <<registered, rsp, ready_bitmap, current_task, watchdog_matrix,
                   critical_task_mask, checked_in, left_out, pets, pet_rsp>>

-----------------------------------------------------------------------------
\* schedule_tick.

\* The host passes a context and the current task has a TCB to save it in.
Saves(p) == p # 0 /\ current_task \in registered

\* The canary of the current task is not read.
CurrentUnread(p) == Saves(p) => valid_stack_pointer(p)

CurrentOK(p) == Saves(p) => valid_stack_pointer(p) /\ current_task \in intact

Selected == IF ready_bitmap = {} THEN Idle ELSE Min(ready_bitmap)

\* `saved` is the TCB array after the current context was saved.
NextOK(saved) ==
    IF Selected \in registered
    THEN valid_stack_pointer(saved[Selected]) /\ Selected \in intact
    ELSE Selected = Idle /\ Idle \notin ready_bitmap

\* One critical task is enough.
PetDueAny == critical_task_mask \cap watchdog_matrix # {}

PetDue == critical_task_mask # {} /\ critical_task_mask \subseteq watchdog_matrix

\* The pet itself, when it is due: the check-ins are cleared.
Pet(p) ==
    IF PetDue
    THEN watchdog_matrix' = {} /\ checked_in' = {} /\ pets' = 1 - pets /\ pet_rsp' = p
    ELSE UNCHANGED <<watchdog_matrix, checked_in, pets, pet_rsp>>

\* The current context is saved before it is validated.
TickSavesUnchecked(p) ==
    LET saved == IF Saves(p) THEN [rsp EXCEPT ![current_task] = p] ELSE rsp
    IN  /\ rsp' = saved
        /\ IF CurrentOK(p) /\ NextOK(saved)
           THEN Pet(p) /\ current_task' = Selected
           ELSE UNCHANGED <<watchdog_matrix, checked_in, pets, pet_rsp, current_task>>
        /\ UNCHANGED <<registered, intact, ready_bitmap, critical_task_mask, left_out>>

\* A damaged current context is reported before anything changes; a damaged
\* next task after the current context was saved; only then is the watchdog
\* petted and the task switched.
schedule_tick(p) ==
    LET saved == IF Saves(p) THEN [rsp EXCEPT ![current_task] = p] ELSE rsp
    IN  /\ CurrentOK(p)
        /\ rsp' = saved
        /\ IF NextOK(saved)
           THEN Pet(p) /\ current_task' = Selected
           ELSE UNCHANGED <<watchdog_matrix, checked_in, pets, pet_rsp, current_task>>
        /\ UNCHANGED <<registered, intact, ready_bitmap, critical_task_mask, left_out>>

SchedulerNext ==
    \/ \E i \in Priorities :
           \/ \E p \in Pointers : create_task(i, p)
           \/ set_ready(i)
           \/ clear_ready(i)
           \/ task_check_in(i)
           \/ Overflow(i)
    \/ \E mask \in SUBSET Priorities : set_critical_task_mask(mask)
    \/ \E p \in Pointers : schedule_tick(p)

SchedulerSpec == SchedulerInit /\ [][SchedulerNext]_schedulerVars

\* The timer keeps ticking with a sound context, and tasks keep checking in.
FairSchedulerSpec ==
    /\ SchedulerSpec
    /\ WF_schedulerVars(\E p \in 0 .. StackSize : schedule_tick(p))
    /\ \A i \in Priorities : WF_schedulerVars(task_check_in(i) /\ watchdog_matrix' # watchdog_matrix)

-----------------------------------------------------------------------------
\* Every field keeps its type; every registered task has a saved stack
\* pointer inside its own stack, so a context handed back by schedule_tick is
\* always one the host may resume (create_task and schedule_tick validate
\* before they store).
SchedulerTypeOK ==
    /\ registered \subseteq Priorities
    /\ rsp \in [Priorities -> Pointers]
    /\ intact \subseteq registered
    /\ ready_bitmap \subseteq Priorities
    /\ current_task \in Priorities
    /\ watchdog_matrix \subseteq Priorities
    /\ critical_task_mask \subseteq Priorities
    /\ checked_in \subseteq Priorities
    /\ left_out \subseteq Priorities
    /\ pets \in {0, 1}
    /\ pet_rsp \in Pointers
    /\ \A i \in registered : valid_stack_pointer(rsp[i])

\* The watchdog is petted only when every critical task has checked in since
\* the last pet, although the mask may have been changed any number of times in
\* between (set_critical_task_mask, schedule_tick).
PetEarned ==
    [][pets' # pets => critical_task_mask # {} /\ critical_task_mask \subseteq checked_in]_schedulerVars

\* A tick that pets the watchdog was given a sound context: when it suspends a
\* task, the pointer it was passed lies in that task's stack and the task's canary
\* is intact; and the task it resumes is registered and undamaged, or nothing is
\* ready and the idle slot is empty.  A fault never refreshes the watchdog (the
\* comment before host_pet_watchdog in schedule_tick).
FaultNeverPets ==
    [][pets' # pets =>
           /\ pet_rsp' # 0 /\ current_task \in registered =>
                  valid_stack_pointer(pet_rsp') /\ current_task \in intact
           /\ current_task' \in registered => current_task' \in intact
           /\ current_task' \notin registered =>
                  current_task' = Idle /\ ready_bitmap = {}]_schedulerVars

\* A task that a change of the mask left out has to check in again before it
\* counts: if a later change makes it critical once more, a check-in from before
\* it was left out does not earn a pet (the last line of
\* set_critical_task_mask drops it).
ReadmittedChecksIn ==
    [][pets' # pets => critical_task_mask \cap left_out = {}]_schedulerVars

\* No check-in that is owed is impossible: a critical task is a registered one.
\* When the mask no longer changes, no stack is damaged and only registered
\* tasks are made ready, the watchdog is petted again and again
\* (set_critical_task_mask keeps registered priorities only).
WatchdogServed ==
    \A mask \in (SUBSET Priorities) \ {{}} :
        <>[](/\ critical_task_mask = mask
             /\ intact = registered
             /\ ready_bitmap \subseteq registered)
            => []<><<pets' # pets>>_schedulerVars
=============================================================================
