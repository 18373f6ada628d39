--------------------------- MODULE RtosSyncProofs ---------------------------
(***************************************************************************)
(* The enclave state machine, the scheduler and the interrupt-safe         *)
(* spinlock of shawncore-rtos-sync (the lock with the panic handler), for  *)
(* any number of threads, transitions, cores and priorities, any stack     *)
(* size and whichever callbacks the host registers and removes.            *)
(***************************************************************************)
EXTENDS StateMachine, BitmapScheduler, InterruptSpinlock, TLAPS,
        WellFoundedInduction

-----------------------------------------------------------------------------
\* The state machine.

\* A call that is about to exchange has judged its transition valid, from the value it
\* will compare with: the exchange needs no second look.
MachineInv ==
    /\ MachineTypeOK
    /\ \A t \in Callers : machine_pc[t] = "exchange" => valid(current[t], target[t])
    /\ ReportedTransitionsChain

\* What a call does with a value it read keeps the invariant.
LEMMA JudgePreserves ==
    ASSUME MachineInv, NEW t \in Callers, Judge(t, current_state),
           UNCHANGED <<current_state, advances>>
    PROVE  MachineInv'
  <1>1. MachineTypeOK'
    <2>1. current_state \in States /\ 0 \in States
      BY DEF MachineInv, MachineTypeOK, States
    <2>2. CASE valid(current_state, target[t])
      BY <2>1, <2>2 DEF MachineInv, MachineTypeOK, Judge
    <2>3. CASE ~ valid(current_state, target[t])
      BY <2>1, <2>3 DEF MachineInv, MachineTypeOK, Judge
    <2> QED  BY <2>2, <2>3
  <1>2. \A u \in Callers : machine_pc'[u] = "exchange" => valid(current'[u], target'[u])
    BY DEF MachineInv, MachineTypeOK, Judge
  <1>3. ReportedTransitionsChain'
    BY DEF MachineInv, ReportedTransitionsChain
  <1> QED  BY <1>1, <1>2, <1>3 DEF MachineInv

\* A successful exchange extends the chain by the step it has judged.
LEMMA ExchangePreserves ==
    ASSUME MachineInv, NEW t \in Callers, Exchange(t)
    PROVE  MachineInv'
  <1> DEFINE step == [from |-> current[t], to |-> target[t]]
  <1>1. /\ advances \in Seq([from : States, to : States])
        /\ step \in [from : States, to : States]
        /\ advances' = Append(advances, step)
        /\ current_state' = target[t] /\ current_state = current[t]
        /\ valid(step.from, step.to)
    BY DEF MachineInv, MachineTypeOK, Exchange
  <1>2. MachineTypeOK'
    BY <1>1 DEF MachineInv, MachineTypeOK, Exchange, States
  <1>3. \A u \in Callers : machine_pc'[u] = "exchange" => valid(current'[u], target'[u])
    BY DEF MachineInv, MachineTypeOK, Exchange
  <1>4. /\ Len(advances') = Len(advances) + 1 /\ Len(advances) \in Nat
        /\ \A i \in 1 .. Len(advances) : advances'[i] = advances[i]
        /\ advances'[Len(advances) + 1] = step
        /\ advances' # <<>>
    BY <1>1
  <1>5. step.from = IF Len(advances) + 1 = 1 THEN 0 ELSE advances'[Len(advances) + 1 - 1].to
    <2>1. current_state = IF advances = <<>> THEN 0 ELSE advances[Len(advances)].to
      BY DEF MachineInv, ReportedTransitionsChain
    <2>2. advances = <<>> <=> Len(advances) = 0
      BY <1>1
    <2> QED  BY <1>1, <1>4, <2>1, <2>2
  <1>6. \A i \in 1 .. Len(advances') :
           /\ valid(advances'[i].from, advances'[i].to)
           /\ advances'[i].from = IF i = 1 THEN 0 ELSE advances'[i - 1].to
    <2>1. SUFFICES ASSUME NEW i \in 1 .. Len(advances) + 1
                   PROVE  /\ valid(advances'[i].from, advances'[i].to)
                          /\ advances'[i].from = IF i = 1 THEN 0 ELSE advances'[i - 1].to
      BY <1>4
    <2>2. CASE i = Len(advances) + 1
      BY <1>1, <1>4, <1>5, <2>2
    <2>3. CASE i # Len(advances) + 1
      <3>1. i \in 1 .. Len(advances) /\ (i # 1 => i - 1 \in 1 .. Len(advances))
        BY <1>4, <2>3
      <3>2. /\ valid(advances[i].from, advances[i].to)
            /\ advances[i].from = IF i = 1 THEN 0 ELSE advances[i - 1].to
        BY <3>1 DEF MachineInv, ReportedTransitionsChain
      <3> QED  BY <1>4, <3>1, <3>2
    <2> QED  BY <2>2, <2>3
  <1>7. current_state' = IF advances' = <<>> THEN 0 ELSE advances'[Len(advances')].to
    BY <1>1, <1>4
  <1> QED  BY <1>2, <1>3, <1>6, <1>7 DEF MachineInv, ReportedTransitionsChain

\* The transitions reported Ok form one path of valid transitions to the current state,
\* for every number of threads and every interleaving of their calls of try_advance.
THEOREM TransitionsChain == MachineSpec => []ReportedTransitionsChain
  <1>1. MachineInit => MachineInv
    BY DEF MachineInit, MachineInv, MachineTypeOK, States,
           ReportedTransitionsChain
  <1>2. MachineInv /\ [MachineNext]_machineVars => MachineInv'
    <2>1. SUFFICES ASSUME MachineInv, [MachineNext]_machineVars PROVE MachineInv'
      OBVIOUS
    <2>2. ASSUME NEW t \in Callers, NEW s \in States, Call(t, s) PROVE MachineInv'
      BY <2>1, <2>2 DEF MachineInv, MachineTypeOK, Call, ReportedTransitionsChain
    <2>3. ASSUME NEW t \in Callers, Load(t) \/ ExchangeFails(t) PROVE MachineInv'
      BY <2>1, <2>3, JudgePreserves DEF Load, ExchangeFails
    <2>4. ASSUME NEW t \in Callers, Exchange(t) PROVE MachineInv'
      BY <2>1, <2>4, ExchangePreserves
    <2>5. CASE UNCHANGED machineVars
      BY <2>1, <2>5 DEF machineVars, MachineInv, MachineTypeOK, ReportedTransitionsChain
    <2> QED  BY <2>1, <2>2, <2>3, <2>4, <2>5 DEF MachineNext, try_advance
  <1>3. MachineInv => ReportedTransitionsChain
    BY DEF MachineInv
  <1> QED  BY <1>1, <1>2, <1>3, PTL DEF MachineSpec

-----------------------------------------------------------------------------
\* The scheduler and its watchdog gate.

\* A set of priorities that is not empty has a least element, and Min is it.
LEMMA MostUrgent ==
    ASSUME NEW S \in SUBSET Nat, S # {}
    PROVE  Min(S) \in S /\ \A i \in S : Min(S) <= i
  <1>1. PICK x \in S : \A y \in S : ~(<<y, x>> \in OpToRel(<, Nat))
    BY NatLessThanWellFounded, WFMin, Zenon
  <1>2. \A y \in S : ~(y < x)
    BY <1>1, Zenon DEF OpToRel
  <1>3. \A y \in S : x <= y
    BY <1>2
  <1> QED  BY <1>3, Zenon DEF Min

\* The watchdog's bits are check-ins since the last pet, none of them made before
\* the task was left out of the mask; and a critical task can check in.
SchedInv ==
    /\ SchedulerTypeOK
    /\ watchdog_matrix \subseteq checked_in
    /\ watchdog_matrix \cap left_out = {}
    /\ critical_task_mask \subseteq registered

LEMMA PriorityFacts ==
    Idle \in Priorities /\ Priorities \subseteq Nat /\ 0 \in Pointers
  BY SchedulerAssumption DEF Idle, Priorities, Pointers

\* The task a tick selects: the most urgent ready one, or the idle task.
LEMMA SelectedTask ==
    ASSUME SchedulerTypeOK
    PROVE  /\ Selected \in Priorities
           /\ ready_bitmap # {} => Selected \in ready_bitmap
                                   /\ \A i \in ready_bitmap : Selected <= i
           /\ ready_bitmap = {} => Selected = Idle
  <1>1. ready_bitmap \subseteq Priorities /\ ready_bitmap \in SUBSET Nat
    BY PriorityFacts DEF SchedulerTypeOK
  <1>2. CASE ready_bitmap = {}
    BY <1>2, PriorityFacts DEF Selected
  <1>3. CASE ready_bitmap # {}
    <2>1. /\ Min(ready_bitmap) \in ready_bitmap
          /\ \A i \in ready_bitmap : Min(ready_bitmap) <= i
      BY <1>1, <1>3, MostUrgent
    <2> QED  BY <1>1, <1>3, <2>1, Zenon DEF Selected
  <1> QED  BY <1>2, <1>3

\* What a tick does, whichever way it ends.
LEMMA TickEffect ==
    ASSUME SchedulerTypeOK, NEW p \in Pointers, schedule_tick(p)
    PROVE  /\ UNCHANGED <<registered, intact, ready_bitmap, critical_task_mask, left_out>>
           /\ rsp' \in [Priorities -> Pointers]
           /\ \A i \in registered : valid_stack_pointer(rsp'[i])
           /\ \/ /\ PetDue
                 /\ watchdog_matrix' = {} /\ checked_in' = {} /\ pets' = 1 - pets
                 /\ pet_rsp' = p
                 /\ current_task' = Selected
                 /\ Saves(p) => valid_stack_pointer(p) /\ current_task \in intact
                 /\ Selected \in registered => Selected \in intact
                 /\ Selected \notin registered =>
                        Selected = Idle /\ Idle \notin ready_bitmap
              \/ /\ UNCHANGED <<watchdog_matrix, checked_in, pets, pet_rsp>>
                 /\ current_task' \in {current_task, Selected}
  <1> DEFINE saved == IF Saves(p) THEN [rsp EXCEPT ![current_task] = p] ELSE rsp
             goes == NextOK(saved)
  <1>1. /\ CurrentOK(p)
        /\ rsp' = saved
        /\ IF goes
           THEN Pet(p) /\ current_task' = Selected
           ELSE UNCHANGED <<watchdog_matrix, checked_in, pets, pet_rsp, current_task>>
        /\ UNCHANGED <<registered, intact, ready_bitmap, critical_task_mask, left_out>>
    BY DEF schedule_tick
  <1>2. Saves(p) => valid_stack_pointer(p) /\ current_task \in intact
    BY <1>1 DEF CurrentOK
  <1>3. /\ saved \in [Priorities -> Pointers]
        /\ \A i \in registered : valid_stack_pointer(saved[i])
    BY <1>2 DEF SchedulerTypeOK
  <1>4. goes => IF Selected \in registered THEN Selected \in intact
                ELSE Selected = Idle /\ Idle \notin ready_bitmap
    BY DEF NextOK
  <1> HIDE DEF goes, saved
  <1>5. CASE goes /\ PetDue
    BY <1>1, <1>2, <1>3, <1>4, <1>5 DEF Pet
  <1>6. CASE ~(goes /\ PetDue)
    BY <1>1, <1>3, <1>6 DEF Pet
  <1> QED  BY <1>5, <1>6

\* Every call keeps the invariant.
LEMMA SchedPreserves == SchedInv /\ [SchedulerNext]_schedulerVars => SchedInv'
  <1> SUFFICES ASSUME SchedInv, [SchedulerNext]_schedulerVars PROVE SchedInv'
    OBVIOUS
  <1>1. SchedulerTypeOK
    BY DEF SchedInv
  <1>2. ASSUME NEW i \in Priorities, NEW p \in Pointers, create_task(i, p)
        PROVE  SchedInv'
    <2>1. SchedulerTypeOK'
      BY <1>1, <1>2 DEF SchedulerTypeOK, create_task
    <2> QED  BY <1>2, <2>1 DEF SchedInv, create_task
  <1>3. ASSUME NEW i \in Priorities,
               \/ set_ready(i) \/ clear_ready(i)
               \/ task_check_in(i) \/ Overflow(i)
        PROVE  SchedInv'
    BY <1>3 DEF SchedInv, SchedulerTypeOK, set_ready, clear_ready,
                task_check_in, Overflow
  <1>4. ASSUME NEW mask \in SUBSET Priorities, set_critical_task_mask(mask)
        PROVE  SchedInv'
    BY <1>4 DEF SchedInv, SchedulerTypeOK, set_critical_task_mask
  <1>5. ASSUME NEW p \in Pointers, schedule_tick(p) PROVE SchedInv'
    <2>1. /\ UNCHANGED <<registered, intact, ready_bitmap, critical_task_mask, left_out>>
          /\ rsp' \in [Priorities -> Pointers]
          /\ \A i \in registered : valid_stack_pointer(rsp'[i])
          /\ \/ /\ watchdog_matrix' = {} /\ checked_in' = {} /\ pets' = 1 - pets
                /\ pet_rsp' = p
             \/ UNCHANGED <<watchdog_matrix, checked_in, pets, pet_rsp>>
          /\ current_task' \in Priorities
      BY <1>1, <1>5, TickEffect, SelectedTask DEF SchedulerTypeOK
    <2>2. pets' \in {0, 1}
      BY <1>1, <2>1 DEF SchedulerTypeOK
    <2> QED  BY <2>1, <2>2 DEF SchedInv, SchedulerTypeOK
  <1>6. CASE UNCHANGED schedulerVars
    BY <1>6 DEF schedulerVars, SchedInv, SchedulerTypeOK
  <1> QED  BY <1>2, <1>3, <1>4, <1>5, <1>6 DEF SchedulerNext

LEMMA SchedulerInvariant == SchedulerSpec => []SchedInv
  <1>1. SchedulerInit => SchedInv
    BY PriorityFacts DEF SchedulerInit, SchedInv, SchedulerTypeOK
  <1> QED  BY <1>1, SchedPreserves, PTL DEF SchedulerSpec

\* For every number of priorities and stack size: whatever tasks and host do, a
\* registered task has a saved context inside its own stack.
THEOREM ContextsValid == SchedulerSpec => []SchedulerTypeOK
  <1>1. SchedInv => SchedulerTypeOK
    BY DEF SchedInv
  <1> QED  BY <1>1, SchedulerInvariant, PTL

\* Only a tick pets the watchdog.
LEMMA OnlyTicks ==
    ASSUME SchedulerNext, pets' # pets
    PROVE  \E p \in Pointers : schedule_tick(p)
  BY DEF SchedulerNext, create_task, set_ready, clear_ready,
         task_check_in, Overflow, set_critical_task_mask

\* For every number of priorities: the watchdog is petted only when every critical task
\* has checked in since the last pet, however the mask was changed in between.
THEOREM PetsAreEarned == SchedulerSpec => PetEarned
  <1>1. SchedInv /\ [SchedulerNext]_schedulerVars =>
            [pets' # pets =>
               critical_task_mask # {} /\ critical_task_mask \subseteq checked_in]_schedulerVars
    <2> SUFFICES ASSUME SchedInv, SchedulerNext, pets' # pets
                 PROVE  critical_task_mask # {} /\ critical_task_mask \subseteq checked_in
      OBVIOUS
    <2>1. PICK p \in Pointers : schedule_tick(p)
      BY OnlyTicks
    <2>2. PetDue
      BY <2>1, TickEffect DEF SchedInv
    <2> QED  BY <2>2 DEF SchedInv, PetDue
  <1> QED  BY <1>1, SchedulerInvariant, PTL DEF SchedulerSpec, PetEarned

\* For every number of priorities and stack size: a tick that is passed a context
\* outside the current task's stack, or finds the canary of the task it suspends or
\* resumes overwritten, or a ready priority with no task, does not pet the watchdog.
THEOREM FaultsNeverPet == SchedulerSpec => FaultNeverPets
  <1>1. SchedInv /\ [SchedulerNext]_schedulerVars =>
            [pets' # pets =>
               /\ pet_rsp' # 0 /\ current_task \in registered =>
                      valid_stack_pointer(pet_rsp') /\ current_task \in intact
               /\ current_task' \in registered => current_task' \in intact
               /\ current_task' \notin registered =>
                      current_task' = Idle /\ ready_bitmap = {}]_schedulerVars
    <2> SUFFICES ASSUME SchedInv, SchedulerNext, pets' # pets
                 PROVE  /\ pet_rsp' # 0 /\ current_task \in registered =>
                               valid_stack_pointer(pet_rsp') /\ current_task \in intact
                        /\ current_task' \in registered => current_task' \in intact
                        /\ current_task' \notin registered =>
                               current_task' = Idle /\ ready_bitmap = {}
      OBVIOUS
    <2>1. PICK p \in Pointers : schedule_tick(p)
      BY OnlyTicks
    <2>2. SchedulerTypeOK
      BY DEF SchedInv
    <2>3. /\ pet_rsp' = p
          /\ Saves(p) => valid_stack_pointer(p) /\ current_task \in intact
          /\ current_task' = Selected
          /\ Selected \in registered => Selected \in intact
          /\ Selected \notin registered =>
                 Selected = Idle /\ Idle \notin ready_bitmap
      BY <2>1, <2>2, TickEffect
    <2>4. ready_bitmap # {} => Selected \in ready_bitmap
      BY <2>2, SelectedTask
    <2> QED  BY <2>3, <2>4 DEF Saves
  <1> QED  BY <1>1, SchedulerInvariant, PTL DEF SchedulerSpec, FaultNeverPets

\* For every number of priorities: a task that a change of the mask left out earns
\* no pet, once it is critical again, with a check-in from before that change.
THEOREM ReadmittedTasksCheckIn == SchedulerSpec => ReadmittedChecksIn
  <1>1. SchedInv /\ [SchedulerNext]_schedulerVars =>
            [pets' # pets => critical_task_mask \cap left_out = {}]_schedulerVars
    <2> SUFFICES ASSUME SchedInv, SchedulerNext, pets' # pets
                 PROVE  critical_task_mask \cap left_out = {}
      OBVIOUS
    <2>1. PICK p \in Pointers : schedule_tick(p)
      BY OnlyTicks
    <2>2. PetDue
      BY <2>1, TickEffect DEF SchedInv
    <2> QED  BY <2>2 DEF SchedInv, PetDue
  <1> QED  BY <1>1, SchedulerInvariant, PTL DEF SchedulerSpec, ReadmittedChecksIn

-----------------------------------------------------------------------------
\* The spinlock, the registries and the panic handler.

Critical == {"spin", "held", "restore"}

\* A context between disable_and_save and restore runs, with interrupts off and the flags
\* it found saved.  Hence nothing preempts it, and a preempted thread is not in there.
Protected ==
    \A c \in Cores, x \in Contexts :
        spin_pc[c][x] \in Critical =>
            active[c] = x /\ ~ enabled[c] /\ saved_flags[c][x] = wanted[c][x]

\* What the interrupt controller relies on: a service routine starts from its beginning,
\* leaves the mask alone, and comes back to a thread that had interrupts enabled.
Preemption ==
    \A c \in Cores :
        /\ ~ wanted[c]["isr"]
        /\ active[c] = "thread" => spin_pc[c]["isr"] = "idle"
        /\ active[c] = "isr" /\ spin_pc[c]["thread"] = "idle" => wanted[c]["thread"]

LockInv ==
    /\ SpinTypeOK
    /\ \A c \in Cores, x \in Contexts : Holds(c, x) => locked
    /\ MutualExclusion
    /\ Protected
    /\ Preemption
    /\ FlagsRestored

\* What a step of context x of core c leaves alone: everything of the others.
Alone(c, x) ==
    /\ active' = active /\ wanted' = wanted
    /\ \A d \in Cores, y \in Contexts :
           d # c \/ y # x => spin_pc'[d][y] = spin_pc[d][y] /\ saved_flags'[d][y] = saved_flags[d][y]
    /\ \A d \in Cores : d # c => enabled'[d] = enabled[d]

\* And what it has to see to itself: interrupts off and the flags saved where that is
\* needed, the flags back where it ends, the lock taken only when free and given back only
\* by its holder.
Proper(c, x) ==
    /\ spin_pc'[c][x] \in Critical => ~ enabled'[c] /\ saved_flags'[c][x] = wanted[c][x]
    /\ spin_pc'[c][x] = "idle" => enabled'[c] = wanted[c][x]
    /\ spin_pc'[c][x] = "held" => locked' /\ ~ locked
    /\ ~ locked' => ~ locked \/ Holds(c, x)

LEMMA CriticalStepPreserves ==
    ASSUME LockInv, SpinTypeOK', NEW c \in Cores, NEW x \in Contexts, active[c] = x,
           Alone(c, x), Proper(c, x)
    PROVE  LockInv'
  <1>1. (\A d \in Cores, y \in Contexts : Holds(d, y) => locked)'
    BY DEF LockInv, Alone, Proper, MutualExclusion, Holds
  <1>2. MutualExclusion'
    BY DEF LockInv, Alone, Proper, MutualExclusion, Holds
  <1>3. Protected'
    BY DEF LockInv, Alone, Proper, Protected, Contexts
  <1>4. Preemption'
    BY DEF LockInv, Alone, Preemption, Contexts
  <1>5. FlagsRestored'
    <2>1. SUFFICES ASSUME NEW d \in Cores, spin_pc'[d][active'[d]] = "idle"
                   PROVE  enabled'[d] = wanted'[d][active'[d]]
      BY DEF FlagsRestored
    <2>2. active' = active /\ wanted' = wanted /\ active[d] \in Contexts
      BY DEF LockInv, SpinTypeOK, Alone
    <2>3. CASE d = c
      BY <2>1, <2>2, <2>3 DEF Proper
    <2>4. CASE d # c
      <3>1. spin_pc'[d][active[d]] = spin_pc[d][active[d]] /\ enabled'[d] = enabled[d]
        BY <2>2, <2>4 DEF Alone
      <3>2. spin_pc[d][active[d]] = "idle" => enabled[d] = wanted[d][active[d]]
        BY DEF LockInv, FlagsRestored
      <3> QED  BY <2>1, <2>2, <3>1, <3>2
    <2> QED  BY <2>3, <2>4
  <1> QED  BY <1>1, <1>2, <1>3, <1>4, <1>5 DEF LockInv

\* The registries have no part in it.
LEMMA HostAside ==
    ASSUME LockInv, callbacks' \subseteq Registries,
           UNCHANGED <<lockVars, spin_pc, panicking, hooks, wanted>>
    PROVE  LockInv'
  <1>1. SpinTypeOK'
    BY DEF LockInv, SpinTypeOK, lockVars
  <1>2. (\A d \in Cores, y \in Contexts : Holds(d, y) => locked)' /\ MutualExclusion'
    BY DEF LockInv, Holds, MutualExclusion, lockVars
  <1>3. Protected'
    BY DEF LockInv, Protected, lockVars
  <1>4. Preemption' /\ FlagsRestored'
    BY DEF LockInv, Preemption, FlagsRestored, lockVars
  <1> QED  BY <1>1, <1>2, <1>3, <1>4 DEF LockInv

\* The steps of lock and of the guard's drop.
LEMMA LockCallPreserves ==
    ASSUME LockInv, NEW c \in Cores, NEW x \in Contexts,
           Lock(c, x) \/ Acquire(c, x) \/ Unlock(c, x) \/ Restore(c, x)
    PROVE  LockInv'
  <1> DEFINE Goal == active[c] = x /\ SpinTypeOK' /\ Alone(c, x) /\ Proper(c, x)
  <1> USE DEF SpinTypeOK, Alone, Proper, Critical, Steps, At, SpinGoto, Holds, hostVars
  <1>1. SpinTypeOK /\ Protected /\ FlagsRestored
    BY DEF LockInv
  <1>2. ASSUME Lock(c, x) /\ "disable_interrupts" \in callbacks PROVE Goal
    <2>1. /\ At(c, x, "idle") /\ SpinGoto(c, x, "spin")
          /\ saved_flags' = [saved_flags EXCEPT ![c][x] = enabled[c]]
          /\ enabled' = [enabled EXCEPT ![c] = FALSE]
          /\ UNCHANGED <<locked, active, hostVars, wanted>>
      BY <1>2 DEF Lock, disable_and_save
    <2>2. SpinTypeOK'
      BY <1>1, <2>1
    <2>3. enabled[c] = wanted[c][x]
      BY <1>1, <2>1 DEF FlagsRestored
    <2>4. Alone(c, x) /\ Proper(c, x)
      BY <1>1, <2>1, <2>3, Zenon
    <2> QED  BY <2>1, <2>2, <2>4
  <1>3. ASSUME Lock(c, x) /\ "disable_interrupts" \notin callbacks PROVE Goal
    <2>1. /\ At(c, x, "idle") /\ SpinGoto(c, x, "missing")
          /\ UNCHANGED <<locked, enabled, active, saved_flags, hostVars, wanted>>
      BY <1>3 DEF Lock
    <2> QED  BY <1>1, <2>1
  <1>4. ASSUME Acquire(c, x) PROVE Goal
    <2>1. ~ enabled[c] /\ saved_flags[c][x] = wanted[c][x] /\ active[c] = x
      BY <1>1, <1>4 DEF Acquire, Protected
    <2>2. SpinTypeOK'
      BY <1>1, <1>4 DEF Acquire
    <2> QED  BY <1>1, <1>4, <2>1, <2>2 DEF Acquire
  <1>5. ASSUME Unlock(c, x) PROVE Goal
    <2>1. ~ enabled[c] /\ saved_flags[c][x] = wanted[c][x] /\ active[c] = x
      BY <1>1, <1>5 DEF Unlock, Protected
    <2>2. SpinTypeOK'
      BY <1>1, <1>5, Zenon DEF Unlock
    <2> QED  BY <1>1, <1>5, <2>1, <2>2 DEF Unlock
  <1>6. ASSUME Restore(c, x) /\ "restore_interrupts" \in callbacks PROVE Goal
    <2>1. /\ At(c, x, "restore") /\ SpinGoto(c, x, "idle")
          /\ enabled' = [enabled EXCEPT ![c] = saved_flags[c][x]]
          /\ UNCHANGED <<locked, active, saved_flags, hostVars, wanted>>
      BY <1>6 DEF Restore
    <2>2. saved_flags[c][x] = wanted[c][x]
      BY <1>1, <2>1 DEF Protected
    <2> QED  BY <1>1, <2>1, <2>2
  <1>7. ASSUME Restore(c, x) /\ "restore_interrupts" \notin callbacks PROVE Goal
    <2>1. /\ At(c, x, "restore") /\ SpinGoto(c, x, "missing")
          /\ UNCHANGED <<locked, enabled, active, saved_flags, hostVars, wanted>>
      BY <1>7 DEF Restore
    <2> QED  BY <1>1, <2>1
  <1> HIDE DEF Goal, SpinTypeOK, Alone, Proper
  <1>8. Goal
    BY <1>2, <1>3, <1>4, <1>5, <1>6, <1>7
  <1> QED  BY <1>8, CriticalStepPreserves DEF Goal

\* A context that leaves for a hook or the endless loop takes nothing with it but the lock.
LEMMA HaltPreserves ==
    ASSUME LockInv, NEW c \in Cores, NEW x \in Contexts, active[c] = x,
           NEW step \in Steps \ ({"idle"} \cup Critical), SpinGoto(c, x, step),
           UNCHANGED <<locked, enabled, active, saved_flags, callbacks, wanted>>,
           panicking' \in BOOLEAN, hooks' \in Seq({"crypto", "rtos"})
    PROVE  LockInv'
  <1>1. SpinTypeOK'
    BY DEF LockInv, SpinTypeOK, SpinGoto
  <1>2. Alone(c, x) /\ Proper(c, x)
    BY DEF LockInv, SpinTypeOK, SpinGoto, Alone, Proper, Critical
  <1> QED  BY <1>1, <1>2, CriticalStepPreserves

\* Interrupts and the mask are the environment's.
LEMMA EnvironmentPreserves ==
    ASSUME LockInv, NEW c \in Cores, Interrupt(c) \/ ReturnFromInterrupt(c) \/ Mask(c)
    PROVE  LockInv'
  <1> USE DEF LockInv, SpinTypeOK, Contexts, At, hostVars
  <1>1. (\A d \in Cores, y \in Contexts : Holds(d, y) => locked)' /\ MutualExclusion'
    BY DEF Holds, MutualExclusion, Interrupt, ReturnFromInterrupt, Mask
  <1>2. Protected'
    BY DEF Protected, Interrupt, ReturnFromInterrupt, Mask, Critical
  <1>3. CASE Interrupt(c)
    <2>1. SpinTypeOK'
      BY <1>3 DEF Interrupt
    <2>2. enabled[c] /\ (spin_pc[c]["thread"] = "idle" => wanted[c]["thread"])
      BY <1>3 DEF Interrupt, FlagsRestored
    <2>3. /\ active' = [active EXCEPT ![c] = "isr"] /\ UNCHANGED <<spin_pc, wanted>>
          /\ enabled' = [enabled EXCEPT ![c] = FALSE] /\ enabled'[c] = FALSE
      BY <1>3 DEF Interrupt
    <2>4. Preemption'
      BY <2>2, <2>3 DEF Preemption
    <2>5. FlagsRestored'
      BY <2>3, Zenon DEF Preemption, FlagsRestored
    <2> QED  BY <1>1, <1>2, <2>1, <2>4, <2>5
  <1>4. CASE ReturnFromInterrupt(c)
    <2>1. SpinTypeOK'
      BY <1>4 DEF ReturnFromInterrupt
    <2>2. Preemption' /\ FlagsRestored'
      BY <1>4, Zenon DEF ReturnFromInterrupt, Preemption, FlagsRestored
    <2> QED  BY <1>1, <1>2, <2>1, <2>2
  <1>5. CASE Mask(c)
    <2>1. wanted' \in [Cores -> [Contexts -> BOOLEAN]]
      BY <1>5 DEF Mask
    <2>2. enabled' \in [Cores -> BOOLEAN]
      BY <1>5, <2>1, Zenon DEF Mask
    <2>3. UNCHANGED <<locked, active, spin_pc, saved_flags, hostVars>>
      BY <1>5 DEF Mask
    <2>4. SpinTypeOK'
      BY <2>1, <2>2, <2>3
    <2>5. wanted'[c]["thread"] = enabled'[c] /\ wanted'[c]["isr"] = wanted[c]["isr"]
      BY <1>5 DEF Mask
    <2>6. Preemption' /\ FlagsRestored'
      BY <1>5, <2>5 DEF Mask, Preemption, FlagsRestored
    <2> QED  BY <1>1, <1>2, <2>4, <2>6
  <1> QED  BY <1>3, <1>4, <1>5

LEMMA LockInvariant == SpinSpec => []LockInv
  <1>1. SpinInit => LockInv
    <2>1. SpinInit => SpinTypeOK
      <3>1. SpinInit => wanted \in [Cores -> [Contexts -> BOOLEAN]]
        <4>1. [x \in Contexts |-> x = "thread"] \in [Contexts -> BOOLEAN]
          BY Zenon
        <4> QED  BY <4>1, Zenon DEF SpinInit
      <3>2. SpinInit => /\ locked \in BOOLEAN /\ enabled \in [Cores -> BOOLEAN]
                    /\ saved_flags \in [Cores -> [Contexts -> BOOLEAN]]
                    /\ panicking \in BOOLEAN
        <4>1. TRUE \in BOOLEAN /\ FALSE \in BOOLEAN
          OBVIOUS
        <4>2. [x \in Contexts |-> FALSE] \in [Contexts -> BOOLEAN]
          BY <4>1, Zenon
        <4>3. SpinInit => locked \in BOOLEAN /\ panicking \in BOOLEAN
          BY <4>1, Zenon DEF SpinInit
        <4>4. SpinInit => enabled \in [Cores -> BOOLEAN]
          BY <4>1, Zenon DEF SpinInit
        <4>5. SpinInit => saved_flags \in [Cores -> [Contexts -> BOOLEAN]]
          BY <4>2, Zenon DEF SpinInit
        <4> QED  BY <4>3, <4>4, <4>5
      <3>3. SpinInit => active \in [Cores -> Contexts] /\ spin_pc \in [Cores -> [Contexts -> Steps]]
        BY DEF SpinInit, Steps, Contexts
      <3>4. SpinInit => callbacks \subseteq Registries /\ hooks \in Seq({"crypto", "rtos"})
        BY DEF SpinInit
      <3> QED  BY <3>1, <3>2, <3>3, <3>4 DEF SpinTypeOK
    <2>2. SpinInit => (\A c \in Cores, x \in Contexts : ~ Holds(c, x)) /\ Protected
      BY DEF SpinInit, Holds, Protected, Critical
    <2>3. SpinInit => \A c \in Cores : /\ active[c] = "thread" /\ enabled[c]
                                   /\ spin_pc[c]["isr"] = "idle"
                                   /\ wanted[c]["thread"] /\ ~ wanted[c]["isr"]
      <3>1. ASSUME SpinInit, NEW c \in Cores
            PROVE  active[c] = "thread" /\ enabled[c] /\ spin_pc[c]["isr"] = "idle"
        BY <3>1 DEF SpinInit, Contexts
      <3>2. ASSUME SpinInit, NEW c \in Cores
            PROVE  wanted[c]["thread"] /\ ~ wanted[c]["isr"]
        <4>1. wanted[c] = [x \in Contexts |-> x = "thread"]
          BY <3>2, Zenon DEF SpinInit
        <4>2. "thread" \in Contexts /\ "isr" \in Contexts /\ "isr" # "thread"
          BY DEF Contexts
        <4> QED  BY <4>1, <4>2, Zenon
      <3> QED  BY <3>1, <3>2
    <2>4. SpinInit => Preemption /\ FlagsRestored
      BY <2>1, <2>3 DEF Preemption, FlagsRestored, SpinTypeOK, Contexts
    <2> QED  BY <2>1, <2>2, <2>4 DEF LockInv, MutualExclusion
  <1>2. LockInv /\ [SpinNext]_spinVars => LockInv'
    <2>1. SUFFICES ASSUME LockInv, [SpinNext]_spinVars PROVE LockInv'
      OBVIOUS
    <2>2. ASSUME NEW r \in Registries, NEW present \in BOOLEAN, Register(r, present)
          PROVE  LockInv'
      <3>1. callbacks' \subseteq Registries /\ UNCHANGED <<lockVars, spin_pc, panicking, hooks, wanted>>
        BY <2>1, <2>2 DEF Register, LockInv, SpinTypeOK
      <3> QED  BY <2>1, <3>1, HostAside
    <2>3. ASSUME NEW c \in Cores, NEW x \in Contexts,
                 Halt(c, x) \/ Panic(c, x)
                 \/ (\E r \in {"read_monotonic_clock", "cache_invalidate",
                               "cache_flush", "pet_watchdog"} : HostCall(c, x, r))
                 \/ (\E crate \in {"crypto", "rtos"} : invoke_panic_hook(c, x, crate))
          PROVE  LockInv'
      <3>1. PICK step \in Steps \ ({"idle"} \cup Critical) : SpinGoto(c, x, step)
        BY <2>3 DEF Halt, Panic, HostCall, invoke_panic_hook, Steps, Critical, PanicHook
      <3>2. active[c] = x /\ UNCHANGED <<locked, enabled, active, saved_flags, callbacks, wanted>>
        BY <2>3 DEF Halt, Panic, Panics, HostCall, invoke_panic_hook, At, lockVars, hostVars
      <3>3. panicking' \in BOOLEAN /\ hooks' \in Seq({"crypto", "rtos"})
        <4>1. hooks \in Seq({"crypto", "rtos"}) /\ panicking \in BOOLEAN
          BY <2>1 DEF LockInv, SpinTypeOK
        <4>2. ASSUME NEW crate \in {"crypto", "rtos"}, invoke_panic_hook(c, x, crate)
              PROVE  hooks' \in Seq({"crypto", "rtos"}) /\ panicking' = panicking
          BY <4>1, <4>2 DEF invoke_panic_hook
        <4>3. ASSUME Halt(c, x) \/ Panic(c, x) \/ (\E r \in {"read_monotonic_clock", "cache_invalidate",
                               "cache_flush", "pet_watchdog"} : HostCall(c, x, r))
              PROVE  hooks' = hooks /\ panicking' \in BOOLEAN
          BY <4>1, <4>3, Zenon DEF Halt, Panic, HostCall, hostVars
        <4> QED  BY <2>3, <4>1, <4>2, <4>3
      <3> QED  BY <2>1, <3>1, <3>2, <3>3, HaltPreserves
    <2>4. CASE UNCHANGED spinVars
      <3>1. callbacks' \subseteq Registries /\ UNCHANGED <<lockVars, spin_pc, panicking, hooks, wanted>>
        BY <2>1, <2>4 DEF spinVars, hostVars, LockInv, SpinTypeOK
      <3> QED  BY <2>1, <3>1, HostAside
    <2> QED  BY <2>1, <2>2, <2>3, <2>4, LockCallPreserves, EnvironmentPreserves
             DEF SpinNext, ContextStep
  <1> QED  BY <1>1, <1>2, PTL DEF SpinSpec

\* At most one context of any number of cores holds the lock (lock).
THEOREM Exclusive == SpinSpec => []MutualExclusion
  <1>1. LockInv => MutualExclusion
    BY DEF LockInv
  <1> QED  BY <1>1, LockInvariant, PTL

\* The critical section runs with interrupts off, whatever is registered (disable_and_save).
THEOREM Masked == SpinSpec => []InterruptsOff
  <1>1. LockInv => InterruptsOff
    BY DEF LockInv, Protected, Holds, InterruptsOff, Critical
  <1> QED  BY <1>1, LockInvariant, PTL

\* Outside the lock a context finds interrupts as it left them (SpinlockGuard::drop).
THEOREM Restored == SpinSpec => []FlagsRestored
  <1>1. LockInv => FlagsRestored
    BY DEF LockInv
  <1> QED  BY <1>1, LockInvariant, PTL

-----------------------------------------------------------------------------
InHook(c, x) == spin_pc[c][x] \in {"crypto_panic_hook", "rtos_panic_hook"}

\* One context at most is in the handler's hooks, the first that panicked, and what it has
\* called so far follows from where it is.
HookInv ==
    /\ ~ panicking => hooks = <<>> /\ \A c \in Cores, x \in Contexts : ~ InHook(c, x)
    /\ \A c, d \in Cores, x, y \in Contexts : InHook(c, x) /\ InHook(d, y) => c = d /\ x = y
    /\ \A c \in Cores, x \in Contexts :
           /\ spin_pc[c][x] = "crypto_panic_hook" => hooks = <<>>
           /\ spin_pc[c][x] = "rtos_panic_hook" =>
                  \A i \in 1 .. Len(hooks) : i = 1 /\ hooks[i] = "crypto"
    /\ HooksOnce

\* A step that enters no hook and calls none keeps this.
LEMMA OutsideHooks ==
    ASSUME HookInv, SpinTypeOK, panicking' = panicking \/ panicking', hooks' = hooks,
           \A c \in Cores, x \in Contexts : InHook(c, x)' => spin_pc'[c][x] = spin_pc[c][x]
    PROVE  HookInv'
  <1>1. /\ panicking => panicking'
        /\ \A c \in Cores, x \in Contexts : InHook(c, x)' => InHook(c, x)
    BY DEF InHook
  <1>2. \A c \in Cores, x \in Contexts :
            /\ spin_pc'[c][x] = "crypto_panic_hook" => spin_pc[c][x] = "crypto_panic_hook"
            /\ spin_pc'[c][x] = "rtos_panic_hook" => spin_pc[c][x] = "rtos_panic_hook"
    BY DEF InHook
  <1>3. HooksOnce'
    BY DEF HookInv, HooksOnce
  <1>4. (\A c, d \in Cores, x, y \in Contexts : InHook(c, x) /\ InHook(d, y) => c = d /\ x = y)'
    BY <1>1 DEF HookInv
  <1>5. ~ panicking' => hooks' = <<>> /\ \A c \in Cores, x \in Contexts : ~ InHook(c, x)'
    BY <1>1, Zenon DEF HookInv
  <1>6. \A c \in Cores, x \in Contexts :
            /\ spin_pc'[c][x] = "crypto_panic_hook" => hooks' = <<>>
            /\ spin_pc'[c][x] = "rtos_panic_hook" =>
                   \A i \in 1 .. Len(hooks') : i = 1 /\ hooks'[i] = "crypto"
    <2> TAKE c \in Cores, x \in Contexts
    <2>1. /\ spin_pc[c][x] = "crypto_panic_hook" => hooks = <<>>
          /\ spin_pc[c][x] = "rtos_panic_hook" =>
                 \A i \in 1 .. Len(hooks) : i = 1 /\ hooks[i] = "crypto"
      BY DEF HookInv
    <2> QED  BY <1>2, <2>1
  <1> QED  BY <1>3, <1>4, <1>5, <1>6, Zenon DEF HookInv

LEMMA PanicPreserves ==
    ASSUME HookInv, SpinTypeOK, NEW c \in Cores, NEW x \in Contexts, Panic(c, x)
    PROVE  HookInv'
  <1>1. CASE panicking
    <2>1. SpinGoto(c, x, "halted") /\ hooks' = hooks /\ panicking'
      BY <1>1 DEF Panic
    <2>2. \A d \in Cores, y \in Contexts : InHook(d, y)' => spin_pc'[d][y] = spin_pc[d][y]
      BY <2>1 DEF SpinGoto, InHook, SpinTypeOK
    <2> QED  BY <2>1, <2>2, OutsideHooks
  <1>2. CASE ~ panicking
    <2>1. SpinGoto(c, x, "crypto_panic_hook") /\ hooks' = hooks /\ panicking'
      BY <1>2 DEF Panic, PanicHook
    <2>2. hooks = <<>> /\ \A d \in Cores, y \in Contexts : ~ InHook(d, y)
      BY <1>2 DEF HookInv
    <2>3. \A d \in Cores, y \in Contexts :
              InHook(d, y)' => d = c /\ y = x /\ spin_pc'[d][y] = "crypto_panic_hook"
      BY <2>1, <2>2 DEF SpinGoto, InHook, SpinTypeOK
    <2>4. HooksOnce'
      BY <2>1 DEF HookInv, HooksOnce
    <2>5. \A d \in Cores, y \in Contexts :
              spin_pc'[d][y] \in {"crypto_panic_hook", "rtos_panic_hook"} =>
                  d = c /\ y = x /\ spin_pc'[d][y] = "crypto_panic_hook"
      BY <2>3 DEF InHook
    <2>6. \A d, e \in Cores, y, z \in Contexts :
              InHook(d, y)' /\ InHook(e, z)' => d = e /\ y = z
      BY <2>3, Zenon
    <2>7. \A d \in Cores, y \in Contexts :
              /\ spin_pc'[d][y] = "crypto_panic_hook" => hooks' = <<>>
              /\ spin_pc'[d][y] # "rtos_panic_hook"
      BY <2>1, <2>2, <2>5
    <2> QED  BY <2>1, <2>4, <2>6, <2>7, Zenon DEF HookInv
  <1> QED  BY <1>1, <1>2

LEMMA Appended ==
    ASSUME NEW S, NEW q \in Seq(S), NEW v
    PROVE  /\ Len(Append(q, v)) = Len(q) + 1
           /\ Append(q, v)[Len(q) + 1] = v
           /\ \A i \in 1 .. Len(q) : Append(q, v)[i] = q[i]
  OBVIOUS

LEMMA HookCallPreserves ==
    ASSUME HookInv, SpinTypeOK, NEW c \in Cores, NEW x \in Contexts,
           NEW crate \in {"crypto", "rtos"}, invoke_panic_hook(c, x, crate)
    PROVE  HookInv'
  <1>1. panicking /\ panicking' = panicking
    BY DEF HookInv, InHook, invoke_panic_hook, At, PanicHook
  <1>2. \A d \in Cores, y \in Contexts : InHook(d, y)' => d = c /\ y = x
    BY DEF HookInv, InHook, invoke_panic_hook, At, PanicHook, SpinGoto, SpinTypeOK
  <1>3. CASE crate = "crypto"
    <2>1. hooks = <<>> /\ spin_pc'[c][x] = "rtos_panic_hook"
      BY <1>3 DEF HookInv, invoke_panic_hook, At, PanicHook, SpinGoto, SpinTypeOK
    <2>2. /\ hooks' = hooks \/ hooks' = Append(hooks, "crypto")
          /\ hooks \in Seq({"crypto", "rtos"}) /\ Len(hooks) = 0
      BY <1>3, <2>1 DEF invoke_panic_hook, SpinTypeOK
    <2>3. \A i \in 1 .. Len(hooks') : i = 1 /\ hooks'[i] = "crypto"
      <3>1. CASE hooks' = hooks
        BY <2>2, <3>1
      <3>2. CASE hooks' = Append(hooks, "crypto")
        <4>1. Len(hooks') = 1 /\ hooks'[1] = "crypto"
          BY <2>2, <3>2
        <4> QED  BY <4>1
      <3> QED  BY <2>2, <3>1, <3>2
    <2>4. \A d \in Cores, y \in Contexts : spin_pc'[d][y] # "crypto_panic_hook"
      BY <1>2, <2>1 DEF InHook
    <2>5. HooksOnce'
      BY <2>3 DEF HooksOnce
    <2> QED  BY <1>1, <1>2, <2>3, <2>4, <2>5 DEF HookInv
  <1>4. CASE crate = "rtos"
    <2>1. /\ \A i \in 1 .. Len(hooks) : i = 1 /\ hooks[i] = "crypto"
          /\ hooks \in Seq({"crypto", "rtos"})
          /\ spin_pc'[c][x] = "halted"
      BY <1>4 DEF HookInv, invoke_panic_hook, At, PanicHook, SpinGoto, SpinTypeOK
    <2>2. hooks' = hooks \/ hooks' = Append(hooks, "rtos")
      BY <1>4 DEF invoke_panic_hook
    <2>3. HooksOnce'
      <3>1. Len(hooks) \in {0, 1}
        <4>1. Len(hooks) \in Nat /\ ~ (2 \in 1 .. Len(hooks))
          BY <2>1
        <4>2. \A n \in Nat : ~ (2 \in 1 .. n) => n \in {0, 1}
          OBVIOUS
        <4> QED  BY <4>1, <4>2, Zenon
      <3>2. CASE hooks' = hooks
        BY <2>1, <3>2 DEF HooksOnce
      <3>3. CASE hooks' = Append(hooks, "rtos") /\ Len(hooks) = 0
        <4>1. Len(hooks') = 1
          BY <2>1, <3>3
        <4> QED  BY <4>1 DEF HooksOnce
      <3>4. CASE hooks' = Append(hooks, "rtos") /\ Len(hooks) = 1
        <4>1. 1 \in 1 .. Len(hooks)
          BY <3>4
        <4>2. hooks[1] = "crypto"
          BY <2>1, <4>1
        <4>3. /\ Len(Append(hooks, "rtos")) = Len(hooks) + 1
              /\ Append(hooks, "rtos")[Len(hooks) + 1] = "rtos"
              /\ \A i \in 1 .. Len(hooks) : Append(hooks, "rtos")[i] = hooks[i]
          BY <2>1, Appended, Zenon
        <4>4. Len(hooks') = 2 /\ hooks'[1] = "crypto" /\ hooks'[2] = "rtos"
          BY <3>4, <4>1, <4>2, <4>3
        <4> QED  BY <4>4 DEF HooksOnce
      <3> QED  BY <2>2, <3>1, <3>2, <3>3, <3>4
    <2>4. \A d \in Cores, y \in Contexts : ~ InHook(d, y)'
      BY <1>2, <2>1 DEF InHook
    <2> QED  BY <1>1, <2>3, <2>4 DEF HookInv, InHook
  <1> QED  BY <1>3, <1>4

\* The panic handler calls each hook at most once, the one of the crypto crate first,
\* however many cores panic and although a hook may panic (begin_panic).
THEOREM HooksCalledOnce == SpinSpec => []HooksOnce
  <1>1. SpinInit => HookInv
    BY DEF SpinInit, HookInv, InHook, HooksOnce
  <1>2. SpinTypeOK /\ HookInv /\ [SpinNext]_spinVars => HookInv'
    <2>1. SUFFICES ASSUME SpinTypeOK, HookInv, [SpinNext]_spinVars PROVE HookInv'
      OBVIOUS
    <2>2. ASSUME NEW c \in Cores, NEW x \in Contexts, Panic(c, x) PROVE HookInv'
      BY <2>1, <2>2, PanicPreserves
    <2>3. ASSUME NEW c \in Cores, NEW x \in Contexts, NEW crate \in {"crypto", "rtos"},
                 invoke_panic_hook(c, x, crate)
          PROVE  HookInv'
      BY <2>1, <2>3, HookCallPreserves
    <2>4. ASSUME NEW c \in Cores, NEW x \in Contexts,
                 Lock(c, x) \/ Acquire(c, x) \/ Unlock(c, x) \/ Restore(c, x) \/ Halt(c, x)
                 \/ (\E r \in {"read_monotonic_clock", "cache_invalidate",
                               "cache_flush", "pet_watchdog"} : HostCall(c, x, r))
          PROVE  HookInv'
      <3>1. panicking' = panicking /\ hooks' = hooks
        BY <2>4 DEF Lock, Acquire, Unlock, Restore, Halt, HostCall, hostVars
      <3>2. PICK step \in {"idle", "spin", "held", "restore", "missing", "halted"} : SpinGoto(c, x, step)
        BY <2>4 DEF Lock, Acquire, Unlock, Restore, Halt, HostCall
      <3>3. \A d \in Cores, y \in Contexts : InHook(d, y)' => spin_pc'[d][y] = spin_pc[d][y]
        BY <2>1, <3>2 DEF SpinGoto, InHook, SpinTypeOK
      <3> QED  BY <2>1, <3>1, <3>3, OutsideHooks
    <2>5. CASE \/ \E r \in Registries, present \in BOOLEAN : Register(r, present)
               \/ \E c \in Cores : Interrupt(c) \/ ReturnFromInterrupt(c) \/ Mask(c)
               \/ UNCHANGED spinVars
      <3>1. panicking' = panicking /\ hooks' = hooks /\ spin_pc' = spin_pc
        BY <2>5 DEF Register, Interrupt, ReturnFromInterrupt, Mask, spinVars, hostVars
      <3> QED  BY <2>1, <3>1, OutsideHooks
    <2> QED  BY <2>1, <2>2, <2>3, <2>4, <2>5 DEF SpinNext, ContextStep
  <1>3. LockInv => SpinTypeOK
    BY DEF LockInv
  <1>4. HookInv => HooksOnce
    BY DEF HookInv
  <1> QED  BY <1>1, <1>2, <1>3, <1>4, LockInvariant, PTL DEF SpinSpec
=============================================================================
