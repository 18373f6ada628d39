# ShawnCore Libraries: TLA+ models, checks and proofs

The repository is a pair of `no_std` Rust libraries for embedded hosts:
`shawncore-rtos-sync` (lock-free queues, a DMA buffer pool, a per-core scheduler,
a state machine, a spinlock, a latency tracker) and `shawncore-pq-crypto` (entropy
ingestion and a hybrid post-quantum session). A C host calls both through
`extern "C"` functions and provides interrupts, cache maintenance, the watchdog
and the clock as callbacks.

## 1. Inventory

### Components, their state and operations

| Component | State | Operations | Module |
|---|---|---|---|
| `SpscQueue` (`spsc_queue.rs`) | `buffer`, `head`, `tail`, `is_initialized`, `is_initializing`; per slot `sequence_counter` and payload | `init`, `push`, `pop` | `SpscQueue` |
| `RingBuffer` (`ring_buffer.rs`) | the same | `init`, `push`, `pop`, `peek` | `RingBuffer` |
| `StaticDmaPool` (`static_dma_pool.rs`) | `free_list_head` (index and tag), `next`, `ownership` (bit and generation), the init flags | `init`, `allocate`, `free` | `StaticDmaPool` |
| `PerCoreScheduler`, `Tcb` (`bitmap_scheduler.rs`, `tcb.rs`) | TCBs, `ready_bitmap`, `current_task`, `watchdog_matrix`, `critical_task_mask` | `create_task`, `set_ready`, `clear_ready`, `task_check_in`, `set_critical_task_mask`, `schedule_tick` | `BitmapScheduler` |
| `StateMachine` (`state_machine.rs`) | one atomic state | `try_advance` | `StateMachine` |
| `InterruptSafeSpinlock`, `CryptoSpinlock` | the lock word; saved flags in the guard | `lock`, guard `drop` | `InterruptSpinlock` |
| callback registries (`ffi_callbacks.rs`), panic handler (`shawncore-ffi`) | one atomic pointer per callback; `PANIC_IN_PROGRESS` | `register_*`, the callers of each callback, `panic` | `InterruptSpinlock` |
| `EntropyQueue`, `EntropyPool` | queue slots and indices; pool digest, `reseed_count`, two gates | `push`, `mix_entropy`, `extract_entropy` | `EntropyPool` |
| `SessionManager`, authenticated handshake | ephemeral keys, `tx_key`, `rx_key`, counters, replay window, `pending_auth` | both handshake versions, `get_next_tx_nonce`, `encrypt_packet`, `decrypt_packet`, `commit_rx_nonce`, `zeroize_session` | `SessionManager` |
| `LatencyTracker` | `started`, `start_time`, three accumulators | `mark_start`, `mark_end` | `LatencyTracker` |
| the C functions of `shawncore-pq-crypto` | the host's memory | 31 functions: pointer, length and aliasing checks, then a method above | `FfiChecks`, `CryptoFfi`, `FfiCall` |
| the C functions of `shawncore-rtos-sync` | the host's memory | 33 functions: pointer, region and aliasing checks, then a method above | `FfiChecks`, `RtosFfi`, `FfiCall` |
| AEAD, ML-KEM, ML-DSA, X25519, KDF wrappers | none | pure functions | symbolic, in `FfiCall` and `SessionManager` |

### Interactions

* The entropy queue has one producer (`entropy_push`) and any number of pools that
  drain it; a process-wide gate makes the drainers one consumer.
* The pools' short locked sections use `CryptoSpinlock`, the spinlock modelled in
  `InterruptSpinlock`; `EntropyPool` takes each locked section as one step on the
  strength of `MutualExclusion`.
* The spinlocks need two callbacks of the host. A context that finds one missing runs
  the panic hook of its crate and stops; the panic handler runs the hooks of both crates.
  `InterruptSpinlock` composes the lock, the registries and the handler.
* Every method is called by a C function on memory the host owns. `FfiCall` has what
  the wrapper and the body do to that memory; what a method makes of it is in the
  component's module.
* Two `SessionManager`s talk over a link that belongs to the host.
* The scheduler, queues and the pool call host callbacks (watchdog, cache
  maintenance); they change nothing in the library and appear, at most, as ghosts.

### What is hard here

Wrap-around of free-running indices; a payload that is not written atomically; a
check of a flag followed by a claim of another; ABA on the free list; stale and
repeated handles; retry loops; interrupts on top of a lock holder; a value copied
under a lock and written back under a later one; lost, repeated and reordered
messages; wiping on every failure path; counters that restart with each session;
arguments that alias each other, at the end of the address space or with length zero; a
callback that is not there when it is needed.
`PROJECT.json` lists these as hazards with the line where each bites.

## 2. Modules

`BoundedQueue` is the abstract queue: a FIFO of at most `N` items in which every
call is one atomic step. It is what the concurrent queues are shown to implement.

`SpscQueue` gives the producer, the consumer and every `init` caller a program
counter; one step is one shared access, or several to memory nobody else can write
meanwhile. The payload is `Torn` between the first and the last of its stores. `W`
stands for 2^usize::BITS, and every index and counter is reduced modulo `W`. The
counters of a buffer hold any value of `Garbage` before `init` (uninitialised storage).
`buffer` is read at each use where the code reads it once per call: the same thing,
by `BufferPublishedOnce`.

`RingBuffer` extends `SpscQueue` with `peek`; the consumer runs `pop` and `peek`
one at a time, as the documentation of the type requires.

`StaticDmaPool` models the tagged free list and ownership words. Any thread may
call `free` with any handle ever issued, any number of times. The weak exchange may
fail at will. `UseBuffer` (external) is an owner writing its buffer.

`BitmapScheduler` has one action per method. Bitmaps are sets of priorities. A
stack pointer is a position in the task's stack, one of which is outside; a task
may overwrite its own canary (`Overflow`, external). Four ghosts record the
host's watchdog callback: `pets`, the argument of the tick that last called it
(`pet_rsp`), the check-ins since (`checked_in`), and the tasks that a change of the mask
left out and that have not checked in after it (`left_out`).

`StateMachine` models the exchange loop of `try_advance`; `advances` is a ghost, the
sequence of the transitions reported `Ok`.

`InterruptSpinlock` gives each core a thread and an interrupt routine. Taking an
interrupt, returning from it and the host's masking are the environment. The host
registers and removes callbacks while nobody is inside a call that uses one, as
the registries require. A caller of a callback (`HostCall` for the clock, the caches and
the watchdog) goes on, or runs its panic hook and halts when it is missing. A panic may
happen in the critical section and inside a hook; `hooks` is a ghost, the hooks the
panic handler has called.

`LatencyTracker` has one step per atomic access of `mark_start` and `mark_end`. The
weak exchanges may fail although the value is the expected one. `mark_start` obeys the
documented contract (one owner, no overlapping measurement); any number of threads call
`mark_end`. `begun` and `consumed` are ghosts: what was begun, what was consumed.

`EntropyPool` models the queue, both gates, the bounded drain and the
snapshot-hash-commit loop of extraction. A digest is the sequence of its inputs, so
two digests are equal exactly when the inputs are.

`SessionManager` is symbolic: a derived secret is the record of the inputs of the
derivation, a signature the pair of signer and digest. `messages` and `packets` are
sets that never shrink, and any element may be delivered to anyone at any time or
never: loss, repetition, delay and reordering. Calls that return an error and change
nothing are stuttering steps. A checksum is a term over its key, and the two are
written and wiped by separate assignments, as in the code. A failure inside a step is a Boolean parameter
(`contributory`, `signs`, `completes`). `decapsulated` is a ghost, the ephemeral key pairs
used on a ciphertext: `OneSecretAtATime` says that a manager never keeps one of them, the
"one decapsulation attempt per handshake" of `finalize_authenticated`.

The C interface. `FfiChecks` has the checks of both crates and the form of a
description: which arguments may not be null, which are slices, which must be aligned,
what the body writes, and which pairs of arguments the wrapper compares. `CryptoFfi` and
`RtosFfi` describe each function that takes a pointer. `FfiCall` is one call of any of
them on the host's memory: the checks, then the reads and writes of the body in
the order of the code. A byte is the term of how it was made, so an input overwritten
before it is read shows in the output. Four bodies have steps of their own: the packet
functions (copy, key stream, tag, nonce and counter; or tag, copy, key stream, replay
window), HKDF-Expand block by block, and objects with a backing region (`ptr::write`,
then `init`). The others call one method: while it runs, its object may be overwritten
before its inputs are read, and then the wrapper writes the outputs one by one. Whether
a method fails is an input; the modules of the components model what that depends on.

`StaticDmaPoolSteps` and the modules named `*Proofs` hold lemmas and theorems.
`StateMachine`, `BitmapScheduler` and `InterruptSpinlock` name their definitions apart, so
that one module can prove about all three. Each `MC*` module extends one model for TLC. Operators whose comment says what went wrong ("Fault: ...",
"The counter is not ...") are deliberately broken variants; each one stands for a
plausible bug and shows that a property would notice it. `PROJECT.json` pairs them.

## 3. Runs

| Run | What it asks | Bounds |
|---|---|---|
| `spsc_queue` | `RaceFree`, `Scrubbed`; `ImplementsQueue` (safety and draining) | 2 slots, indices modulo 8, two payloads |
| `ring_buffer` | `PeekRaceFree`, `ImplementsRing`; `BufferPublishedOnce` with two racing `init` callers | 2 slots, modulo 4 |
| `dma_pool` | `SlotsPartitioned` (no slot lost or doubled, and a popped slot is never found owned), `OnlyLiveHandlesFree`, `HandedOutClean`, `CallsReturn` | 3 threads, 2 slots, 3 allocations |
| `dma_pool_two_inits` | `InitOneShot`, violated | 2 racing `init` callers |
| `scheduler` | `PetEarned`, `FaultNeverPets`, `ReadmittedChecksIn`, `SchedulerTypeOK`, `WatchdogServed` | 2 priorities and idle, at most 2 tasks at a time, stacks of 2 positions |
| `state_machine` | `ReportedTransitionsChain` | 3 threads, 4 transitions |
| `spinlock` | `MutualExclusion`, `InterruptsOff`, `FlagsRestored`, `HooksOnce`, `LockReleased` | 2 cores, both callbacks of the lock and both panic hooks |
| `session_handshake` | `OneSecretAtATime`, `Agreement`, `SilentUntilProved`, `NonceUnique`, `NoReflection` | 2 endpoints, 2 salts, 4 draws of entropy, 2 nonces |
| `session_window` | `WindowExact` | window of 2, counters up to 4, 3 packets, 2 numbers recorded by the host |
| `entropy` | `ChunksMixedOnce` (with one consumer at a time), `SnapshotCurrent`, `OutputsUnique`, `SeededOutput`, `Scrubbed`, `EntropyReachesPool` | 2 threads, 2 pools, 2 slots, indices modulo 4, 4 chunks, 2 blocks |
| `ffi` | `AcceptedDisjoint`, `ValidAccepted`, `OutputFromInputs`, `FailureReleasesNothing` | all 64 functions, 28 addresses, lengths 0, 2, 3 and 8 |
| `latency_tracker` | `MeasuredOnce`, `AccumulatorsExact`, `CallsReturn` | 3 threads, 2 measurements, atomics modulo 3 |

Why the bounds are enough to be interesting. Index widths are four (or two) times the
capacity, so that full, empty and every offset occur on both sides of the wrap. Four
chunks take the indices of the entropy queue round to 0. Stacks of two positions let a tick
pass a pointer other than the saved one; two tasks are enough for one to be left out of the
mask and made critical again while the other stays (the run was also made once with three
tasks and stacks of one position). Three
allocations on two slots allow the ABA sequence (take A, take B, return A) under a
stalled thread, with a third thread beside it; the tag is wider than the number of
mutations, which is the deployment limit the source states in its first lines. Four
draws allow two complete handshakes whose messages can be mixed up; two salts allow
sides that disagree. A window of two has both edges and room for jumps beyond it.
The functions of the C interface compare
their arguments in pairs: every pair of arguments moves, the first to every address, the
second to its place or an end of the address space, and the others stay apart; the
lengths are empty, usual, beyond the packet limit and beyond the slice limit. Calls end,
so that run does not look for deadlock; nor does `spinlock`, where all cores may have
halted. Two cores have four contexts, enough for an interrupt on top of a holder while
the other core spins or panics. Atomics modulo 3 let the total saturate with two
measurements; a third thread ends a measurement that is already over. `spsc_queue` takes every value of the counters of
uninitialised storage, `ring_buffer` an odd and an even one. Symmetry over endpoints is used in the session runs, which check
invariants only.

Fairness. `spsc_queue`: the consumer keeps polling and an `init` call finishes;
nothing makes the producer push. `dma_pool`: a call in progress keeps running, and
an exchange that keeps finding its expected value succeeds eventually (the
architecture's guarantee for a weak exchange in a loop); nobody is obliged to start a
call. `scheduler`: the timer ticks and registered tasks check in. `spinlock`: a core
keeps executing, an idle interrupt routine returns; nothing says who wins the lock.
`latency_tracker`: a thread keeps running, and measurements are finitely many (the loops
are lock-free, not wait-free); an exchange that fails spuriously changes
nothing, so weak fairness of a thread's step excludes that it fails so for ever.
`entropy`: threads run and the host keeps calling `entropy_mix`, which its
documentation asks for.

All models have sequentially consistent steps. The acquire and release orderings of
the code are argued, not checked: every plain access is shown race-free at the level
of steps (`RaceFree`, `PeekRaceFree`, `ChunksMixedOnce`, `SlotsPartitioned`) and each is
ordered by the release store and acquire load around it.

### A disagreement

`dma_pool_two_inits`: `StaticDmaPool::init` tests `is_initialized`, then claims
`is_initializing`, and does not test again (`static_dma_pool.rs:123`). A caller that
passed the test before another one finished, and claims after it, initializes the pool
a second time and is told `Ok`. The field's comment says "Prevents concurrent
initialization attempts." (`static_dma_pool.rs:43`). `SpscQueue` and `RingBuffer`
have the second test; `BufferPublishedOnce` fails without it and holds with it. The
other pool run has a single `init` caller.

## 4. Proofs

`SpscQueueProofs`, for every capacity `N`, every even width `W` that `N` divides at
least twice (what `new` asserts: a power of two, at most half of `usize`), every set of
payloads and any number of `init` callers:

* `TypeCorrect`: `Spec => []TypeOK`;
* `NoDataRace`: `Spec => []RaceFree`;
* `PublishedOnce`: `Spec => BufferPublishedOnce`.

None of them is inductive. `IInv` adds three parts to `TypeOK`.
`InitOrder` follows the one caller past the claim: it is unique while
`is_initializing` holds, and until it has published, `buffer` is null; the second test
is what establishes this. `CallsAfterInit`: a call in progress started after
initialization, so `buffer` is a region (needed for the types of the slot accesses).
`Occupancy`: at most `N` slots are used, fewer than `N` from `push`'s check to its
publication, more than none from `pop`'s check to its publication; each side can only
move the distance in the direction that keeps the other's check true. With both calls
in their slots the distance is strictly between 0 and `N`, and `DistinctSlots`
says that then the slots differ, wherever the indices wrap.
`IInv` was model-checked on the instances above before it was proved.

The same module shows, for the same values of the constants, what both queues implement:

* `NothingLingers`: `Spec => []Scrubbed`;
* `ImplementsFifo`: `Spec => Queue!Spec`, the safety part of `ImplementsQueue`;
* `RingKeepsQueue`: `RaceFree`, `Scrubbed` and `BufferPublishedOnce` of `RingBuffer`;
* `PeekNeverRaces`: `RingSpec => []PeekRaceFree`;
* `RingImplementsFifo`: `RingSpec => ImplementsRing`.

`CInv` adds to `IInv` what the slots hold: from `tail` up to `head` payloads under even
counters (`Stored`), the new item at `head` before it is published (`Producing`), and in
`pop`'s local variable the payload at `tail` while its slot is cleared (`Consuming`).
`SlotFacts` and `NextSlot` number the slots from `tail`, across the wrap of the indices.
`Stored` and `Consuming` show that `pop`'s two looks at the sequence counter never refuse
a published item. The remaining steps map one to one: setting `is_initialized`
to `BecomeReady`, storing `head` to `Push`, storing `tail` to `Pop`, `push`'s refusals to
`PushRefused` and `PushFull`, `pop` finding nothing to `PopEmpty`; every other step leaves
the abstract queue as it is. `CInv` too was model-checked first.

The steps of `peek` leave the variables of the queue alone, so a ring buffer whose `peek`
is not looked at is a queue (`RingIsQueue`) and every theorem about the queue is one about
the ring buffer. `PeekInv` adds what `peek` knows at each step: the item at `tail` stays
the oldest while it reads, because the consumer runs `pop` or `peek`, never both.

The assumptions are `SizeAssumption` and `ValueAssumption`, evaluated by TLC on every run of the queues.

`FfiProofs`, for every address space, size and alignment of the objects, and all
pointers and lengths, for all functions of both crates:

* `AllDisjoint`: `Spec => []AcceptedDisjoint`;
* `ValidCallsAccepted`: `Spec => []ValidAccepted`;
* `RightOutputs`: `Spec => []OutputFromInputs`;
* `NothingReleased`: `Spec => []FailureReleasesNothing`.

For the first two the invariant adds that the body runs only for calls the wrapper did not
refuse, and that only refused calls stop before it. Of each description it is shown that
the pairs compared are exactly those in which one argument is written (`Covers`):
by a lemma for the functions with nothing to compare, one for
`writable_regions_overlap`, and one by one for the rest. `OverlapComplete` shows that
ranges `ranges_overlap` passes share no byte; `OverlapReal` that ranges it rejects do,
unless they reach the end of the address space.

For the other two, `MemoryInv` says at each step of a body what the host's memory is by
then: which regions have been written and with what, which inputs the body still has to
read, and that those are as the host left them. It has a part for each kind of body: the
packet functions (`PacketSteps`), HKDF-Expand (`ExpandSteps`), the methods with outputs to
write one by one and the objects with a backing region (`WriteSteps`), and what is left when
a call succeeds (`Right`) or does not (`Failed`). Each write is a region put over the memory
(`PutOf`); two facts about that do the work. A region read back is what was put there, and a
region that shares no byte with it reads as before. The second is `AllDisjoint`: the checks
of the wrapper are why an input survives until it is read. `MemoryInv` was model-checked
before it was proved.

The assumptions are `CheckAssumption`, `CallAssumption` and `ObjectAssumption`. The last one
says that an object a function writes does not reach beyond the end of the address space.
The wrappers test this of slices and regions only; a typed pointer that the host may write
through has it by what an object is in Rust and in C. TLC evaluates all three on the calls
of the run.

`StaticDmaPoolSteps` and `StaticDmaPoolProofs`, for any number of buffers and threads and
any number of allocations that the tag and the generation can count (`PoolAssumption`: the
deployment limit at the top of `static_dma_pool.rs`):

* `BuffersPartitioned`: `Spec => []SlotsPartitioned`;
* `HandlesSpentOnce`: `Spec => []OnlyLiveHandlesFree`;
* `BuffersClean`: `Spec => []HandedOutClean`;
* `PreparedOnce`: `Spec => []InitOneShot`.

All have one hypothesis, `OneInitializer`: a single thread calls `init`. Without it they
are false, which is what `dma_pool_two_inits` shows; nothing is assumed of who calls
`allocate` and `free`, or with which handles. `PoolInv` says, besides the types:

* `Startup`: until `init` is over no call gets past its first test;
* `Handles`: a live handle has the newest generation of its slot, one thread has it, and
  an allocated slot has a live handle;
* `Carried`: a thread between the list and the ownership word (after its exchange in
  `allocate`, before it in `free`) has its slot to itself, and from the wipe on it is clean;
* `Tagged`: a thread that finds the tag it observed finds the whole head it observed, and
  the successor it read is still the successor: this is what excludes ABA;
* `Counted` and `Spendable`: how far generations and tags have gone, by the calls made and
  the calls under way, so that neither wraps;
* `List`: the free list is a stack of different slots, exactly those that nobody has. The
  stack is a function from 1 .. N under an existential quantifier, pushed and popped by the
  two exchanges; no induction over the list is needed to preserve it. `Walk` then shows that
  following `next` from the head, as `SlotsPartitioned` does, visits that stack.

That a push finds room on the stack is a pigeonhole argument (`Room`). `PoolInv` was
model-checked on two instances before it was proved. The split in two modules has no other
reason than size.

`SessionManagerProofs`, for any number of endpoints, salts, draws of entropy and nonces,
and every width of the window:

* `SecretsReplaced` (`OneSecretAtATime`), `NoncesUnique` (`NonceUnique`),
  `NothingReflected` (`NoReflection`);
* `WindowIsExact` (`WindowExact`);
* `SidesAgree` (`Agreement`), `ProvedBeforeUse` (`SilentUntilProved`).

A nonce is unique although the counter restarts, because every transmit key belongs to one
draw of entropy (`Origin`): the key pair for the key-generating side, the encapsulation for
the other. `NonceInv` says that the draws in use are different in different managers
(`Distinct`) and that the draw of a key with which a nonce was made is gone, except in the
manager that still counts under it (`Spent`); it is here that a handshake must give up its
key pair when it ends or fails. `UsedOnce` says it of
the key pair itself: one that was used on a ciphertext is in no manager any more. `OneWay` and `AcceptInv` are the same for packets of one's
own and for what was accepted. `WindowInv` says that the window is a picture of the set of
accepted numbers; `CheckPictures` and its companions are the arithmetic of the shift.
`AuthInv` says that every signature in a message was made in a run of its signer on the
identities of that run, that a pending manager waits for a proof of the secret in use, and
that an authenticated secret that is not pending has been proved by a finished run. The
proof goes by kinds of step (`Wipes`, `Installs`, `Keeps`, `Sends`, ...): every operation is
shown to be of one kind, and every kind to keep the invariant. The assumptions are
`SessionAssumption` and `OptionAssumption` (`None` is no key), evaluated by TLC.

`EntropyPoolProofs`, for every queue size and width of the counters that the size divides,
and any number of threads, pools and pushes (`EntropyAssumption`):

* `NoChunkLostOrReused` (`ChunksMixedOnce`), `SlotsScrubbed` (`Scrubbed`);
* `NothingErased` (`SnapshotCurrent`), `NoStateTwice` (`OutputsUnique`),
  `NeverUnseeded` (`SeededOutput`).

`IInv` starts from the gates: a pool has one thread in its call, and one thread at a time
is between the two uses of the consumer gate (`Gates`). So the queue changes under one
producer and one consumer, and holds the latest chunks in the order of their pushes
(`Queue`); the only moment a chunk is in two places is between its read and the move of the
tail, which `Held` accounts for. `Contents` says that the numbers up to `Taken`, the chunks
that have left the queue, are each in one hasher or one pool, once; `fold` moves a hasher's
chunks to the pool in one step. `Output` says that a state from which output was made is a
proper prefix of the state of some pool (`Followed`), which is why it never comes back.
That two pools never have equal states with entropy in them follows from `Contents`: a
chunk is in one pool only. TLC finds `IInv` true on the instance of the run as well.

`RtosSyncProofs` has three of the smaller components, whose models it extends together:

The state machine, for every number of threads: `TransitionsChain`,
`[]ReportedTransitionsChain`. The invariant adds the types and that a
thread about to exchange has found its transition valid from the state it expects.

The scheduler, for every number of priorities and stack size (`SchedulerAssumption`):
`ContextsValid` (`SchedulerTypeOK`), `PetsAreEarned`
(`PetEarned`), `FaultsNeverPet` (`FaultNeverPets`), `ReadmittedTasksCheckIn`
(`ReadmittedChecksIn`). The
invariant adds that the bits of `watchdog_matrix` are check-ins since the last pet,
none of a task left out of the mask since, and that critical tasks are registered.
`TickEffect` says what a tick does, whichever way it ends; `SelectedTask`, that the lowest bit is the most urgent task.

The spinlock, for every number of cores, both crates and any registries:
`Exclusive` (`MutualExclusion`), `Masked` (`InterruptsOff`), `Restored` (`FlagsRestored`)
and `HooksCalledOnce` (`HooksOnce`). `LockInv` adds that a holder implies `locked`, that a
context between disabling and restoring has interrupts off, is the running one and holds
the flags it found (`Protected`), and that an interrupt routine runs only on top of a
thread that had interrupts enabled (`Preemption`). `HookInv` adds that at most one context,
the one that won `begin_panic`, is in the handler's hooks, none before a panic, and which
hooks have been called when it comes to each.

`LatencyTrackerProofs`, for every number of threads and measurements and every width
(`TrackerAssumption`):

* `ConsumedOnce`: `Spec => []MeasuredOnce`;
* `NothingLost`: `Spec => []AccumulatorsExact`.

For the first the invariant adds that whoever is about to swap has read the start of the
current measurement (`Deciding`; this is where the contract of `mark_start` is used), and
that a raised flag stands for a measurement nobody has consumed (`Pending`). For the second
`Tally` adds that only finitely many calls have something to add, however many threads there
are, and that a call exchanges the maximum only for a larger one (`Raising`). The sums are
the library's `SumFunctionOnSet`. What it computes is shown without induction over the
operator: the number of units that the summands stand for (`Weight`, a cardinality)
satisfies its recursion, and a smallest set on which another solution differed would have a
smaller one (`SumIsWeight`). From there a sum can be taken in any order, and an exchange of
the total moves one summand from the calls in flight to the total. TLC finds `Tally` true
on the instance of the run as well.

Only model-checked: the liveness properties (`CallsReturn`, `WatchdogServed`,
`LockReleased`, `EntropyReachesPool`, the draining half of `ImplementsQueue`), which are out
of the prover's reach. Every invariant that a passing run checks is also a theorem.

## 5. Not modelled

* Weak memory (section 3) and cache maintenance.
* Arguments refused before any state is read are stuttering in all modules but
  `FfiCall`, which is about them. Which error code a refusal has is left out.
* The functions that return a size, an alignment or an encoded length.
* The in-place AEAD variants, which no C function calls.
* Breaking the registries' contract (replacing a callback while it is in use) and that of
  `mark_start` (overlapping measurements): the documentation leaves both to the host.
* Benchmarks, fuzz targets, validation programs and the C integration tests: drivers.
* A pointer to memory that is not mapped or not the host's: the caller's duty.
* Byte-level cryptography and encodings.
* Memory corruption in general; the scheduler's stack overrun is the exception,
  because the code looks for it.
* A tag or generation wrapping round within one stalled call (documented limit).

## 6. What could follow

1. The lifecycle of host-allocated objects from `init` to `destroy` across calls, as
   a sequence of `FfiCall`s.
