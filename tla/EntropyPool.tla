---------------------------- MODULE EntropyPool ----------------------------
(***************************************************************************)
(* Entropy ingestion of shawncore-pq-crypto: the global single-producer    *)
(* single-consumer EntropyQueue, the pools that drain it, and the two      *)
(* gates that serialise them (`mixing` of each pool and the process-wide   *)
(* consumer gate).  Any number of threads mix and extract at once.         *)
(*                                                                         *)
(* A chunk is the number of the push that brought it.  The state of a pool *)
(* is the sequence of what was hashed into it: chunks, and 0 for a step of *)
(* the generator, so equal digests are equal sequences.  The sections      *)
(* under CryptoSpinlock are single steps (InterruptSpinlock is the lock).  *)
(***************************************************************************)
EXTENDS Integers, Sequences, FiniteSets, Functions

CONSTANTS
    ENTROPY_QUEUE_SIZE,        \* 64
    W,                         \* 2^64, the modulus of usize
    MAX_MIX_CHUNKS_PER_CALL,   \* 8
    Threads, Pools,
    NoPool,
    MaxPushes,                 \* bound: chunks pushed
    MaxBlocks                  \* bound: 48-byte blocks extracted

ASSUME EntropyAssumption ==
    /\ ENTROPY_QUEUE_SIZE \in Nat \ {0}
    /\ \E k \in 2 .. W : W = ENTROPY_QUEUE_SIZE * k
    /\ MAX_MIX_CHUNKS_PER_CALL \in Nat \ {0}
    /\ MaxPushes \in Nat /\ MaxBlocks \in Nat
    /\ NoPool \notin Pools

VARIABLES
    buffer, head, tail,   \* the queue; 0 in a slot is zeroized memory
    ppc, pushed,          \* the producer: its step, and the pushes begun
    mixing,               \* [Pools -> BOOLEAN], the operation gate of a pool
    consumer_gate,        \* GLOBAL_ENTROPY_QUEUE_CONSUMER_GATE
    pool, reseed_count,   \* [Pools -> digest state], [Pools -> Nat]
    pc, on, blocks,       \* of each thread: step, its pool, blocks still to fill
    at, chunks, snapshot, \* and its locals
    emitted               \* ghost: the states output blocks were made from, numbered

queueVars == <<buffer, head, tail>>
poolVars  == <<mixing, consumer_gate, pool, reseed_count>>
callVars  == <<pc, on, blocks, at, chunks, snapshot>>
vars      == <<queueVars, ppc, pushed, poolVars, callVars, emitted>>

Slot(i) == i % ENTROPY_QUEUE_SIZE
wrapping_add(x, d) == (x + d) % W
wrapping_sub(x, y) == (x + W - y) % W

Init ==
    /\ buffer = [i \in 0 .. ENTROPY_QUEUE_SIZE - 1 |-> 0]
    /\ head = 0 /\ tail = 0
    /\ ppc = "idle" /\ pushed = 0
    /\ mixing = [p \in Pools |-> FALSE]
    /\ consumer_gate = FALSE
    /\ pool = [p \in Pools |-> <<>>]
    /\ reseed_count = [p \in Pools |-> 0]
    /\ pc = [t \in Threads |-> "idle"]
    /\ on = [t \in Threads |-> NoPool]
    /\ blocks = [t \in Threads |-> 0]
    /\ at = [t \in Threads |-> 0]
    /\ chunks = [t \in Threads |-> <<>>]
    /\ snapshot = [t \in Threads |-> <<>>]
    /\ emitted = {}

Goto(t, step) == pc' = [pc EXCEPT ![t] = step]

-----------------------------------------------------------------------------
\* EntropyQueue::push, called by entropy_push.

PushLoad ==
    /\ ppc = "idle"
    /\ pushed < MaxPushes
    /\ wrapping_sub(head, tail) < ENTROPY_QUEUE_SIZE
    /\ ppc' = "write"
    /\ pushed' = pushed + 1
    /\ UNCHANGED <<queueVars, poolVars, callVars, emitted>>

PushWrite ==
    /\ ppc = "write"
    /\ buffer' = [buffer EXCEPT ![Slot(head)] = pushed]
    /\ ppc' = "publish"
    /\ UNCHANGED <<head, tail, pushed, poolVars, callVars, emitted>>

PushPublish ==
    /\ ppc = "publish"
    /\ head' = wrapping_add(head, 1)
    /\ ppc' = "idle"
    /\ UNCHANGED <<buffer, tail, pushed, poolVars, callVars, emitted>>

push == PushLoad \/ PushWrite \/ PushPublish

-----------------------------------------------------------------------------
\* mix_entropy and extract_entropy take the gate of the pool, or return.

\* The manual mixer does not take the gate of the pool.
MixUngated(t, p) ==
    /\ pc[t] = "idle"
    /\ on' = [on EXCEPT ![t] = p]
    /\ blocks' = [blocks EXCEPT ![t] = -1]
    /\ Goto(t, "gate")
    /\ UNCHANGED <<queueVars, ppc, pushed, poolVars, at, chunks, snapshot, emitted>>

\* A call of mix_entropy has no blocks to fill, not even zero: -1.
MixEnter(t, p) ==
    /\ pc[t] = "idle"
    /\ ~ mixing[p]
    /\ mixing' = [mixing EXCEPT ![p] = TRUE]
    /\ on' = [on EXCEPT ![t] = p]
    /\ blocks' = [blocks EXCEPT ![t] = -1]
    /\ Goto(t, "gate")
    /\ UNCHANGED <<queueVars, ppc, pushed, consumer_gate, pool, reseed_count,
                   at, chunks, snapshot, emitted>>

ExtractEnter(t, p, n) ==
    /\ pc[t] = "idle"
    /\ ~ mixing[p]
    /\ mixing' = [mixing EXCEPT ![p] = TRUE]
    /\ on' = [on EXCEPT ![t] = p]
    /\ blocks' = [blocks EXCEPT ![t] = n]
    /\ Goto(t, "gate")
    /\ UNCHANGED <<queueVars, ppc, pushed, consumer_gate, pool, reseed_count,
                   at, chunks, snapshot, emitted>>

\* EntropyOperationGuard::drop on the way out of either.
Leave(t) ==
    /\ mixing' = [mixing EXCEPT ![on[t]] = FALSE]
    /\ on' = [on EXCEPT ![t] = NoPool]
    /\ blocks' = [blocks EXCEPT ![t] = 0]
    /\ Goto(t, "idle")

-----------------------------------------------------------------------------
\* mix_entropy_under_gate.

Gate(t) ==
    /\ pc[t] = "gate"
    /\ consumer_gate' = TRUE
    /\ Goto(t, IF consumer_gate THEN "mixed" ELSE "pop")
    /\ UNCHANGED <<queueVars, ppc, pushed, mixing, pool, reseed_count,
                   on, blocks, at, chunks, snapshot, emitted>>

\* EntropyQueue::pop, or the end of the loop.
PopLoad(t) ==
    /\ pc[t] = "pop"
    /\ IF Len(chunks[t]) < MAX_MIX_CHUNKS_PER_CALL /\ head # tail
       THEN at' = [at EXCEPT ![t] = tail] /\ Goto(t, "read")
       ELSE UNCHANGED at /\ Goto(t, "fold")
    /\ UNCHANGED <<queueVars, ppc, pushed, poolVars, on, blocks, chunks, snapshot, emitted>>

PopRead(t) ==
    /\ pc[t] = "read"
    /\ chunks' = [chunks EXCEPT ![t] = Append(@, buffer[Slot(at[t])])]
    /\ Goto(t, "zero")
    /\ UNCHANGED <<queueVars, ppc, pushed, poolVars, on, blocks, at, snapshot, emitted>>

\* The popped slot keeps its chunk.
PopKeeps(t) ==
    /\ pc[t] = "zero"
    /\ Goto(t, "publish")
    /\ UNCHANGED <<queueVars, ppc, pushed, poolVars, on, blocks, at, chunks, snapshot, emitted>>

PopZero(t) ==
    /\ pc[t] = "zero"
    /\ buffer' = [buffer EXCEPT ![Slot(at[t])] = 0]
    /\ Goto(t, "publish")
    /\ UNCHANGED <<head, tail, ppc, pushed, poolVars, on, blocks, at, chunks, snapshot, emitted>>

PopPublish(t) ==
    /\ pc[t] = "publish"
    /\ tail' = wrapping_add(at[t], 1)
    /\ at' = [at EXCEPT ![t] = 0]
    /\ Goto(t, "pop")
    /\ UNCHANGED <<buffer, head, ppc, pushed, poolVars, on, blocks, chunks, snapshot, emitted>>

\* The queue digest replaces the pool instead of being hashed into it.
FoldReplaces(t) ==
    /\ pc[t] = "fold"
    /\ IF chunks[t] # <<>>
       THEN pool' = [pool EXCEPT ![on[t]] = chunks[t]] /\ Goto(t, "reseed")
       ELSE UNCHANGED pool /\ Goto(t, "ungate")
    /\ chunks' = [chunks EXCEPT ![t] = <<>>]
    /\ UNCHANGED <<queueVars, ppc, pushed, mixing, consumer_gate, reseed_count,
                   on, blocks, at, snapshot, emitted>>

Fold(t) ==
    /\ pc[t] = "fold"
    /\ IF chunks[t] # <<>>
       THEN pool' = [pool EXCEPT ![on[t]] = @ \o chunks[t]] /\ Goto(t, "reseed")
       ELSE UNCHANGED pool /\ Goto(t, "ungate")
    /\ chunks' = [chunks EXCEPT ![t] = <<>>]
    /\ UNCHANGED <<queueVars, ppc, pushed, mixing, consumer_gate, reseed_count,
                   on, blocks, at, snapshot, emitted>>

Reseed(t) ==
    /\ pc[t] = "reseed"
    /\ reseed_count' = [reseed_count EXCEPT ![on[t]] = @ + 1]
    /\ Goto(t, "ungate")
    /\ UNCHANGED <<queueVars, ppc, pushed, mixing, consumer_gate, pool,
                   on, blocks, at, chunks, snapshot, emitted>>

\* The consumer gate is not released.
UngateNever(t) ==
    /\ pc[t] = "ungate"
    /\ Goto(t, "mixed")
    /\ UNCHANGED <<queueVars, ppc, pushed, poolVars, on, blocks, at, chunks, snapshot, emitted>>

Ungate(t) ==
    /\ pc[t] = "ungate"
    /\ consumer_gate' = FALSE
    /\ Goto(t, "mixed")
    /\ UNCHANGED <<queueVars, ppc, pushed, mixing, pool, reseed_count,
                   on, blocks, at, chunks, snapshot, emitted>>

-----------------------------------------------------------------------------
\* The rest of either call.

\* Extraction goes on from a pool that was never seeded.
MixedUnseeded(t) ==
    /\ pc[t] = "mixed"
    /\ IF blocks[t] = -1
       THEN Leave(t)
       ELSE Goto(t, "snapshot") /\ UNCHANGED <<mixing, on, blocks>>
    /\ UNCHANGED <<queueVars, ppc, pushed, consumer_gate, pool, reseed_count,
                   at, chunks, snapshot, emitted>>

\* mix_entropy returns; extract_entropy returns EntropyStarvation, or goes on.
Mixed(t) ==
    /\ pc[t] = "mixed"
    /\ IF blocks[t] = -1 \/ reseed_count[on[t]] = 0
       THEN Leave(t)
       ELSE Goto(t, "snapshot") /\ UNCHANGED <<mixing, on, blocks>>
    /\ UNCHANGED <<queueVars, ppc, pushed, consumer_gate, pool, reseed_count,
                   at, chunks, snapshot, emitted>>

Snapshot(t) ==
    /\ pc[t] = "snapshot"
    /\ IF blocks[t] = 0
       THEN Leave(t) /\ UNCHANGED snapshot
       ELSE /\ snapshot' = [snapshot EXCEPT ![t] = pool[on[t]]]
            /\ Goto(t, "commit")
            /\ UNCHANGED <<mixing, on, blocks>>
    /\ UNCHANGED <<queueVars, ppc, pushed, consumer_gate, pool, reseed_count,
                   at, chunks, emitted>>

\* The block is output but the pool keeps its state.
CommitKeeps(t) ==
    /\ pc[t] = "commit"
    /\ emitted' = emitted \cup {[state |-> snapshot[t], number |-> Cardinality(emitted)]}
    /\ blocks' = [blocks EXCEPT ![t] = @ - 1]
    /\ snapshot' = [snapshot EXCEPT ![t] = <<>>]
    /\ Goto(t, "snapshot")
    /\ UNCHANGED <<queueVars, ppc, pushed, poolVars, on, at, chunks>>

\* A block is output and the state stepped, both from the snapshot.
Commit(t) ==
    /\ pc[t] = "commit"
    /\ emitted' = emitted \cup {[state |-> snapshot[t], number |-> Cardinality(emitted)]}
    /\ pool' = [pool EXCEPT ![on[t]] = Append(snapshot[t], 0)]
    /\ blocks' = [blocks EXCEPT ![t] = @ - 1]
    /\ snapshot' = [snapshot EXCEPT ![t] = <<>>]
    /\ Goto(t, "snapshot")
    /\ UNCHANGED <<queueVars, ppc, pushed, mixing, consumer_gate, reseed_count,
                   on, at, chunks>>

mix_entropy_under_gate(t) ==
    \/ Gate(t) \/ PopLoad(t) \/ PopRead(t) \/ PopZero(t) \/ PopPublish(t)
    \/ Fold(t) \/ Reseed(t) \/ Ungate(t)

Proceed(t) == mix_entropy_under_gate(t) \/ Mixed(t) \/ Snapshot(t) \/ Commit(t)

\* Blocks output so far and still to be output by the calls under way.
Promised == Cardinality(emitted)
            + Cardinality(UNION {{t} \X (1 .. blocks[t]) : t \in Threads})

Next ==
    \/ push
    \/ \E t \in Threads :
           \/ \E p \in Pools :
                  \/ MixEnter(t, p)
                  \/ \E n \in 0 .. MaxBlocks - Promised : ExtractEnter(t, p, n)
           \/ Proceed(t)

Spec == Init /\ [][Next]_vars

\* Threads run: a call under way takes its next step.
FairSpec == Spec /\ \A t \in Threads : WF_vars(Proceed(t))

\* The host also keeps calling entropy_mix from every thread that is free.
MixingSpec ==
    FairSpec /\ \A t \in Threads : WF_vars(\E p \in Pools : MixEnter(t, p))

-----------------------------------------------------------------------------
Used == wrapping_sub(head, tail)

\* Every variable keeps its type; the queue never holds more chunks than it
\* has slots, and one call never mixes more than its bound (push,
\* MAX_MIX_CHUNKS_PER_CALL).
TypeOK ==
    /\ buffer \in [0 .. ENTROPY_QUEUE_SIZE - 1 -> 0 .. MaxPushes]
    /\ head \in 0 .. W - 1 /\ tail \in 0 .. W - 1
    /\ Used <= ENTROPY_QUEUE_SIZE
    /\ ppc \in {"idle", "write", "publish"}
    /\ pushed \in 0 .. MaxPushes
    /\ mixing \in [Pools -> BOOLEAN]
    /\ consumer_gate \in BOOLEAN
    /\ reseed_count \in [Pools -> 0 .. MaxPushes]
    /\ on \in [Threads -> Pools \cup {NoPool}]
    /\ blocks \in [Threads -> -1 .. MaxBlocks]
    /\ at \in [Threads -> 0 .. W - 1]
    /\ \A t \in Threads : Len(chunks[t]) <= MAX_MIX_CHUNKS_PER_CALL

\* Steps of pop in which the consumer touches the slot at its tail.
Popping(t) == pc[t] \in {"read", "zero", "publish"}

\* Chunks whose push has completed.
Published == 1 .. (IF ppc = "idle" THEN pushed ELSE pushed - 1)

\* The places where chunk c is: queue slots from tail to head, except one whose
\* chunk is already in the hands of a consumer; hashers of calls; pool states.
Places(c) ==
    LET held == {k \in 0 .. 0 : \E t \in Threads : pc[t] \in {"zero", "publish"}}
        queued == {j \in (0 .. Used - 1) \ held : buffer[Slot(wrapping_add(tail, j))] = c}
    IN  {<<"queue", j>> : j \in queued}
        \cup (UNION {{<<t, i>> : i \in {j \in DOMAIN chunks[t] : chunks[t][j] = c}} :
                        t \in Threads})
        \cup (UNION {{<<p, i>> : i \in {j \in DOMAIN pool[p] : pool[p][j] = c}} :
                        p \in Pools})

\* No chunk of entropy is lost or used twice: the queue has one consumer at a time
\* although any thread may mix into any pool, that consumer never touches the slot
\* the producer is writing, and each chunk pushed is in exactly one place, still
\* queued, being hashed, or mixed into one pool (pop, mix_entropy_under_gate and
\* GLOBAL_ENTROPY_QUEUE_CONSUMER_GATE).
ChunksMixedOnce ==
    /\ \A t, u \in Threads : Popping(t) /\ Popping(u) => t = u
    /\ \A t \in Threads : Popping(t) /\ ppc # "idle" => Slot(at[t]) # Slot(head)
    /\ \A c \in Published : \E x \in Places(c) : Places(c) = {x}

\* A block of output commits the state that follows its own snapshot: nothing
\* was mixed in between that the commit would erase (extract_entropy hashes
\* outside the lock, between two locked sections).
SnapshotCurrent ==
    \A t \in Threads : pc[t] = "commit" => pool[on[t]] = snapshot[t]

\* No two blocks of output, of any call, thread or pool, come from the same
\* state (the 0x01 step after every block of extract_entropy).
OutputsUnique ==
    \A a, b \in emitted : a.state = b.state => a = b

\* Output is only ever made from a state that some chunk was mixed into
\* (EntropyStarvation in extract_entropy).
SeededOutput ==
    \A a \in emitted : \E i \in DOMAIN a.state : a.state[i] # 0

\* A slot outside the queued range holds no entropy once its pop is over
\* (secure_zeroize in EntropyQueue::pop).
Scrubbed ==
    \A i \in DOMAIN buffer :
        buffer[i] # 0 =>
            \/ \E k \in 0 .. Used - 1 : i = Slot(wrapping_add(tail, k))
            \/ ppc = "publish" /\ i = Slot(head)

\* While the host keeps mixing, every chunk pushed reaches a pool: a lost gate
\* is retried by a later call and never left closed (EntropyOperationGuard).
EntropyReachesPool ==
    \A c \in 1 .. MaxPushes :
        c \in Published ~> \E p \in Pools : c \in Range(pool[p])
=============================================================================
