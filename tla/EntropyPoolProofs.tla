------------------------- MODULE EntropyPoolProofs --------------------------
(***************************************************************************)
(* What holds of EntropyPool for every queue size, width of the counters,  *)
(* number of threads, pools and pushes.                                    *)
(***************************************************************************)
EXTENDS EntropyPool, TLAPS

Steps == {"idle", "gate", "pop", "read", "zero", "publish", "fold", "reseed", "ungate",
          "mixed", "snapshot", "commit"}

Index == 0 .. ENTROPY_QUEUE_SIZE - 1

Types ==
    /\ buffer \in [Index -> Nat]
    /\ head \in 0 .. W - 1 /\ tail \in 0 .. W - 1
    /\ Used \in 0 .. ENTROPY_QUEUE_SIZE
    /\ ppc \in {"idle", "write", "publish"} /\ pushed \in Nat
    /\ mixing \in [Pools -> BOOLEAN]
    /\ pool \in [Pools -> Seq(Nat)] /\ reseed_count \in [Pools -> Nat]
    /\ pc \in [Threads -> Steps]
    /\ on \in [Threads -> Pools \cup {NoPool}]
    /\ at \in [Threads -> 0 .. W - 1]
    /\ chunks \in [Threads -> Seq(Nat)] /\ snapshot \in [Threads -> Seq(Nat)]
    /\ \A a \in emitted : a.state \in Seq(Nat)

\* A thread between the two uses of the consumer gate.
Draining(t) == pc[t] \in {"pop", "read", "zero", "publish", "fold", "reseed", "ungate"}

\* Each gate has at most one thread behind it, and is closed while it has.
Gates ==
    /\ \A t \in Threads : pc[t] # "idle" => on[t] \in Pools /\ mixing[on[t]]
    /\ \A t, u \in Threads : pc[t] # "idle" /\ pc[u] # "idle" /\ on[t] = on[u] => t = u
    /\ \A t \in Threads : Draining(t) => consumer_gate
    /\ \A t, u \in Threads : Draining(t) /\ Draining(u) => t = u

\* Pushes that have completed.
Done == IF ppc = "idle" THEN pushed ELSE pushed - 1

\* The chunk at the tail has been read, but the tail has not moved yet.
Held == \E t \in Threads : pc[t] \in {"zero", "publish"}

\* Chunks that have left the queue.
Taken == Done - Used + (IF Held THEN 1 ELSE 0)

\* The queue holds the latest chunks in the order of their pushes, and nothing else.
Queue ==
    /\ Used <= Done
    /\ ppc # "idle" => Used < ENTROPY_QUEUE_SIZE /\ pushed > 0
    /\ ppc = "publish" => buffer[Slot(head)] = pushed
    /\ \A t \in Threads : Popping(t) => Used > 0 /\ at[t] = tail
    /\ \A t \in Threads : pc[t] = "publish" => buffer[Slot(tail)] = 0
    /\ \A j \in 0 .. Used - 1 :
           j # 0 \/ ~Held => buffer[Slot(wrapping_add(tail, j))] = Done - Used + j + 1
    /\ Scrubbed

InCall(t, i, c) == i \in DOMAIN chunks[t] /\ chunks[t][i] = c
InPool(p, i, c) == i \in DOMAIN pool[p] /\ pool[p][i] = c

\* Between two drains the hashers are empty; hashers and pools hold chunks that have
\* left the queue, and pools the counters of the generator, 0, too.
Emptied ==
    \A t \in Threads :
        pc[t] \notin {"pop", "read", "zero", "publish", "fold"} => chunks[t] = <<>>
CallChunks == \A t \in Threads : \A i \in DOMAIN chunks[t] : chunks[t][i] \in 1 .. Taken
PoolChunks == \A p \in Pools : \A i \in DOMAIN pool[p] : pool[p][i] \in 0 .. Taken

\* Each chunk that has left the queue is in one hasher or in one pool, once.
Placed ==
    \A c \in 1 .. Taken : \/ \E t \in Threads, i \in Nat : InCall(t, i, c)
                          \/ \E p \in Pools, i \in Nat : InPool(p, i, c)
OnceInCall ==
    \A t \in Threads, i, j \in Nat, c \in 1 .. Taken :
        InCall(t, i, c) /\ InCall(t, j, c) => i = j
Apart ==
    \A t \in Threads, p \in Pools, i, j \in Nat, c \in 1 .. Taken :
        ~(InCall(t, i, c) /\ InPool(p, j, c))
OnceInPool ==
    \A p, q \in Pools, i, j \in Nat, c \in 1 .. Taken :
        InPool(p, i, c) /\ InPool(q, j, c) => p = q /\ i = j

Contents ==
    Emptied /\ CallChunks /\ PoolChunks /\ Placed /\ OnceInCall /\ Apart /\ OnceInPool

Seeded(s) == \E i \in DOMAIN s : s[i] # 0

\* State s has been left behind for a longer one.
Followed(s, r) == Len(s) < Len(r) /\ \A i \in DOMAIN s : r[i] = s[i]

\* Output is made from the seeded state of a pool, which is left behind at once.
Output ==
    /\ SnapshotCurrent
    /\ \A t \in Threads : pc[t] \in {"snapshot", "commit"} => reseed_count[on[t]] # 0
    /\ \A t \in Threads : pc[t] = "reseed" => Seeded(pool[on[t]])
    /\ \A p \in Pools : reseed_count[p] # 0 => Seeded(pool[p])
    /\ SeededOutput
    /\ \A a \in emitted : \E p \in Pools : Followed(a.state, pool[p])
    /\ OutputsUnique

IInv == Types /\ Gates /\ Queue /\ Contents /\ Output

-----------------------------------------------------------------------------
\* The free-running counters count modulo W, and the slot one names is its remainder
\* modulo the size of the queue, which divides W.
LEMMA Sizes ==
    /\ ENTROPY_QUEUE_SIZE \in Nat \ {0} /\ W \in Nat \ {0}
    /\ 2 * ENTROPY_QUEUE_SIZE <= W
  <1>1. ENTROPY_QUEUE_SIZE \in Nat \ {0} /\ ENTROPY_QUEUE_SIZE >= 1
    BY EntropyAssumption
  <1>2. PICK k \in 2 .. W : W = ENTROPY_QUEUE_SIZE * k
    BY EntropyAssumption
  <1>3. k \in Nat /\ k >= 2
    BY <1>2
  <1>4. ENTROPY_QUEUE_SIZE * k \in Nat /\ ENTROPY_QUEUE_SIZE * k >= 2 * ENTROPY_QUEUE_SIZE
    BY <1>1, <1>3
  <1> QED  BY <1>1, <1>2, <1>3, <1>4

\* Division with remainder.
LEMMA Remainder ==
    ASSUME NEW a \in Int, NEW n \in Nat \ {0}
    PROVE  /\ a % n \in 0 .. n - 1
           /\ \E q \in Int : a = n * q + (a % n)
  <1>1. a % n \in 0 .. n - 1
    OBVIOUS
  <1>2. a \div n \in Int /\ a = n * (a \div n) + (a % n)
    OBVIOUS
  <1> QED  BY <1>1, <1>2, Zenon

\* Numbers with one remainder differ by a multiple, so by none or by at least n.
LEMMA SameRemainder ==
    ASSUME NEW a \in Int, NEW b \in Int, NEW n \in Nat \ {0}, a % n = b % n, NEW m \in Int
    PROVE  ~(0 < a - b + n * m /\ a - b + n * m < n)
  <1>1. PICK p \in Int : a = n * p + (a % n)
    BY Remainder, Zenon
  <1>2. PICK q \in Int : b = n * q + (b % n)
    BY Remainder, Zenon
  <1>3. a - b + n * m = n * (p - q + m)
    <2> DEFINE np == n * p
               nq == n * q
               nm == n * m
               r == a % n
    <2>1. np \in Int /\ nq \in Int /\ nm \in Int /\ r \in Int
      BY Remainder
    <2>2. a = np + r /\ b = nq + r
      BY <1>1, <1>2
    <2>3. n * (p - q + m) = np - nq + nm
      OBVIOUS
    <2> HIDE DEF np, nq, nm, r
    <2>4. a - b + nm = np - nq + nm
      BY <2>1, <2>2
    <2> QED  BY <2>3, <2>4 DEF nm
  <1>4. p - q + m \in Int
    OBVIOUS
  <1>5. \A z \in Int : ~(0 < n * z /\ n * z < n)
    <2>1. SUFFICES ASSUME NEW z \in Int, 0 < n * z, n * z < n PROVE FALSE
      OBVIOUS
    <2>2. CASE z <= 0
      <3>1. n * z <= 0
        BY <2>2
      <3> QED  BY <2>1, <3>1
    <2>3. CASE z >= 1
      <3>1. n * z >= n
        BY <2>3
      <3> QED  BY <2>1, <3>1
    <2> QED  BY <2>2, <2>3
  <1> QED  BY <1>3, <1>4, <1>5

\* Within one wrap the remainder is the number itself, or W less.
LEMMA Wraps ==
    ASSUME NEW w \in Nat \ {0}, NEW a \in 0 .. 2 * w - 1
    PROVE  a % w = IF a < w THEN a ELSE a - w
  <1>1. a % w \in 0 .. w - 1 /\ a % w \in Int
    BY Remainder
  <1>2. PICK q \in Int : a = w * q + (a % w)
    <2>1. a \in Int
      OBVIOUS
    <2> QED  BY <2>1, Remainder, Zenon
  <1>3. q = 0 \/ q = 1
    <2>1. ~(q <= -1)
      <3>1. q <= -1 => w * q <= -w
        OBVIOUS
      <3> QED  BY <1>1, <1>2, <3>1
    <2>2. ~(q >= 2)
      <3>1. q >= 2 => w * q >= 2 * w
        OBVIOUS
      <3> QED  BY <1>1, <1>2, <3>1
    <2> QED  BY <2>1, <2>2
  <1> QED  BY <1>1, <1>2, <1>3

\* A counter moved on by no more than the size of the queue.
LEMMA Moved ==
    ASSUME NEW x \in 0 .. W - 1, NEW d \in 0 .. ENTROPY_QUEUE_SIZE
    PROVE  /\ wrapping_add(x, d) = IF x + d < W THEN x + d ELSE x + d - W
           /\ wrapping_add(x, d) \in 0 .. W - 1
  <1> DEFINE a == x + d
  <1>1. a \in 0 .. 2 * W - 1
    BY Sizes
  <1>2. a % W = IF a < W THEN a ELSE a - W
    <2> HIDE DEF a
    <2> QED  BY <1>1, Sizes, Wraps, Zenon
  <1> QED  BY <1>1, <1>2, Sizes DEF wrapping_add

\* How far one counter is ahead of another.
LEMMA Ahead ==
    ASSUME NEW x \in 0 .. W - 1, NEW y \in 0 .. W - 1
    PROVE  /\ wrapping_sub(x, y) = IF x >= y THEN x - y ELSE x - y + W
           /\ wrapping_sub(x, y) \in 0 .. W - 1
  <1> DEFINE a == x + W - y
  <1>1. a \in 0 .. 2 * W - 1
    BY Sizes
  <1>2. a % W = IF a < W THEN a ELSE a - W
    <2> HIDE DEF a
    <2> QED  BY <1>1, Sizes, Wraps, Zenon
  <1> QED  BY <1>1, <1>2, Sizes DEF wrapping_sub

\* The positions of the queue name different slots.
LEMMA SlotsDiffer ==
    ASSUME NEW x \in 0 .. W - 1, NEW i \in Index, NEW j \in Index,
           Slot(wrapping_add(x, i)) = Slot(wrapping_add(x, j))
    PROVE  i = j
  <1>1. SUFFICES ASSUME NEW k \in Index, NEW l \in Index, k < l,
                        Slot(wrapping_add(x, k)) = Slot(wrapping_add(x, l))
                 PROVE  FALSE
    BY DEF Index
  <1> DEFINE a == wrapping_add(x, l)
             b == wrapping_add(x, k)
  <1>2. /\ k \in 0 .. ENTROPY_QUEUE_SIZE /\ l \in 0 .. ENTROPY_QUEUE_SIZE
        /\ l - k \in 0 .. ENTROPY_QUEUE_SIZE - 1 /\ 0 < l - k
    BY <1>1, Sizes DEF Index
  <1>3. a \in Int /\ b \in Int /\ (a - b = l - k \/ a - b + W = l - k)
    <2>1. a = IF x + l < W THEN x + l ELSE x + l - W
      BY <1>2, Moved, Zenon
    <2>2. b = IF x + k < W THEN x + k ELSE x + k - W
      BY <1>2, Moved, Zenon
    <2> HIDE DEF a, b
    <2> QED  BY <1>2, <2>1, <2>2, Sizes
  <1>4. PICK m \in Nat : W = ENTROPY_QUEUE_SIZE * m
    BY EntropyAssumption
  <1>5. a % ENTROPY_QUEUE_SIZE = b % ENTROPY_QUEUE_SIZE
    BY <1>1 DEF Slot
  <1> HIDE DEF a, b
  <1>6. \A z \in Int : ~(0 < a - b + ENTROPY_QUEUE_SIZE * z
                         /\ a - b + ENTROPY_QUEUE_SIZE * z < ENTROPY_QUEUE_SIZE)
    BY <1>3, <1>5, Sizes, SameRemainder, Zenon
  <1>7. ~(0 < a - b /\ a - b < ENTROPY_QUEUE_SIZE)
    <2>1. ENTROPY_QUEUE_SIZE * 0 = 0
      BY Sizes
    <2> QED  BY <1>3, <1>6, <2>1
  <1>8. ~(0 < a - b + W /\ a - b + W < ENTROPY_QUEUE_SIZE)
    BY <1>4, <1>6
  <1> QED  BY <1>2, <1>3, <1>7, <1>8, Sizes

\* A push moves the head over the slot after the last one in use.
LEMMA HeadMoves ==
    ASSUME NEW h \in 0 .. W - 1, NEW t \in 0 .. W - 1, wrapping_sub(h, t) < ENTROPY_QUEUE_SIZE
    PROVE  /\ wrapping_sub(wrapping_add(h, 1), t) = wrapping_sub(h, t) + 1
           /\ wrapping_add(t, wrapping_sub(h, t)) = h
  <1> DEFINE u == wrapping_sub(h, t)
             n == wrapping_add(h, 1)
  <1>1. u = (IF h >= t THEN h - t ELSE h - t + W) /\ u \in 0 .. W - 1
    BY Ahead
  <1>2. n = (IF h + 1 < W THEN h + 1 ELSE h + 1 - W) /\ n \in 0 .. W - 1
    <2>1. 1 \in 0 .. ENTROPY_QUEUE_SIZE
      BY Sizes
    <2> QED  BY <2>1, Moved
  <1>3. wrapping_sub(n, t) = IF n >= t THEN n - t ELSE n - t + W
    <2> HIDE DEF n
    <2> QED  BY <1>2, Ahead, Zenon
  <1>4. wrapping_add(t, u) = IF t + u < W THEN t + u ELSE t + u - W
    <2> HIDE DEF u
    <2>1. u < ENTROPY_QUEUE_SIZE
      BY DEF u
    <2>2. u \in 0 .. ENTROPY_QUEUE_SIZE
      BY <1>1, <2>1, Sizes
    <2> QED  BY <2>2, Moved
  <1>5. u < ENTROPY_QUEUE_SIZE
    OBVIOUS
  <1> HIDE DEF u, n
  <1>6. wrapping_sub(n, t) = u + 1
    BY <1>1, <1>2, <1>3, <1>5, Sizes
  <1>7. wrapping_add(t, u) = h
    BY <1>1, <1>4, Sizes
  <1> QED  BY <1>6, <1>7 DEF u, n

\* A pop moves the tail, and with it the position of every slot in use.
LEMMA TailMoves ==
    ASSUME NEW h \in 0 .. W - 1, NEW t \in 0 .. W - 1, wrapping_sub(h, t) > 0
    PROVE  /\ wrapping_sub(h, wrapping_add(t, 1)) = wrapping_sub(h, t) - 1
           /\ wrapping_add(t, 0) = t
           /\ \A j \in Index : wrapping_add(wrapping_add(t, 1), j) = wrapping_add(t, j + 1)
  <1> DEFINE u == wrapping_sub(h, t)
             n == wrapping_add(t, 1)
  <1>1. u = (IF h >= t THEN h - t ELSE h - t + W) /\ u \in 0 .. W - 1
    BY Ahead
  <1>2. n = (IF t + 1 < W THEN t + 1 ELSE t + 1 - W) /\ n \in 0 .. W - 1
    <2>1. 1 \in 0 .. ENTROPY_QUEUE_SIZE
      BY Sizes
    <2> QED  BY <2>1, Moved
  <1>3. wrapping_sub(h, n) = IF h >= n THEN h - n ELSE h - n + W
    <2> HIDE DEF n
    <2> QED  BY <1>2, Ahead, Zenon
  <1>4. u > 0
    OBVIOUS
  <1> HIDE DEF u, n
  <1>5. wrapping_sub(h, n) = u - 1
    BY <1>1, <1>2, <1>3, <1>4, Sizes
  <1>6. wrapping_add(t, 0) = t
    BY Moved, Sizes
  <1>7. ASSUME NEW j \in Index PROVE wrapping_add(n, j) = wrapping_add(t, j + 1)
    <2> DEFINE i == j + 1
    <2>1. j \in 0 .. ENTROPY_QUEUE_SIZE /\ i \in 0 .. ENTROPY_QUEUE_SIZE
      BY Sizes DEF Index
    <2>2. wrapping_add(n, j) = IF n + j < W THEN n + j ELSE n + j - W
      BY <1>2, <2>1, Moved
    <2>3. wrapping_add(t, i) = IF t + i < W THEN t + i ELSE t + i - W
      <3> HIDE DEF i
      <3> QED  BY <2>1, Moved
    <2> QED  BY <1>2, <2>1, <2>2, <2>3, Sizes DEF Index
  <1> QED  BY <1>5, <1>6, <1>7 DEF u, n

\* A counter names a slot of the queue.
LEMMA SlotType ==
    ASSUME NEW x \in 0 .. W - 1
    PROVE  Slot(x) \in Index
  BY Sizes, Remainder DEF Slot, Index

\* Sequences that grow at the end.
LEMMA Appended ==
    ASSUME NEW s \in Seq(Nat), NEW e \in Nat
    PROVE  /\ Append(s, e) \in Seq(Nat)
           /\ Len(Append(s, e)) = Len(s) + 1 /\ Len(s) \in Nat
           /\ DOMAIN s = 1 .. Len(s) /\ DOMAIN Append(s, e) = 1 .. Len(s) + 1
           /\ \A i \in DOMAIN s : Append(s, e)[i] = s[i]
           /\ Append(s, e)[Len(s) + 1] = e
  OBVIOUS

\* One sequence after another.
LEMMA Joined ==
    ASSUME NEW s \in Seq(Nat), NEW r \in Seq(Nat), NEW j, j = s \o r
    PROVE  /\ j \in Seq(Nat) /\ Len(j) = Len(s) + Len(r) /\ Len(s) \in Nat /\ Len(r) \in Nat
           /\ DOMAIN s = 1 .. Len(s) /\ DOMAIN r = 1 .. Len(r) /\ DOMAIN j = 1 .. Len(j)
           /\ \A i \in DOMAIN s : i \in DOMAIN j /\ j[i] = s[i]
           /\ \A i \in DOMAIN r : Len(s) + i \in DOMAIN j /\ j[Len(s) + i] = r[i]
           /\ \A i \in DOMAIN j :
                  i \in DOMAIN s \/ (i - Len(s) \in DOMAIN r /\ j[i] = r[i - Len(s)])
  OBVIOUS

-----------------------------------------------------------------------------
\* The queue, the hashers and the pools begin empty, and no call is running.
LEMMA InitIInv == Init => IInv
  <1> SUFFICES ASSUME Init PROVE IInv
    OBVIOUS
  <1>1. Used = 0
    BY Sizes, Ahead DEF Init, Used
  <1>2. Types
    BY <1>1, Sizes DEF Init, Types, Steps, Index
  <1>3. Gates
    BY DEF Init, Gates, Draining
  <1>4. ~Held /\ Done = 0 /\ Taken = 0
    BY <1>1 DEF Init, Held, Done, Taken
  <1>5. Queue
    BY <1>1, <1>4 DEF Init, Queue, Popping, Scrubbed
  <1>6. Contents
    BY <1>4 DEF Init, Contents, InCall, InPool,
               Emptied, CallChunks, PoolChunks, Placed, OnceInCall, Apart, OnceInPool
  <1>7. Output
    BY DEF Init, Output, SnapshotCurrent, SeededOutput, OutputsUnique
  <1> QED  BY <1>2, <1>3, <1>5, <1>6, <1>7 DEF IInv

-----------------------------------------------------------------------------
\* The step of one thread after it moved.
LEMMA Elsewhere ==
    ASSUME pc \in [Threads -> Steps], NEW t \in Threads, NEW step \in Steps, Goto(t, step)
    PROVE  /\ pc' \in [Threads -> Steps] /\ pc'[t] = step
           /\ \A u \in Threads : u # t => pc'[u] = pc[u]
  BY DEF Goto

\* Every step keeps the types, and with them that no more slots are used than exist.
LEMMA TypesKept ==
    ASSUME IInv, [Next]_vars
    PROVE  Types'
  <1> USE DEF IInv, Types
  <1>1. CASE PushLoad
    BY <1>1 DEF PushLoad, queueVars, poolVars, callVars, Used
  <1>2. CASE PushWrite
    BY <1>2, SlotType DEF PushWrite, poolVars, callVars, Used
  <1>3. CASE PushPublish
    <2>1. head' \in 0 .. W - 1
      BY <1>3, Moved, Sizes DEF PushPublish
    <2>2. Used' = Used + 1 /\ Used < ENTROPY_QUEUE_SIZE
      BY <1>3, HeadMoves DEF PushPublish, Queue, Used
    <2> QED  BY <1>3, <2>1, <2>2, Sizes DEF PushPublish, poolVars, callVars
  <1>4. ASSUME NEW t \in Threads, NEW p \in Pools, MixEnter(t, p)
        PROVE  Types'
    BY <1>4 DEF MixEnter, Goto, Steps, queueVars, Used
  <1>5. ASSUME NEW t \in Threads, NEW p \in Pools, NEW n, ExtractEnter(t, p, n)
        PROVE  Types'
    BY <1>5 DEF ExtractEnter, Goto, Steps, queueVars, Used
  <1>6. ASSUME NEW t \in Threads, Gate(t) PROVE Types'
    BY <1>6 DEF Gate, Goto, Steps, queueVars, Used
  <1>7. ASSUME NEW t \in Threads, PopLoad(t) PROVE Types'
    BY <1>7, Zenon DEF PopLoad, Goto, Steps, queueVars, poolVars, Used
  <1>8. ASSUME NEW t \in Threads, PopRead(t) PROVE Types'
    <2>1. buffer[Slot(at[t])] \in Nat
      BY SlotType
    <2>2. Append(chunks[t], buffer[Slot(at[t])]) \in Seq(Nat)
      BY <2>1, Appended
    <2> QED  BY <1>8, <2>2 DEF PopRead, Goto, Steps, queueVars, poolVars, Used
  <1>9. ASSUME NEW t \in Threads, PopZero(t) PROVE Types'
    BY <1>9, SlotType DEF PopZero, Goto, Steps, poolVars, Used
  <1>10. ASSUME NEW t \in Threads, PopPublish(t) PROVE Types'
    <2>1. at[t] = tail /\ Used > 0
      BY <1>10 DEF PopPublish, Queue, Popping
    <2>2. tail' \in 0 .. W - 1
      BY <1>10, Moved, Sizes DEF PopPublish
    <2>3. Used' = Used - 1
      BY <1>10, <2>1, TailMoves DEF PopPublish, Used
    <2> QED  BY <1>10, <2>1, <2>2, <2>3, Sizes DEF PopPublish, Goto, Steps, poolVars
  <1>11. ASSUME NEW t \in Threads, Fold(t) PROVE Types'
    <2>1. on[t] \in Pools
      BY <1>11 DEF Fold, Gates
    <2>2. pool[on[t]] \o chunks[t] \in Seq(Nat) /\ <<>> \in Seq(Nat)
      BY <2>1, Joined
    <2>3. pool' \in [Pools -> Seq(Nat)]
      BY <1>11, <2>2, Zenon DEF Fold
    <2> QED  BY <1>11, <2>2, <2>3, Zenon DEF Fold, Goto, Steps, queueVars, Used
  <1>12. ASSUME NEW t \in Threads, Reseed(t) PROVE Types'
    <2>1. on[t] \in Pools
      BY <1>12 DEF Reseed, Gates
    <2>2. reseed_count[on[t]] + 1 \in Nat
      BY <2>1
    <2> QED  BY <1>12, <2>2, Zenon DEF Reseed, Goto, Steps, queueVars, Used
  <1>13. ASSUME NEW t \in Threads, Ungate(t) PROVE Types'
    BY <1>13 DEF Ungate, Goto, Steps, queueVars, Used
  <1>14. ASSUME NEW t \in Threads, Mixed(t) PROVE Types'
    BY <1>14, Zenon DEF Mixed, Leave, Goto, Steps, queueVars, Used
  <1>15. ASSUME NEW t \in Threads, Snapshot(t) PROVE Types'
    <2>1. pool[on[t]] \in Seq(Nat)
      BY <1>15 DEF Snapshot, Gates
    <2> QED  BY <1>15, <2>1, Zenon DEF Snapshot, Leave, Goto, Steps, queueVars, Used
  <1>16. ASSUME NEW t \in Threads, Commit(t) PROVE Types'
    <2>1. Append(snapshot[t], 0) \in Seq(Nat) /\ <<>> \in Seq(Nat)
      BY Appended
    <2>2. \A a \in emitted' : a.state \in Seq(Nat)
      BY <1>16 DEF Commit
    <2> QED  BY <1>16, <2>1, <2>2, Zenon DEF Commit, Goto, Steps, queueVars, Used
  <1>17. CASE UNCHANGED vars
    BY <1>17 DEF vars, queueVars, poolVars, callVars, Used
  <1> QED  BY <1>1, <1>2, <1>3, <1>4, <1>5, <1>6, <1>7, <1>8, <1>9, <1>10, <1>11, <1>12,
           <1>13, <1>14, <1>15, <1>16, <1>17, Zenon DEF Next, push, Proceed, mix_entropy_under_gate

\* Only the thread that opens a gate again has been behind it.
LEMMA GatesKept ==
    ASSUME IInv, [Next]_vars
    PROVE  Gates'
  <1> USE DEF Gates, Draining
  <1>0. /\ Gates /\ pc \in [Threads -> Steps] /\ on \in [Threads -> Pools \cup {NoPool}]
        /\ mixing \in [Pools -> BOOLEAN]
    BY DEF IInv, Types
  <1>1. CASE push
    BY <1>0, <1>1 DEF push, PushLoad, PushWrite, PushPublish, poolVars, callVars
  <1>2. ASSUME NEW t \in Threads, NEW p \in Pools,
               MixEnter(t, p) \/ \E n : ExtractEnter(t, p, n)
        PROVE  Gates'
    <2>1. /\ Goto(t, "gate") /\ pc[t] = "idle" /\ ~mixing[p]
          /\ mixing' = [mixing EXCEPT ![p] = TRUE] /\ on' = [on EXCEPT ![t] = p]
          /\ UNCHANGED consumer_gate
      BY <1>2 DEF MixEnter, ExtractEnter
    <2>2. pc'[t] = "gate" /\ \A u \in Threads : u # t => pc'[u] = pc[u] /\ on'[u] = on[u]
      BY <1>0, <2>1 DEF Goto
    <2>3. on'[t] = p /\ mixing'[p] /\ \A q \in Pools : mixing[q] => mixing'[q]
      BY <1>0, <2>1
    <2>4. \A u \in Threads : u # t /\ pc[u] # "idle" => on[u] # p
      BY <1>0, <2>1
    <2> QED  BY <1>0, <2>1, <2>2, <2>3, <2>4
  <1>3. ASSUME NEW t \in Threads, Gate(t)
        PROVE  Gates'
    <2>1. /\ pc'[t] = (IF consumer_gate THEN "mixed" ELSE "pop") /\ pc[t] = "gate"
          /\ \A u \in Threads : u # t => pc'[u] = pc[u]
          /\ consumer_gate' /\ UNCHANGED <<on, mixing>>
      BY <1>0, <1>3 DEF Gate, Goto
    <2> QED  BY <1>0, <2>1
  <1>4. ASSUME NEW t \in Threads, Ungate(t)
        PROVE  Gates'
    <2>1. /\ pc'[t] = "mixed" /\ pc[t] = "ungate"
          /\ \A u \in Threads : u # t => pc'[u] = pc[u]
          /\ UNCHANGED <<on, mixing>>
      BY <1>0, <1>4 DEF Ungate, Goto
    <2>2. \A u \in Threads : ~Draining(u)'
      BY <1>0, <2>1
    <2> QED  BY <1>0, <2>1, <2>2
  <1>5. ASSUME NEW t \in Threads, Leave(t), pc[t] # "idle", ~Draining(t), UNCHANGED consumer_gate
        PROVE  Gates'
    <2>1. /\ pc'[t] = "idle" /\ \A u \in Threads : u # t => pc'[u] = pc[u] /\ on'[u] = on[u]
          /\ \A q \in Pools : q # on[t] => mixing'[q] = mixing[q]
      BY <1>0, <1>5 DEF Leave, Goto
    <2> QED  BY <1>0, <1>5, <2>1
  <1>6. ASSUME NEW t \in Threads, NEW step \in Steps \ {"idle"}, Goto(t, step), pc[t] # "idle",
               step \in {"pop", "read", "zero", "publish", "fold", "reseed", "ungate"}
                   => Draining(t),
               UNCHANGED <<on, mixing, consumer_gate>>
        PROVE  Gates'
    <2>1. pc'[t] = step /\ \A u \in Threads : u # t => pc'[u] = pc[u]
      BY <1>0, <1>6 DEF Goto
    <2> QED  BY <1>0, <1>6, <2>1
  <1> HIDE DEF Gates
  <1>7. ASSUME NEW t \in Threads,
               PopLoad(t) \/ PopRead(t) \/ PopZero(t) \/ PopPublish(t) \/ Fold(t) \/ Reseed(t)
        PROVE  Gates'
    BY <1>6, <1>7, Zenon DEF PopLoad, PopRead, PopZero, PopPublish, Fold, Reseed, Steps, poolVars
  <1>8. ASSUME NEW t \in Threads, Mixed(t) \/ Snapshot(t) \/ Commit(t)
        PROVE  Gates'
    BY <1>5, <1>6, <1>8 DEF Mixed, Snapshot, Commit, Steps
  <1>9. CASE UNCHANGED vars
    BY <1>0, <1>9 DEF vars, poolVars, callVars, Gates
  <1> QED  BY <1>1, <1>2, <1>3, <1>4, <1>7, <1>8, <1>9
           DEF Next, Proceed, mix_entropy_under_gate

-----------------------------------------------------------------------------
\* The slot at a distance from the tail.
Pos(j) == Slot(wrapping_add(tail, j))

\* The positions of the queue, counted from the tail, are different slots: the one the
\* head names is not in use.
LEMMA Positions ==
    ASSUME IInv
    PROVE  /\ Used \in 0 .. ENTROPY_QUEUE_SIZE
           /\ \A j \in Index : Pos(j) \in Index
           /\ \A i, j \in Index : Pos(i) = Pos(j) => i = j
           /\ Used < ENTROPY_QUEUE_SIZE => Slot(head) = Pos(Used)
           /\ Slot(tail) = Pos(0)
           /\ Slot(head) \in Index /\ Slot(tail) \in Index
  <1>1. head \in 0 .. W - 1 /\ tail \in 0 .. W - 1 /\ Used \in 0 .. ENTROPY_QUEUE_SIZE
    BY DEF IInv, Types
  <1>2. \A j \in Index : Pos(j) \in Index
    <2>1. SUFFICES ASSUME NEW j \in Index PROVE Pos(j) \in Index
      OBVIOUS
    <2>2. j \in 0 .. ENTROPY_QUEUE_SIZE
      BY Sizes DEF Index
    <2>3. wrapping_add(tail, j) \in 0 .. W - 1
      BY <1>1, <2>2, Moved
    <2> QED  BY <2>3, SlotType DEF Pos
  <1>3. \A i, j \in Index : Pos(i) = Pos(j) => i = j
    BY <1>1, SlotsDiffer DEF Pos
  <1>4. Used < ENTROPY_QUEUE_SIZE => Slot(head) = Pos(Used)
    BY <1>1, HeadMoves DEF Pos, Used
  <1>5. Slot(tail) = Pos(0)
    <2>1. wrapping_add(tail, 0) = tail
      BY <1>1, Moved, Sizes
    <2> QED  BY <2>1 DEF Pos
  <1> QED  BY <1>1, <1>2, <1>3, <1>4, <1>5, SlotType

\* Steps that touch neither the queue nor the locals of a pop.
LEMMA QueueAside ==
    ASSUME IInv, UNCHANGED <<buffer, head, tail, ppc, pushed>>,
           \A u \in Threads :
               Popping(u) \/ Popping(u)' => pc'[u] = pc[u] /\ at'[u] = at[u]
    PROVE  Queue' /\ Held' = Held
  <1>1. Queue /\ Used' = Used /\ Done' = Done
    BY DEF IInv, Used, Done
  <1>2. Held' <=> Held
    BY DEF Held, Popping
  <1>3. \A j : Pos(j)' = Pos(j)
    BY DEF Pos
  <1>4. Scrubbed'
    BY <1>1 DEF Queue, Scrubbed, Used
  <1>5. \A t \in Threads : Popping(t)' => Used' > 0 /\ at'[t] = tail'
    BY <1>1 DEF Queue, Popping
  <1>6. \A t \in Threads : pc'[t] = "publish" => buffer'[Slot(tail')] = 0
    BY <1>1 DEF Queue, Popping
  <1>7. (\A j \in 0 .. Used - 1 :
           j # 0 \/ ~Held => buffer[Slot(wrapping_add(tail, j))] = Done - Used + j + 1)'
    BY <1>1, <1>2 DEF Queue
  <1>8. /\ Used' <= Done'
        /\ ppc' # "idle" => Used' < ENTROPY_QUEUE_SIZE /\ pushed' > 0
        /\ ppc' = "publish" => buffer'[Slot(head')] = pushed'
    BY <1>1 DEF Queue
  <1>9. Queue'
    BY <1>4, <1>5, <1>6, <1>7, <1>8 DEF Queue
  <1> QED  BY <1>2, <1>9 DEF Held

\* There is one thread at most in a pop.
LEMMA OnePopping ==
    ASSUME IInv, NEW t \in Threads, Draining(t)
    PROVE  \A u \in Threads : Popping(u) => u = t
  BY DEF IInv, Gates, Popping, Draining

\* A push fills the slot after the last one in use, and then counts it as used.
LEMMA PushKeepsQueue ==
    ASSUME IInv, push
    PROVE  Queue' /\ Held' = Held
  <1> DEFINE Filled == \A j \in 0 .. Used - 1 :
                 j # 0 \/ ~Held => buffer[Pos(j)] = Done - Used + j + 1
  <1>0. /\ Queue /\ UNCHANGED <<tail, pc, at>> /\ buffer \in [Index -> Nat] /\ pushed \in Nat
        /\ Used \in Int /\ 0 <= Used /\ Used <= ENTROPY_QUEUE_SIZE
        /\ \A j \in 0 .. Used - 1 : j \in Index
    <2>1. Used \in 0 .. ENTROPY_QUEUE_SIZE
      BY DEF IInv, Types
    <2> QED  BY <2>1, Sizes DEF IInv, Types, push, PushLoad, PushWrite, PushPublish, queueVars,
                 callVars, Index
  <1>1. Held' = Held /\ \A t \in Threads : Popping(t)' = Popping(t)
    BY <1>0 DEF Held, Popping
  <1>2. Filled /\ Done \in Int
    BY <1>0 DEF Queue, Pos, Done
  <1>3. CASE PushLoad
    <2>1. /\ UNCHANGED <<buffer, head>> /\ ppc = "idle" /\ ppc' = "write"
          /\ pushed' = pushed + 1 /\ Used < ENTROPY_QUEUE_SIZE
      BY <1>3 DEF PushLoad, queueVars, Used
    <2>2. Used' = Used /\ Done' = Done
      BY <1>0, <2>1 DEF Used, Done
    <2>3. Scrubbed'
      BY <1>0, <2>1, <2>2 DEF Queue, Scrubbed, Used
    <2> QED  BY <1>0, <1>1, <2>1, <2>2, <2>3 DEF Queue
  <1>4. CASE PushWrite
    <2>1. /\ buffer' = [buffer EXCEPT ![Slot(head)] = pushed] /\ UNCHANGED <<head, pushed>>
          /\ ppc = "write" /\ ppc' = "publish"
      BY <1>4 DEF PushWrite
    <2>2. Used' = Used /\ Done' = Done
      BY <1>0, <2>1 DEF Used, Done
    <2>3. Used < ENTROPY_QUEUE_SIZE /\ pushed > 0 /\ Slot(head) = Pos(Used) /\ Used \in Index
      <3>1. Used < ENTROPY_QUEUE_SIZE /\ pushed > 0
        BY <1>0, <2>1 DEF Queue
      <3>2. Used \in Index
        BY <1>0, <3>1, Sizes DEF Index
      <3> QED  BY <3>1, <3>2, Positions
    <2>4. /\ buffer'[Slot(head)] = pushed
          /\ \A i \in Index : i # Slot(head) => buffer'[i] = buffer[i]
      BY <1>0, <2>1, <2>3, Positions
    <2>5. \A j \in 0 .. Used - 1 : buffer'[Pos(j)] = buffer[Pos(j)]
      <3>1. SUFFICES ASSUME NEW j \in 0 .. Used - 1 PROVE buffer'[Pos(j)] = buffer[Pos(j)]
        OBVIOUS
      <3>2. j \in Index /\ j # Used
        BY <1>0
      <3>3. Pos(j) \in Index /\ Pos(j) # Pos(Used)
        BY <2>3, <3>2, Positions
      <3> QED  BY <2>3, <2>4, <3>3
    <2>6. Filled'
      BY <1>0, <1>1, <1>2, <2>2, <2>5 DEF Pos
    <2>7. \A t \in Threads : pc'[t] = "publish" => buffer'[Slot(tail')] = 0
      <3>1. ASSUME NEW t \in Threads, pc[t] = "publish" PROVE buffer'[Slot(tail)] = 0
        <4>1. Used > 0 /\ buffer[Slot(tail)] = 0
          BY <1>0, <3>1 DEF Queue, Popping
        <4>2. 0 \in 0 .. Used - 1 /\ Slot(tail) = Pos(0)
          BY <1>0, <4>1, Positions
        <4> QED  BY <2>5, <4>1, <4>2
      <3> QED  BY <1>0, <3>1
    <2>8. Scrubbed'
      <3>1. ASSUME NEW i \in Index, buffer'[i] # 0, i # Slot(head)
            PROVE  \E k \in 0 .. Used - 1 : i = Pos(k)
        BY <1>0, <2>1, <2>4, <3>1 DEF Queue, Scrubbed, Pos
      <3>2. DOMAIN buffer' = Index
        BY <1>0, <2>1
      <3> QED  BY <1>0, <2>1, <2>2, <3>1, <3>2 DEF Scrubbed, Pos
    <2> QED  BY <1>0, <1>1, <2>1, <2>2, <2>3, <2>4, <2>6, <2>7, <2>8 DEF Queue, Pos
  <1>5. CASE PushPublish
    <2>1. /\ head' = wrapping_add(head, 1) /\ UNCHANGED <<buffer, pushed>>
          /\ ppc = "publish" /\ ppc' = "idle"
      BY <1>5 DEF PushPublish
    <2>2. Used < ENTROPY_QUEUE_SIZE /\ pushed > 0 /\ Slot(head) = Pos(Used)
      BY <1>0, <2>1, Positions DEF Queue
    <2>3. Used' = Used + 1
      BY <1>0, <2>1, <2>2, HeadMoves DEF IInv, Types, Used
    <2>4. Done' = Done + 1 /\ Done' = pushed
      BY <1>0, <2>1 DEF Done
    <2>5. buffer[Pos(Used)] = pushed
      BY <1>0, <2>1, <2>2 DEF Queue
    <2>6. Filled'
      <3>1. ASSUME NEW j \in 0 .. Used, j # 0 \/ ~Held PROVE buffer[Pos(j)] = Done - Used + j + 1
        <4>1. CASE j = Used
          BY <1>0, <1>2, <2>4, <2>5, <4>1
        <4>2. CASE j # Used
          BY <1>0, <1>2, <3>1, <4>2
        <4> QED  BY <4>1, <4>2
      <3>2. \A j : Pos(j)' = Pos(j)
        BY <1>0 DEF Pos
      <3>3. Used' - 1 = Used /\ Done' - Used' = Done - Used
        BY <1>0, <1>2, <2>3, <2>4
      <3> QED  BY <1>1, <2>1, <3>1, <3>2, <3>3
    <2>7. Scrubbed'
      <3>1. ASSUME NEW i \in Index, buffer[i] # 0
            PROVE  \E k \in 0 .. Used : i = Pos(k)
        BY <1>0, <2>2, <3>1 DEF Queue, Scrubbed, Pos
      <3>2. Used' - 1 = Used
        BY <1>0, <2>3
      <3> QED  BY <1>0, <2>1, <3>1, <3>2 DEF Scrubbed, Pos
    <2> QED  BY <1>0, <1>1, <1>2, <2>1, <2>3, <2>4, <2>6, <2>7 DEF Queue, Pos
  <1> QED  BY <1>3, <1>4, <1>5 DEF push

\* A pop empties the slot at the tail, and then counts it as free.
LEMMA PopKeepsQueue ==
    ASSUME IInv, NEW t \in Threads,
           PopLoad(t) \/ PopRead(t) \/ PopZero(t) \/ PopPublish(t)
    PROVE  Queue'
  <1> DEFINE Filled == \A j \in 0 .. Used - 1 :
                 j # 0 \/ ~Held => buffer[Pos(j)] = Done - Used + j + 1
  <1>0. /\ Queue /\ UNCHANGED <<head, ppc, pushed>> /\ buffer \in [Index -> Nat]
        /\ pushed \in Nat /\ at \in [Threads -> 0 .. W - 1] /\ pc \in [Threads -> Steps]
        /\ Used \in Int /\ 0 <= Used /\ Used <= ENTROPY_QUEUE_SIZE
        /\ \A j \in 0 .. Used - 1 : j \in Index
    <2>1. Used \in 0 .. ENTROPY_QUEUE_SIZE
      BY DEF IInv, Types
    <2> QED  BY <2>1, Sizes DEF IInv, Types, PopLoad, PopRead, PopZero, PopPublish, queueVars,
                 Index
  <1>1. Filled /\ Done \in Int /\ Done' = Done
    BY <1>0 DEF Queue, Pos, Done
  <1>2. /\ \A u \in Threads : Popping(u) => u = t
        /\ \A u \in Threads : u # t => pc'[u] = pc[u] /\ at'[u] = at[u]
    <2>1. Draining(t)
      BY DEF Draining, PopLoad, PopRead, PopZero, PopPublish
    <2>2. \A u \in Threads : u # t => pc'[u] = pc[u] /\ at'[u] = at[u]
      BY <1>0 DEF PopLoad, PopRead, PopZero, PopPublish, Goto
    <2> QED  BY <2>1, <2>2, OnePopping
  <1>3. CASE PopLoad(t) \/ PopRead(t)
    <2>1. /\ UNCHANGED <<buffer, tail>> /\ pc'[t] # "publish"
          /\ Popping(t)' => at'[t] = tail /\ Used > 0
      <3>1. CASE PopLoad(t)
        <4>1. head # tail => Used > 0
          <5>1. head \in 0 .. W - 1 /\ tail \in 0 .. W - 1
            BY DEF IInv, Types
          <5>2. Used = IF head >= tail THEN head - tail ELSE head - tail + W
            BY <5>1, Ahead DEF Used
          <5> QED  BY <5>1, <5>2, Sizes
        <4> QED  BY <1>0, <3>1, <4>1 DEF PopLoad, Goto, Popping, queueVars
      <3>2. CASE PopRead(t)
        BY <1>0, <3>2 DEF PopRead, Goto, Popping, queueVars, Queue
      <3> QED  BY <1>3, <3>1, <3>2
    <2>2. Used' = Used /\ \A j : Pos(j)' = Pos(j)
      BY <1>0, <2>1, Zenon DEF Used, Pos
    <2>3. Held => Held'
      <3>1. Held => pc[t] \in {"zero", "publish"}
        BY <1>2 DEF Held, Popping
      <3> QED  BY <1>3, <3>1 DEF PopLoad, PopRead
    <2>4. Filled'
      BY <1>0, <1>1, <2>1, <2>2, <2>3
    <2>5. Scrubbed'
      BY <1>0, <2>1, <2>2, Zenon DEF Queue, Scrubbed, Used
    <2>6. \A u \in Threads : Popping(u)' => u = t
      BY <1>2 DEF Popping
    <2> QED  BY <1>0, <1>1, <1>2, <2>1, <2>2, <2>4, <2>5, <2>6 DEF Queue, Pos, Popping
  <1>4. CASE PopZero(t)
    <2>1. /\ buffer' = [buffer EXCEPT ![Slot(at[t])] = 0] /\ UNCHANGED <<tail, at>>
          /\ pc[t] = "zero" /\ pc'[t] = "publish"
      BY <1>0, <1>4 DEF PopZero, Goto
    <2>2. at[t] = tail /\ Used > 0 /\ Slot(tail) = Pos(0) /\ 0 \in Index /\ Pos(0) \in Index
      BY <1>0, <2>1, Positions DEF Queue, Popping
    <2>3. /\ buffer'[Pos(0)] = 0
          /\ \A i \in Index : i # Pos(0) => buffer'[i] = buffer[i]
      BY <1>0, <2>1, <2>2
    <2>4. Used' = Used /\ \A j : Pos(j)' = Pos(j)
      BY <1>0, <2>1 DEF Used, Pos
    <2>5. Held
      BY <2>1 DEF Held
    <2>6. \A j \in Index : j # 0 => buffer'[Pos(j)] = buffer[Pos(j)]
      BY <2>2, <2>3, Positions
    <2>7. Filled'
      <3>1. Held'
        BY <2>1, Zenon DEF Held
      <3> QED  BY <1>0, <1>1, <2>4, <2>6, <3>1
    <2>8. ppc = "publish" => buffer'[Slot(head)] = pushed
      <3>1. SUFFICES ASSUME ppc = "publish" PROVE buffer'[Slot(head)] = pushed
        OBVIOUS
      <3>2. Used < ENTROPY_QUEUE_SIZE /\ buffer[Slot(head)] = pushed
        BY <1>0, <3>1 DEF Queue
      <3>3. Slot(head) = Pos(Used) /\ Used \in Index /\ Used # 0
        BY <1>0, <2>2, <3>2, Positions, Sizes DEF Index
      <3> QED  BY <2>6, <3>2, <3>3
    <2>9. Scrubbed'
      <3>1. DOMAIN buffer = Index /\ DOMAIN buffer' = Index
        BY <1>0, <2>1
      <3>2. \A i \in Index : buffer'[i] # 0 => buffer[i] # 0
        BY <2>3
      <3> QED  BY <1>0, <2>1, <2>4, <3>1, <3>2 DEF Queue, Scrubbed
    <2> QED  BY <1>0, <1>1, <1>2, <2>1, <2>2, <2>3, <2>4, <2>7, <2>8, <2>9 DEF Queue, Pos, Popping
  <1>5. CASE PopPublish(t)
    <2>1. /\ tail' = wrapping_add(at[t], 1) /\ UNCHANGED buffer
          /\ pc[t] = "publish" /\ pc'[t] = "pop"
      BY <1>0, <1>5 DEF PopPublish, Goto
    <2>2. at[t] = tail /\ Used > 0 /\ buffer[Slot(tail)] = 0
      BY <1>0, <2>1 DEF Queue, Popping
    <2>3. Used' = Used - 1 /\ \A j \in Index : Pos(j)' = Pos(j + 1)
      <3>1. head \in 0 .. W - 1 /\ tail \in 0 .. W - 1 /\ UNCHANGED head
        BY <1>0, <1>5, Zenon DEF IInv, Types, PopPublish, queueVars
      <3>2. /\ wrapping_sub(head, wrapping_add(tail, 1)) = wrapping_sub(head, tail) - 1
            /\ \A j \in Index :
                   wrapping_add(wrapping_add(tail, 1), j) = wrapping_add(tail, j + 1)
        BY <2>2, <3>1, TailMoves DEF Used
      <3> QED  BY <2>1, <2>2, <3>1, <3>2 DEF Used, Pos
    <2>4. \A u \in Threads : ~Popping(u)'
      BY <1>2, <2>1, Zenon DEF Popping
    <2>5. Filled'
      <3>1. ASSUME NEW j \in 0 .. Used - 2 PROVE buffer[Pos(j)'] = Done - (Used - 1) + j + 1
        <4>1. j \in Index /\ j + 1 \in 0 .. Used - 1 /\ j + 1 # 0
          BY <1>0
        <4>2. buffer[Pos(j + 1)] = Done - Used + (j + 1) + 1
          BY <1>1, <4>1
        <4> QED  BY <1>0, <1>1, <2>3, <4>1, <4>2
      <3>2. Used' - 1 = Used - 2
        BY <1>0, <2>3
      <3> QED  BY <1>1, <2>1, <2>3, <3>1, <3>2
    <2>6. Scrubbed'
      <3>1. ASSUME NEW i \in Index, buffer[i] # 0, ~(ppc = "publish" /\ i = Slot(head))
            PROVE  \E k \in 0 .. Used - 2 : i = Pos(k)'
        <4>1. PICK k \in 0 .. Used - 1 : i = Pos(k)
          BY <1>0, <3>1 DEF Queue, Scrubbed, Pos
        <4>2. k # 0
          BY <2>2, <3>1, <4>1, Positions
        <4>3. k - 1 \in 0 .. Used - 2 /\ k - 1 \in Index /\ (k - 1) + 1 = k
          BY <1>0, <4>1, <4>2
        <4>4. Pos(k - 1)' = Pos(k)
          BY <2>3, <4>3
        <4> QED  BY <4>1, <4>3, <4>4
      <3>2. Used' - 1 = Used - 2
        BY <1>0, <2>3
      <3> QED  BY <1>0, <2>1, <3>1, <3>2 DEF Scrubbed, Pos
    <2>7. /\ Used' <= Done'
          /\ ppc' # "idle" => Used' < ENTROPY_QUEUE_SIZE /\ pushed' > 0
          /\ ppc' = "publish" => buffer'[Slot(head')] = pushed'
      BY <1>0, <1>1, <2>1, <2>3, Sizes DEF Queue
    <2> QED  BY <2>4, <2>5, <2>6, <2>7 DEF Queue, Pos, Popping
  <1> QED  BY <1>3, <1>4, <1>5

\* The other steps of the threads leave the queue alone.
LEMMA OutsideQueue ==
    ASSUME IInv, NEW t \in Threads,
           \/ \E p \in Pools : MixEnter(t, p) \/ \E n : ExtractEnter(t, p, n)
           \/ Gate(t) \/ Fold(t) \/ Reseed(t) \/ Ungate(t) \/ Mixed(t) \/ Snapshot(t) \/ Commit(t)
    PROVE  Queue' /\ Held' = Held /\ UNCHANGED <<head, tail, ppc, pushed>>
  <1>1. UNCHANGED <<buffer, head, tail, ppc, pushed, at>>
    BY Zenon DEF MixEnter, ExtractEnter, Gate, Fold, Reseed, Ungate, Mixed, Snapshot, Commit, queueVars
  <1>2. PICK step \in Steps \ {"read", "zero", "publish"} : Goto(t, step)
    BY Zenon DEF MixEnter, ExtractEnter, Gate, Fold, Reseed, Ungate, Mixed, Snapshot, Commit, Leave, Steps
  <1>3. ~Popping(t)
    BY Zenon DEF MixEnter, ExtractEnter, Gate, Fold, Reseed, Ungate, Mixed, Snapshot, Commit, Popping
  <1>4. pc'[t] = step /\ \A u \in Threads : u # t => pc'[u] = pc[u]
    BY <1>2, Elsewhere DEF IInv, Types
  <1>5. \A u \in Threads : Popping(u) \/ Popping(u)' => pc'[u] = pc[u] /\ at'[u] = at[u]
    BY <1>1, <1>2, <1>3, <1>4, Zenon DEF Popping
  <1> QED  BY <1>1, <1>5, QueueAside, Zenon

\* Every step keeps the queue in order.
LEMMA QueueKept ==
    ASSUME IInv, [Next]_vars
    PROVE  Queue'
  <1>1. CASE UNCHANGED vars
    BY <1>1, QueueAside DEF vars, queueVars, callVars
  <1> QED  BY <1>1, PushKeepsQueue, PopKeepsQueue, OutsideQueue
           DEF Next, Proceed, mix_entropy_under_gate

\* A chunk leaves the queue when a pop reads it, and not before or again.
LEMMA TakenKept ==
    ASSUME IInv, [Next]_vars, \A t \in Threads : ~PopRead(t)
    PROVE  Taken' = Taken
  <1>0. Used \in Int /\ pushed \in Int /\ Done \in Int
    BY DEF IInv, Types, Done
  <1>1. CASE push
    <2>1. Held' = Held
      BY <1>1, PushKeepsQueue
    <2>2. Done' - Used' = Done - Used
      <3>1. CASE PushLoad \/ PushWrite
        BY <1>0, <3>1 DEF PushLoad, PushWrite, queueVars, Done, Used
      <3>2. CASE PushPublish
        <4>1. Used' = Used + 1
          BY <3>2, HeadMoves DEF IInv, Types, Queue, PushPublish, Used
        <4> QED  BY <1>0, <3>2, <4>1 DEF PushPublish, Done
      <3> QED  BY <1>1, <3>1, <3>2 DEF push
    <2> QED  BY <2>1, <2>2 DEF Taken
  <1>2. ASSUME NEW t \in Threads, PopLoad(t) \/ PopZero(t)
        PROVE  Taken' = Taken
    <2>1. /\ UNCHANGED <<head, tail, ppc, pushed>>
          /\ pc[t] \in {"zero", "publish"} <=> pc'[t] \in {"zero", "publish"}
          /\ \A u \in Threads : u # t => pc'[u] = pc[u]
      BY <1>2 DEF IInv, Types, PopLoad, PopZero, Goto, queueVars
    <2>2. Held' <=> Held
      BY <2>1 DEF Held
    <2> QED  BY <2>1, <2>2 DEF Taken, Done, Used
  <1>3. ASSUME NEW t \in Threads, PopPublish(t)
        PROVE  Taken' = Taken
    <2>1. /\ pc[t] = "publish" /\ pc'[t] = "pop" /\ \A u \in Threads : u # t => pc'[u] = pc[u]
          /\ tail' = wrapping_add(at[t], 1) /\ UNCHANGED <<head, ppc, pushed>>
      BY <1>3 DEF IInv, Types, PopPublish, Goto
    <2>2. Held /\ ~Held'
      <3>1. \A u \in Threads : Popping(u) => u = t
        BY <2>1, OnePopping DEF Draining
      <3> QED  BY <2>1, <3>1 DEF Held, Popping
    <2>3. Used' = Used - 1
      BY <2>1, TailMoves DEF IInv, Types, Queue, Popping, Used
    <2>4. Done' = Done
      BY <2>1, Zenon DEF Done
    <2> QED  BY <1>0, <2>2, <2>3, <2>4 DEF Taken
  <1>4. CASE UNCHANGED <<head, tail, ppc, pushed>> /\ Held' = Held
    BY <1>4 DEF Taken, Done, Used
  <1>5. CASE UNCHANGED vars
    BY <1>4, <1>5 DEF vars, queueVars, callVars, Held
  <1> QED  BY <1>1, <1>2, <1>3, <1>4, <1>5, OutsideQueue
           DEF Next, Proceed, mix_entropy_under_gate

\* No fewer than no chunks have left the queue.
LEMMA TakenType ==
    ASSUME IInv
    PROVE  Taken \in Nat
  <1>1. Used \in Nat /\ pushed \in Nat /\ Used <= Done
    BY DEF IInv, Types, Queue
  <1>2. Done \in Int
    BY <1>1 DEF Done
  <1> QED  BY <1>1, <1>2 DEF Taken

\* What a pop reads is the next chunk.
LEMMA NextTaken ==
    ASSUME IInv, NEW t \in Threads, PopRead(t)
    PROVE  Taken \in Nat /\ Taken' = Taken + 1 /\ buffer[Slot(at[t])] = Taken + 1
  <1>1. /\ pc[t] = "read" /\ pc'[t] = "zero" /\ UNCHANGED <<head, tail, ppc, pushed>>
    BY DEF IInv, Types, PopRead, Goto, queueVars
  <1>2. Held' /\ ~Held
    <2>1. \A u \in Threads : Popping(u) => u = t
      BY <1>1, OnePopping DEF Draining
    <2> QED  BY <1>1, <2>1 DEF Held, Popping
  <1>3. at[t] = tail /\ Used > 0 /\ Used \in Nat /\ Done \in Int /\ Used <= Done
    BY <1>1 DEF IInv, Types, Queue, Popping, Done
  <1>4. buffer[Slot(tail)] = Done - Used + 1
    <2>1. 0 \in 0 .. Used - 1
      BY <1>3
    <2>2. buffer[Pos(0)] = Done - Used + 0 + 1
      BY <1>2, <2>1 DEF IInv, Queue, Pos
    <2> QED  BY <1>3, <2>2, Positions
  <1>5. Done' = Done /\ Used' = Used
    BY <1>1 DEF Done, Used
  <1> QED  BY <1>2, <1>3, <1>4, <1>5 DEF Taken

-----------------------------------------------------------------------------
\* The steps in which a call has chunks in its hasher.
Hashing == {"pop", "read", "zero", "publish", "fold"}

\* Steps that move no chunk.
LEMMA ContentsAside ==
    ASSUME IInv, UNCHANGED <<chunks, pool>>, Taken' = Taken,
           \A t \in Threads : pc'[t] \notin Hashing => chunks[t] = <<>>
    PROVE  Contents'
  <1>1. Contents
    BY DEF IInv
  <1>2. /\ \A t, i, c : InCall(t, i, c)' <=> InCall(t, i, c)
        /\ \A p, i, c : InPool(p, i, c)' <=> InPool(p, i, c)
    BY DEF InCall, InPool
  <1>3. Emptied' /\ CallChunks' /\ PoolChunks'
    BY <1>1, Zenon DEF Contents, Emptied, CallChunks, PoolChunks, Hashing
  <1>4. Placed'
    BY <1>1, <1>2, Zenon DEF Contents, Placed
  <1>5. OnceInCall'
    BY <1>1, <1>2, Zenon DEF Contents, OnceInCall
  <1>6. Apart'
    BY <1>1, <1>2, Zenon DEF Contents, Apart
  <1>7. OnceInPool'
    <2>1. OnceInPool
      BY <1>1 DEF Contents
    <2>2. \A p, q \in Pools, i, j \in Nat, c \in 1 .. Taken :
              InPool(p, i, c)' /\ InPool(q, j, c)' => p = q /\ i = j
      BY <1>2, <2>1 DEF OnceInPool
    <2> QED  BY <2>2 DEF OnceInPool
  <1> QED  BY <1>3, <1>4, <1>5, <1>6, <1>7 DEF Contents

\* A pop adds the next chunk, which is nowhere yet.
LEMMA ReadContents ==
    ASSUME IInv, NEW t \in Threads, PopRead(t)
    PROVE  Contents'
  <1> DEFINE end == Len(chunks[t]) + 1
             new == Taken + 1
  <1>1. Contents /\ Taken \in Nat /\ Taken' = new /\ UNCHANGED pool
    BY NextTaken, Zenon DEF IInv, PopRead, poolVars
  <1>2. /\ chunks \in [Threads -> Seq(Nat)] /\ pc \in [Threads -> Steps]
        /\ chunks' = [chunks EXCEPT ![t] = Append(chunks[t], new)] /\ Goto(t, "zero")
    BY NextTaken, Zenon DEF IInv, Types, PopRead
  <1>3. /\ pc'[t] = "zero" /\ \A u \in Threads : u # t => pc'[u] = pc[u] /\ chunks'[u] = chunks[u]
        /\ chunks'[t] = Append(chunks[t], new)
    BY <1>2, Elsewhere DEF Steps
  <1>4. /\ new \in Nat /\ end \in Nat /\ DOMAIN chunks[t] = 1 .. end - 1
        /\ DOMAIN chunks'[t] = 1 .. end /\ chunks'[t][end] = new
        /\ \A i \in 1 .. end - 1 : chunks'[t][i] = chunks[t][i]
    <2>1. new \in Nat /\ chunks[t] \in Seq(Nat)
      BY <1>1, <1>2
    <2> HIDE DEF new
    <2> QED  BY <1>3, <2>1, Appended
  <1> HIDE DEF end, new
  <1>5. \A u \in Threads, i, c \in Nat :
            InCall(u, i, c)' <=> InCall(u, i, c) \/ (u = t /\ i = end /\ c = new)
    <2>1. SUFFICES ASSUME NEW u \in Threads, NEW i \in Nat, NEW c \in Nat
                   PROVE  InCall(u, i, c)' <=> InCall(u, i, c) \/ (u = t /\ i = end /\ c = new)
      OBVIOUS
    <2>2. CASE u = t
      <3>1. i \in 1 .. end <=> i \in 1 .. end - 1 \/ i = end
        BY <1>4 DEF InCall, end
      <3>2. InCall(t, i, c)' <=> InCall(t, i, c) \/ (i = end /\ c = new)
        BY <1>4, <3>1, Zenon DEF InCall
      <3> QED  BY <2>2, <3>2
    <2>3. CASE u # t
      BY <1>3, <2>3 DEF InCall
    <2> QED  BY <2>2, <2>3
  <1>6. \A p, i, c : InPool(p, i, c)' <=> InPool(p, i, c)
    BY <1>1 DEF InPool
  <1>7. /\ \A u \in Threads, i \in Nat : ~InCall(u, i, new)
        /\ \A p \in Pools, i \in Nat : ~InPool(p, i, new)
    BY <1>1 DEF Contents, CallChunks, PoolChunks, InCall, InPool, new
  <1>8. 1 .. Taken' = (1 .. Taken) \cup {new} /\ new \notin 1 .. Taken
    BY <1>1 DEF new
  <1>9. \A u \in Threads : pc'[u] \notin Hashing => chunks'[u] = <<>>
    BY <1>1, <1>3 DEF Contents, Emptied, Hashing
  <1>10. \A u \in Threads : \A i \in DOMAIN chunks'[u] : chunks'[u][i] \in 1 .. Taken'
    <2>1. \A i \in DOMAIN chunks'[t] : chunks'[t][i] \in 1 .. Taken'
      BY <1>1, <1>4, <1>8 DEF Contents, CallChunks
    <2>2. \A u \in Threads : \A i \in DOMAIN chunks[u] : chunks[u][i] \in 1 .. Taken'
      BY <1>1, <1>8 DEF Contents, CallChunks
    <2> QED  BY <1>3, <2>1, <2>2
  <1>11. \A p \in Pools : \A i \in DOMAIN pool'[p] : pool'[p][i] \in 0 .. Taken'
    BY <1>1 DEF Contents, PoolChunks, new
  <1>12. \A c \in 1 .. Taken' : \/ \E u \in Threads, i \in Nat : InCall(u, i, c)'
                                \/ \E p \in Pools, i \in Nat : InPool(p, i, c)'
    <2>1. ASSUME NEW c \in 1 .. Taken'
          PROVE  \/ \E u \in Threads, i \in Nat : InCall(u, i, c)'
                 \/ \E p \in Pools, i \in Nat : InPool(p, i, c)'
      <3>1. CASE c = new
        BY <1>4, <1>5, <3>1
      <3>2. CASE c \in 1 .. Taken
        BY <1>1, <1>5, <1>6, <3>2 DEF Contents, Placed
      <3> QED  BY <1>8, <3>1, <3>2
    <2> QED  BY <2>1
  <1>13. \A u \in Threads, i, j \in Nat, c \in 1 .. Taken' :
             InCall(u, i, c)' /\ InCall(u, j, c)' => i = j
    BY <1>1, <1>5, <1>7, <1>8 DEF Contents, OnceInCall
  <1>14. \A u \in Threads, p \in Pools, i, j \in Nat, c \in 1 .. Taken' :
             ~(InCall(u, i, c)' /\ InPool(p, j, c)')
    BY <1>1, <1>5, <1>6, <1>7, <1>8 DEF Contents, Apart
  <1>15. \A p, q \in Pools, i, j \in Nat, c \in 1 .. Taken' :
             InPool(p, i, c)' /\ InPool(q, j, c)' => p = q /\ i = j
    BY <1>1, <1>6, <1>7, <1>8 DEF Contents, OnceInPool
  <1> QED  BY <1>9, <1>10, <1>11, <1>12, <1>13, <1>14, <1>15, Zenon DEF Contents, Hashing,
             Emptied, CallChunks, PoolChunks, Placed, OnceInCall, Apart, OnceInPool

\* Only the thread behind the consumer gate has chunks in its hasher.
LEMMA OneHashing ==
    ASSUME IInv, NEW t \in Threads, Draining(t)
    PROVE  \A u \in Threads : u # t => chunks[u] = <<>>
  BY DEF IInv, Gates, Contents, Emptied, Draining

\* A call moves the chunks of its hasher into its pool.
LEMMA FoldContents ==
    ASSUME IInv, NEW t \in Threads, Fold(t)
    PROVE  Contents'
  <1>0. PICK p \in Pools : p = on[t]
    BY Zenon DEF IInv, Gates, Fold
  <1> DEFINE n == Len(pool[p])
  <1>1. /\ Contents /\ Taken' = Taken
        /\ chunks \in [Threads -> Seq(Nat)] /\ pool \in [Pools -> Seq(Nat)]
    <2>1. Taken' = Taken
      <3>1. Held' = Held /\ UNCHANGED <<head, tail, ppc, pushed>>
        BY OutsideQueue
      <3> QED  BY <3>1 DEF Taken, Done, Used
    <2> QED  BY <2>1 DEF IInv, Types
  <1>2. chunks' = [chunks EXCEPT ![t] = <<>>] /\ \A u \in Threads : chunks'[u] = <<>>
    <2>1. \A u \in Threads : u # t => chunks[u] = <<>>
      BY OneHashing DEF Draining, Fold
    <2> QED  BY <1>1, <2>1 DEF Fold
  <1>3. CASE chunks[t] = <<>>
    <2>1. UNCHANGED <<pool, chunks>> /\ \A u \in Threads : chunks[u] = <<>>
      BY <1>1, <1>2, <1>3 DEF Fold
    <2> QED  BY <1>1, <2>1, ContentsAside
  <1>4. CASE chunks[t] # <<>>
    <2>1. pool' = [pool EXCEPT ![p] = pool[p] \o chunks[t]]
      BY <1>0, <1>4, Zenon DEF Fold
    <2>2. pool'[p] = pool[p] \o chunks[t] /\ \A q \in Pools : q # p => pool'[q] = pool[q]
      BY <1>1, <2>1
    <2>3. /\ n \in Nat /\ DOMAIN pool[p] = 1 .. n
          /\ DOMAIN chunks[t] \subseteq Nat /\ DOMAIN pool'[p] \subseteq Nat
          /\ \A i \in DOMAIN pool[p] : i \in DOMAIN pool'[p] /\ pool'[p][i] = pool[p][i]
          /\ \A i \in DOMAIN chunks[t] :
                 n + i \in DOMAIN pool'[p] /\ pool'[p][n + i] = chunks[t][i]
          /\ \A i \in DOMAIN pool'[p] :
                 \/ i \in DOMAIN pool[p]
                 \/ i - n \in DOMAIN chunks[t] /\ pool'[p][i] = chunks[t][i - n]
      <3>1. pool[p] \in Seq(Nat) /\ chunks[t] \in Seq(Nat)
        BY <1>1
      <3> DEFINE old == pool[p]
                 new == pool'[p]
                 more == chunks[t]
      <3>2. old \in Seq(Nat) /\ more \in Seq(Nat) /\ new = old \o more
        BY <2>2, <3>1
      <3>3. n = Len(old)
        OBVIOUS
      <3> HIDE DEF old, new, more, n
      <3>4. /\ n \in Nat /\ DOMAIN old = 1 .. n
            /\ DOMAIN more \subseteq Nat /\ DOMAIN new \subseteq Nat
            /\ \A i \in DOMAIN old : i \in DOMAIN new /\ new[i] = old[i]
            /\ \A i \in DOMAIN more : n + i \in DOMAIN new /\ new[n + i] = more[i]
            /\ \A i \in DOMAIN new :
                   i \in DOMAIN old \/ (i - n \in DOMAIN more /\ new[i] = more[i - n])
        BY <3>2, <3>3, Joined
      <3> QED  BY <3>4, Zenon DEF old, new, more
    <2> HIDE DEF n
    <2>4. \A q \in Pools, i, c \in Nat :
              InPool(q, i, c)' <=> InPool(q, i, c)
                                   \/ (q = p /\ i - n \in Nat /\ InCall(t, i - n, c))
      <3>1. SUFFICES ASSUME NEW q \in Pools, NEW i \in Nat, NEW c \in Nat
                     PROVE  InPool(q, i, c)' <=> InPool(q, i, c)
                                \/ (q = p /\ i - n \in Nat /\ InCall(t, i - n, c))
        OBVIOUS
      <3>2. CASE q = p
        <4>1. InPool(p, i, c) => InPool(p, i, c)'
          BY <2>3 DEF InPool
        <4>2. i - n \in Nat /\ InCall(t, i - n, c) => InPool(p, i, c)'
          <5>1. n + (i - n) = i
            BY <2>3
          <5> QED  BY <2>3, <5>1 DEF InPool, InCall
        <4>3. InPool(p, i, c)' => InPool(p, i, c) \/ (i - n \in Nat /\ InCall(t, i - n, c))
          BY <2>3 DEF InPool, InCall
        <4> QED  BY <3>2, <4>1, <4>2, <4>3
      <3>3. CASE q # p
        BY <2>2, <3>3 DEF InPool
      <3> QED  BY <3>2, <3>3
    <2>5. \A u \in Threads, i, c \in Nat : ~InCall(u, i, c)'
      BY <1>2 DEF InCall
    <2>6. \A u \in Threads, i, c \in Nat : InCall(u, i, c) => u = t
      BY OneHashing DEF Draining, Fold, InCall
    <2>7. \A q \in Pools : \A i \in DOMAIN pool'[q] : pool'[q][i] \in 0 .. Taken'
      <3>1. (\A i \in DOMAIN chunks[t] : chunks[t][i] \in 0 .. Taken)
            /\ \A i \in DOMAIN pool[p] : pool[p][i] \in 0 .. Taken
        BY <1>1, TakenType DEF Contents, CallChunks, PoolChunks
      <3>2. \A i \in DOMAIN pool'[p] : pool'[p][i] \in 0 .. Taken
        BY <2>3, <3>1
      <3> QED  BY <1>1, <2>2, <3>2, Zenon DEF Contents, PoolChunks
    <2>8. \A c \in 1 .. Taken' : \E q \in Pools, i \in Nat : InPool(q, i, c)'
      <3>1. ASSUME NEW c \in 1 .. Taken PROVE \E q \in Pools, i \in Nat : InPool(q, i, c)'
        <4>1. CASE \E q \in Pools, i \in Nat : InPool(q, i, c)
          BY <2>4, <4>1
        <4>2. CASE \E i \in Nat : InCall(t, i, c)
          <5>1. PICK i \in Nat : InCall(t, i, c)
            BY <4>2
          <5>2. n + i \in Nat /\ (n + i) - n = i
            BY <2>3
          <5> QED  BY <1>1, <2>3, <5>1, <5>2, Zenon DEF InPool, InCall
        <4> QED  BY <1>1, <2>6, <4>1, <4>2 DEF Contents, Placed
      <3> QED  BY <1>1, <3>1
    <2>9. \A q, r \in Pools, i, j \in Nat, c \in 1 .. Taken' :
              InPool(q, i, c)' /\ InPool(r, j, c)' => q = r /\ i = j
      <3>1. SUFFICES ASSUME NEW q \in Pools, NEW r \in Pools, NEW i \in Nat, NEW j \in Nat,
                            NEW c \in 1 .. Taken, InPool(q, i, c)', InPool(r, j, c)'
                     PROVE  q = r /\ i = j
        BY <1>1
      <3>2. CASE InPool(q, i, c) /\ InPool(r, j, c)
        BY <1>1, <3>2 DEF Contents, OnceInPool
      <3>3. CASE /\ q = p /\ i - n \in Nat /\ InCall(t, i - n, c)
                 /\ r = p /\ j - n \in Nat /\ InCall(t, j - n, c)
        <4>1. i - n = j - n
          BY <1>1, <3>3 DEF Contents, OnceInCall
        <4> QED  BY <2>3, <3>3, <4>1
      <3>4. ~(InPool(q, i, c) /\ j - n \in Nat /\ InCall(t, j - n, c))
        BY <1>1 DEF Contents, Apart
      <3>5. ~(InPool(r, j, c) /\ i - n \in Nat /\ InCall(t, i - n, c))
        BY <1>1 DEF Contents, Apart
      <3> QED  BY <2>4, <3>1, <3>2, <3>3, <3>4, <3>5
    <2>10. /\ \A u \in Threads : pc'[u] \notin Hashing => chunks'[u] = <<>>
           /\ \A u \in Threads : \A i \in DOMAIN chunks'[u] : chunks'[u][i] \in 1 .. Taken'
      BY <1>2
    <2>11. 1 .. Taken' \subseteq Nat
      BY <1>1, TakenType
    <2> QED  BY <2>5, <2>7, <2>8, <2>9, <2>10, <2>11, Zenon DEF Contents, Hashing,
               Emptied, CallChunks, PoolChunks, Placed, OnceInCall, Apart, OnceInPool
  <1> QED  BY <1>3, <1>4

\* A step of the generator adds no chunk.
LEMMA CommitContents ==
    ASSUME IInv, NEW t \in Threads, Commit(t)
    PROVE  Contents'
  <1>0. PICK p \in Pools : p = on[t]
    BY Zenon DEF IInv, Gates, Commit
  <1> DEFINE end == Len(pool[p]) + 1
  <1>1. /\ Contents /\ Taken' = Taken /\ UNCHANGED chunks
        /\ pool \in [Pools -> Seq(Nat)] /\ pc \in [Threads -> Steps]
        /\ pool' = [pool EXCEPT ![p] = Append(pool[p], 0)]
    <2>1. Held' = Held /\ UNCHANGED <<head, tail, ppc, pushed>>
      BY OutsideQueue
    <2>2. Taken' = Taken
      BY <2>1 DEF Taken, Done, Used
    <2> QED  BY <1>0, <2>2, Zenon DEF IInv, Types, Output, SnapshotCurrent, Commit
  <1>2. /\ end \in Nat /\ DOMAIN pool[p] = 1 .. end - 1 /\ DOMAIN pool'[p] = 1 .. end
        /\ pool'[p][end] = 0 /\ \A i \in 1 .. end - 1 : pool'[p][i] = pool[p][i]
        /\ \A q \in Pools : q # p => pool'[q] = pool[q]
    <2>1. pool[p] \in Seq(Nat) /\ pool'[p] = Append(pool[p], 0)
          /\ \A q \in Pools : q # p => pool'[q] = pool[q]
      BY <1>1
    <2> QED  BY <2>1, Appended
  <1> HIDE DEF end
  <1>3. \A q \in Pools, i \in Nat, c \in 1 .. Taken : InPool(q, i, c)' <=> InPool(q, i, c)
    <2>1. SUFFICES ASSUME NEW q \in Pools, NEW i \in Nat, NEW c \in 1 .. Taken
                   PROVE  InPool(q, i, c)' <=> InPool(q, i, c)
      OBVIOUS
    <2>2. CASE q = p
      <3>1. i \in 1 .. end <=> i \in 1 .. end - 1 \/ i = end
        BY <1>2 DEF end
      <3>2. c # 0
        OBVIOUS
      <3>3. InPool(p, i, c)' <=> InPool(p, i, c)
        BY <1>2, <3>1, <3>2, Zenon DEF InPool
      <3> QED  BY <2>2, <3>3
    <2>3. CASE q # p
      BY <1>2, <2>3 DEF InPool
    <2> QED  BY <2>2, <2>3
  <1>4. \A u \in Threads, i, c \in Nat : InCall(u, i, c)' <=> InCall(u, i, c)
    BY <1>1 DEF InCall
  <1>5. \A u \in Threads : pc'[u] \notin Hashing => chunks[u] = <<>>
    BY <1>1, Zenon DEF Contents, Emptied, Hashing, Commit, Goto
  <1>6. \A q \in Pools : \A i \in DOMAIN pool'[q] : pool'[q][i] \in 0 .. Taken
    <2>1. \A i \in DOMAIN pool'[p] : pool'[p][i] \in 0 .. Taken
      BY <1>1, <1>2, TakenType DEF Contents, PoolChunks
    <2> QED  BY <1>1, <1>2, <2>1, Zenon DEF Contents, PoolChunks
  <1>7. 1 .. Taken \subseteq Nat
    BY TakenType
  <1>8. \A u \in Threads : \A i \in DOMAIN chunks[u] : chunks[u][i] \in 1 .. Taken
    BY <1>1 DEF Contents, CallChunks
  <1>9. \A c \in 1 .. Taken : \/ \E u \in Threads, i \in Nat : InCall(u, i, c)'
                              \/ \E q \in Pools, i \in Nat : InPool(q, i, c)'
    BY <1>1, <1>3, <1>4, <1>7 DEF Contents, Placed
  <1>10. /\ \A u \in Threads, i, j \in Nat, c \in 1 .. Taken :
                InCall(u, i, c)' /\ InCall(u, j, c)' => i = j
         /\ \A u \in Threads, q \in Pools, i, j \in Nat, c \in 1 .. Taken :
                ~(InCall(u, i, c)' /\ InPool(q, j, c)')
    <2>1. \A u \in Threads, i, j \in Nat, c \in 1 .. Taken :
              InCall(u, i, c)' /\ InCall(u, j, c)' => i = j
      BY <1>1, <1>4, <1>7 DEF Contents, OnceInCall
    <2>2. \A u \in Threads, q \in Pools, i, j \in Nat, c \in 1 .. Taken :
              ~(InCall(u, i, c)' /\ InPool(q, j, c)')
      BY <1>1, <1>3, <1>4, <1>7 DEF Contents, Apart
    <2> QED  BY <2>1, <2>2
  <1>11. \A q, r \in Pools, i, j \in Nat, c \in 1 .. Taken :
             InPool(q, i, c)' /\ InPool(r, j, c)' => q = r /\ i = j
    <2>1. \A q, r \in Pools, i, j \in Nat, c \in 1 .. Taken :
              InPool(q, i, c) /\ InPool(r, j, c) => q = r /\ i = j
      BY <1>1 DEF Contents, OnceInPool
    <2>2. SUFFICES ASSUME NEW q \in Pools, NEW r \in Pools, NEW i \in Nat, NEW j \in Nat,
                          NEW c \in 1 .. Taken, InPool(q, i, c)', InPool(r, j, c)'
                   PROVE  q = r /\ i = j
      OBVIOUS
    <2>3. InPool(q, i, c) /\ InPool(r, j, c)
      BY <1>3, <2>2
    <2> QED  BY <2>1, <2>3
  <1>12. Emptied' /\ CallChunks' /\ PoolChunks'
    BY <1>1, <1>5, <1>6, <1>8, Zenon DEF Emptied, CallChunks, PoolChunks, Hashing
  <1>13. Placed' /\ OnceInCall' /\ Apart' /\ OnceInPool'
    BY <1>1, <1>9, <1>10, <1>11, Zenon DEF Placed, OnceInCall, Apart, OnceInPool
  <1> QED  BY <1>12, <1>13 DEF Contents

\* Every step keeps each chunk in one place.
LEMMA ContentsKept ==
    ASSUME IInv, [Next]_vars
    PROVE  Contents'
  <1>0. Contents /\ pc \in [Threads -> Steps]
    BY DEF IInv, Types
  <1>1. CASE \E t \in Threads : PopRead(t) \/ Fold(t) \/ Commit(t)
    BY <1>1, ReadContents, FoldContents, CommitContents
  <1>2. CASE ~\E t \in Threads : PopRead(t) \/ Fold(t) \/ Commit(t)
    <2>1. Taken' = Taken
      BY <1>2, TakenKept
    <2>2. ASSUME UNCHANGED <<pc, chunks, pool>>
          PROVE  Contents'
      BY <1>0, <2>1, <2>2, ContentsAside, Zenon DEF Contents, Emptied, Hashing
    <2>3. ASSUME NEW t \in Threads, NEW step \in Steps, Goto(t, step), UNCHANGED <<chunks, pool>>,
                 step \in Hashing \/ pc[t] \notin Hashing
          PROVE  Contents'
      <3>1. pc'[t] = step /\ \A u \in Threads : u # t => pc'[u] = pc[u]
        BY <1>0, <2>3, Elsewhere
      <3> QED  BY <1>0, <2>1, <2>3, <3>1, ContentsAside, Zenon DEF Contents, Emptied, Hashing
    <2>4. CASE push
      BY <2>2, <2>4 DEF push, PushLoad, PushWrite, PushPublish, poolVars, callVars
    <2>5. ASSUME NEW t \in Threads, NEW p \in Pools,
                 MixEnter(t, p) \/ \E n : ExtractEnter(t, p, n)
          PROVE  Contents'
      BY <2>3, <2>5 DEF MixEnter, ExtractEnter, Steps, Hashing
    <2>6. ASSUME NEW t \in Threads, Gate(t) \/ Reseed(t) \/ Ungate(t)
          PROVE  Contents'
      BY <2>3, <2>6 DEF Gate, Reseed, Ungate, Steps, Hashing
    <2>7. ASSUME NEW t \in Threads, PopLoad(t) \/ PopZero(t) \/ PopPublish(t)
          PROVE  Contents'
      BY <2>3, <2>7 DEF PopLoad, PopZero, PopPublish, Steps, Hashing, poolVars
    <2>8. ASSUME NEW t \in Threads, Mixed(t) \/ Snapshot(t)
          PROVE  Contents'
      BY <2>3, <2>8, Zenon DEF Mixed, Snapshot, Leave, Steps, Hashing
    <2>9. CASE UNCHANGED vars
      BY <2>2, <2>9 DEF vars, poolVars, callVars
    <2> QED  BY <1>2, <2>4, <2>5, <2>6, <2>7, <2>8, <2>9
             DEF Next, Proceed, mix_entropy_under_gate
  <1> QED  BY <1>1, <1>2

-----------------------------------------------------------------------------
\* Steps that add to no pool and output nothing.
LEMMA OutputAside ==
    ASSUME IInv, UNCHANGED <<pool, reseed_count, emitted>>,
           \A t \in Threads : pc'[t] = "commit" => pool[on'[t]] = snapshot'[t],
           \A t \in Threads : pc'[t] \in {"snapshot", "commit"} => reseed_count[on'[t]] # 0,
           \A t \in Threads : pc'[t] = "reseed" => Seeded(pool[on'[t]])
    PROVE  Output'
  <1>1. Output
    BY DEF IInv
  <1>2. SnapshotCurrent'
    BY DEF SnapshotCurrent
  <1>3. SeededOutput' /\ OutputsUnique'
    BY <1>1 DEF Output, SeededOutput, OutputsUnique
  <1>4. \A p \in Pools : reseed_count'[p] # 0 => Seeded(pool'[p])
    BY <1>1 DEF Output
  <1>5. \A a \in emitted' : \E p \in Pools : Followed(a.state, pool'[p])
    BY <1>1 DEF Output
  <1> QED  BY <1>2, <1>3, <1>4, <1>5 DEF Output

\* Threads that stay where they are keep what they need of their pools.
LEMMA OthersOutput ==
    ASSUME IInv, NEW u \in Threads
    PROVE  /\ pc[u] = "commit" => pool[on[u]] = snapshot[u]
           /\ pc[u] \in {"snapshot", "commit"} => reseed_count[on[u]] # 0
           /\ pc[u] = "reseed" => Seeded(pool[on[u]])
  BY DEF IInv, Output, SnapshotCurrent

\* A pool that is added to stays seeded, and further from the states it left behind.
LEMMA GrownPool ==
    ASSUME IInv, NEW p \in Pools, \A q \in Pools : q # p => pool'[q] = pool[q],
           Len(pool'[p]) \in Nat, Len(pool[p]) <= Len(pool'[p]),
           \A i \in DOMAIN pool[p] : i \in DOMAIN pool'[p] /\ pool'[p][i] = pool[p][i]
    PROVE  /\ \A q \in Pools : Seeded(pool[q]) => Seeded(pool'[q])
           /\ \A a \in emitted : \E q \in Pools : Followed(a.state, pool'[q])
  <1>1. /\ pool \in [Pools -> Seq(Nat)] /\ \A a \in emitted : a.state \in Seq(Nat)
        /\ \A a \in emitted : \E q \in Pools : Followed(a.state, pool[q])
    BY DEF IInv, Types, Output
  <1>2. ASSUME NEW q \in Pools, Seeded(pool[q]) PROVE Seeded(pool'[q])
    <2>1. CASE q = p
      BY <1>2, <2>1, Zenon DEF Seeded
    <2>2. CASE q # p
      BY <1>2, <2>2, Zenon
    <2> QED  BY <2>1, <2>2, Zenon
  <1>3. ASSUME NEW a \in emitted PROVE \E q \in Pools : Followed(a.state, pool'[q])
    <2>1. PICK q \in Pools : Followed(a.state, pool[q])
      BY <1>1
    <2>2. CASE q = p
      <3>1. /\ Len(a.state) \in Nat /\ Len(pool[p]) \in Nat /\ DOMAIN a.state = 1 .. Len(a.state)
            /\ DOMAIN pool[p] = 1 .. Len(pool[p])
        BY <1>1
      <3>2. Len(a.state) < Len(pool[p]) /\ \A i \in DOMAIN a.state : pool[p][i] = a.state[i]
        BY <2>1, <2>2 DEF Followed
      <3>3. DOMAIN a.state \subseteq DOMAIN pool[p] /\ Len(a.state) < Len(pool'[p])
        BY <3>1, <3>2
      <3> QED  BY <3>2, <3>3 DEF Followed
    <2>3. CASE q # p
      BY <2>1, <2>3
    <2> QED  BY <2>2, <2>3
  <1> QED  BY <1>2, <1>3

\* A mix goes to a pool behind whose gate the thread is, so no snapshot of it is held.
LEMMA FoldOutput ==
    ASSUME IInv, NEW t \in Threads, Fold(t)
    PROVE  Output'
  <1>0. PICK p \in Pools : p = on[t]
    BY DEF IInv, Gates, Fold
  <1>1. /\ Output /\ pool \in [Pools -> Seq(Nat)] /\ chunks \in [Threads -> Seq(Nat)]
        /\ pc[t] = "fold" /\ UNCHANGED <<reseed_count, on, snapshot, emitted>>
    BY DEF IInv, Types, Fold
  <1>2. CASE chunks[t] = <<>>
    <2>1. UNCHANGED pool /\ Goto(t, "ungate")
      BY <1>2 DEF Fold
    <2>2. pc'[t] = "ungate" /\ \A u \in Threads : u # t => pc'[u] = pc[u]
      BY <2>1, Elsewhere DEF IInv, Types, Steps
    <2> QED  BY <1>1, <2>1, <2>2, OutputAside, OthersOutput, Zenon
  <1>3. CASE chunks[t] # <<>>
    <2>1. pool' = [pool EXCEPT ![p] = pool[p] \o chunks[t]] /\ Goto(t, "reseed")
      BY <1>0, <1>3, Zenon DEF Fold
    <2>2. pc'[t] = "reseed" /\ \A u \in Threads : u # t => pc'[u] = pc[u]
      BY <2>1, Elsewhere DEF IInv, Types, Steps
    <2>3. /\ pool'[p] = pool[p] \o chunks[t] /\ \A q \in Pools : q # p => pool'[q] = pool[q]
          /\ pool[p] \in Seq(Nat) /\ chunks[t] \in Seq(Nat)
      BY <1>1, <2>1
    <2> DEFINE old == pool[p]
               new == pool'[p]
               more == chunks[t]
    <2>4. /\ Len(new) \in Nat /\ Len(old) <= Len(new)
          /\ \A i \in DOMAIN old : i \in DOMAIN new /\ new[i] = old[i]
          /\ \A i \in DOMAIN more : Len(old) + i \in DOMAIN new /\ new[Len(old) + i] = more[i]
          /\ 1 \in DOMAIN more
      <3>1. old \in Seq(Nat) /\ more \in Seq(Nat) /\ new = old \o more /\ more # <<>>
        BY <1>3, <2>3
      <3> HIDE DEF old, new, more
      <3>2. 1 \in DOMAIN more
        BY <3>1
      <3> QED  BY <3>1, <3>2, Joined
    <2>5. Seeded(new)
      <3>1. more[1] \in 1 .. Taken
        BY <2>4 DEF IInv, Contents, CallChunks
      <3>2. more[1] # 0
        BY <3>1
      <3> HIDE DEF old, new, more
      <3> QED  BY <2>4, <3>2 DEF Seeded
    <2>6. /\ \A q \in Pools : Seeded(pool[q]) => Seeded(pool'[q])
          /\ \A a \in emitted : \E q \in Pools : Followed(a.state, pool'[q])
      BY <2>3, <2>4, GrownPool, Zenon
    <2>7. \A u \in Threads : u # t /\ pc[u] # "idle" => on[u] \in Pools /\ on[u] # p
      BY <1>0, <1>1, Zenon DEF IInv, Gates
    <2>8. SnapshotCurrent'
      <3>1. ASSUME NEW u \in Threads, pc'[u] = "commit" PROVE pool'[on[u]] = snapshot[u]
        <4>1. u # t /\ pc[u] = "commit"
          BY <2>2, <3>1
        <4> QED  BY <2>3, <2>7, <4>1, OthersOutput, Zenon
      <3> QED  BY <1>1, <3>1 DEF SnapshotCurrent
    <2>9. \A u \in Threads : pc'[u] \in {"snapshot", "commit"} => reseed_count'[on'[u]] # 0
      BY <1>1, <2>2, OthersOutput
    <2>10. \A u \in Threads : pc'[u] = "reseed" => Seeded(pool'[on'[u]])
      BY <1>0, <1>1, <2>2, <2>5, <2>6, <2>7, OthersOutput, Zenon
    <2>11. SeededOutput' /\ OutputsUnique'
      BY <1>1, Zenon DEF Output, SeededOutput, OutputsUnique
    <2>12. \A q \in Pools : reseed_count'[q] # 0 => Seeded(pool'[q])
      BY <1>1, <2>6, Zenon DEF Output
    <2> QED  BY <1>1, <2>6, <2>8, <2>9, <2>10, <2>11, <2>12, Zenon DEF Output
  <1> QED  BY <1>2, <1>3

\* The state of a pool is none of those output was made from: its own are shorter, and
\* those of the other pools have a chunk that it does not have.
LEMMA StateIsNew ==
    ASSUME IInv, NEW p \in Pools, NEW a \in emitted
    PROVE  a.state # pool[p]
  <1>1. /\ a.state \in Seq(Nat) /\ pool \in [Pools -> Seq(Nat)]
        /\ \E q \in Pools : Followed(a.state, pool[q])
        /\ \E i \in DOMAIN a.state : a.state[i] # 0
    BY Zenon DEF IInv, Types, Output, SeededOutput
  <1>2. SUFFICES ASSUME a.state = pool[p] PROVE FALSE
    OBVIOUS
  <1>3. PICK q \in Pools : Followed(a.state, pool[q])
    BY <1>1
  <1>4. PICK i \in DOMAIN a.state : a.state[i] # 0
    BY <1>1
  <1>5. /\ Len(a.state) \in Nat /\ DOMAIN a.state = 1 .. Len(a.state)
        /\ Len(pool[q]) \in Nat /\ DOMAIN pool[q] = 1 .. Len(pool[q])
        /\ Len(a.state) < Len(pool[q]) /\ pool[q][i] = a.state[i]
    <2> DEFINE s == a.state
               r == pool[q]
    <2>1. s \in Seq(Nat) /\ r \in Seq(Nat) /\ i \in DOMAIN s
      BY <1>1
    <2>2. Len(s) < Len(r) /\ r[i] = s[i]
      BY <1>3, <2>1, Zenon DEF Followed
    <2> HIDE DEF s, r
    <2>3. /\ Len(s) \in Nat /\ DOMAIN s = 1 .. Len(s)
          /\ Len(r) \in Nat /\ DOMAIN r = 1 .. Len(r)
      BY <2>1
    <2> QED  BY <2>2, <2>3 DEF s, r
  <1>6. q # p
    BY <1>2, <1>5
  <1>7. i \in Nat /\ i \in DOMAIN pool[q]
    BY <1>5
  <1>8. a.state[i] \in 1 .. Taken
    <2>1. pool[q][i] \in 0 .. Taken
      BY <1>7 DEF IInv, Contents, PoolChunks
    <2> QED  BY <1>4, <1>5, <2>1
  <1>9. InPool(p, i, a.state[i]) /\ InPool(q, i, a.state[i])
    BY <1>2, <1>5, <1>7 DEF InPool
  <1> QED  BY <1>6, <1>7, <1>8, <1>9 DEF IInv, Contents, OnceInPool

\* A block leaves the state it was made from behind, so no later block has it again.
LEMMA CommitOutput ==
    ASSUME IInv, NEW t \in Threads, Commit(t)
    PROVE  Output'
  <1>0. PICK p \in Pools : p = on[t]
    BY Zenon DEF IInv, Gates, Commit
  <1> DEFINE out == [state |-> snapshot[t], number |-> Cardinality(emitted)]
  <1>1. /\ Output /\ pool \in [Pools -> Seq(Nat)] /\ snapshot \in [Threads -> Seq(Nat)]
        /\ pc[t] = "commit" /\ UNCHANGED <<reseed_count, on>> /\ snapshot[t] = pool[p]
        /\ snapshot' = [snapshot EXCEPT ![t] = <<>>] /\ Goto(t, "snapshot")
        /\ emitted' = emitted \cup {out} /\ reseed_count[p] # 0
    BY <1>0 DEF IInv, Types, Commit, Output, SnapshotCurrent
  <1>2. out.state = pool[p]
    BY <1>1
  <1> HIDE DEF out
  <1>3. /\ pc'[t] = "snapshot" /\ \A u \in Threads : u # t => pc'[u] = pc[u]
        /\ \A u \in Threads : u # t => snapshot'[u] = snapshot[u]
    <2>1. pc'[t] = "snapshot" /\ \A u \in Threads : u # t => pc'[u] = pc[u]
      BY <1>1, Elsewhere DEF IInv, Types, Steps
    <2>2. \A u \in Threads : u # t => snapshot'[u] = snapshot[u]
      BY <1>1
    <2> QED  BY <2>1, <2>2
  <1>4. pool'[p] = Append(pool[p], 0) /\ \A q \in Pools : q # p => pool'[q] = pool[q]
    BY <1>0, <1>1, Zenon DEF Commit
  <1>5. /\ Len(pool'[p]) \in Nat /\ Len(pool[p]) < Len(pool'[p]) /\ Len(pool[p]) <= Len(pool'[p])
        /\ \A i \in DOMAIN pool[p] : i \in DOMAIN pool'[p] /\ pool'[p][i] = pool[p][i]
    <2> DEFINE old == pool[p]
               new == pool'[p]
    <2>1. old \in Seq(Nat) /\ new = Append(old, 0)
      BY <1>1, <1>4, Zenon
    <2> HIDE DEF old, new
    <2>2. /\ Len(new) \in Nat /\ Len(old) < Len(new) /\ Len(old) <= Len(new)
          /\ \A i \in DOMAIN old : i \in DOMAIN new /\ new[i] = old[i]
      BY <2>1
    <2> QED  BY <2>2 DEF old, new
  <1>6. /\ \A q \in Pools : Seeded(pool[q]) => Seeded(pool'[q])
        /\ \A a \in emitted : \E q \in Pools : Followed(a.state, pool'[q])
    BY <1>4, <1>5, GrownPool
  <1>7. \A u \in Threads : u # t /\ pc[u] # "idle" => on[u] \in Pools /\ on[u] # p
    BY <1>0, <1>1 DEF IInv, Gates
  <1>8. SnapshotCurrent'
    <2>1. ASSUME NEW u \in Threads, pc'[u] = "commit" PROVE pool'[on[u]] = snapshot'[u]
      <3>1. u # t /\ pc[u] = "commit"
        BY <1>3, <2>1
      <3> QED  BY <1>3, <1>4, <1>7, <3>1, OthersOutput
    <2> QED  BY <1>1, <2>1 DEF SnapshotCurrent
  <1>9. \A u \in Threads : pc'[u] \in {"snapshot", "commit"} => reseed_count'[on'[u]] # 0
    BY <1>0, <1>1, <1>3, OthersOutput, Zenon
  <1>10. \A u \in Threads : pc'[u] = "reseed" => Seeded(pool'[on'[u]])
    <2>1. ASSUME NEW u \in Threads, pc'[u] = "reseed" PROVE Seeded(pool'[on[u]])
      <3>1. u # t /\ pc[u] = "reseed"
        BY <1>3, <2>1
      <3> QED  BY <1>6, <1>7, <3>1, OthersOutput, Zenon
    <2> QED  BY <1>1, <2>1, Zenon
  <1>11. \A q \in Pools : reseed_count'[q] # 0 => Seeded(pool'[q])
    BY <1>1, <1>6, Zenon DEF Output
  <1>12. SeededOutput'
    <2>1. \E i \in DOMAIN out.state : out.state[i] # 0
      BY <1>1, <1>2 DEF Output, Seeded
    <2> QED  BY <1>1, <2>1, Zenon DEF Output, SeededOutput
  <1>13. \A a \in emitted' : \E q \in Pools : Followed(a.state, pool'[q])
    <2>1. Followed(out.state, pool'[p])
      BY <1>2, <1>5 DEF Followed
    <2> QED  BY <1>1, <1>6, <2>1
  <1>14. OutputsUnique'
    <2>1. \A a \in emitted : a.state # out.state
      BY <1>2, StateIsNew
    <2> QED  BY <1>1, <2>1 DEF Output, OutputsUnique
  <1> QED  BY <1>8, <1>9, <1>10, <1>11, <1>12, <1>13, <1>14 DEF Output

\* Every step keeps what output is made from.
LEMMA OutputKept ==
    ASSUME IInv, [Next]_vars
    PROVE  Output'
  <1>0. /\ Output /\ pc \in [Threads -> Steps] /\ on \in [Threads -> Pools \cup {NoPool}]
        /\ pool \in [Pools -> Seq(Nat)] /\ reseed_count \in [Pools -> Nat]
        /\ snapshot \in [Threads -> Seq(Nat)]
    BY DEF IInv, Types
  <1>1. ASSUME UNCHANGED <<pool, reseed_count, emitted, pc, on, snapshot>>
        PROVE  Output'
    BY <1>1, OutputAside, OthersOutput
  <1>2. ASSUME NEW t \in Threads, NEW step \in Steps, Goto(t, step),
               UNCHANGED <<pool, reseed_count, emitted>>,
               \A u \in Threads : u # t => on'[u] = on[u] /\ snapshot'[u] = snapshot[u],
               step = "commit" => pool[on'[t]] = snapshot'[t],
               step \in {"snapshot", "commit"} => reseed_count[on'[t]] # 0,
               step # "reseed"
        PROVE  Output'
    <2>1. pc'[t] = step /\ \A u \in Threads : u # t => pc'[u] = pc[u]
      BY <1>0, <1>2, Elsewhere
    <2> QED  BY <1>2, <2>1, OutputAside, OthersOutput
  <1>3. CASE push
    BY <1>1, <1>3 DEF push, PushLoad, PushWrite, PushPublish, poolVars, callVars
  <1>4. ASSUME NEW t \in Threads, NEW p \in Pools,
               MixEnter(t, p) \/ \E n : ExtractEnter(t, p, n)
        PROVE  Output'
    <2>1. /\ Goto(t, "gate") /\ UNCHANGED <<pool, reseed_count, emitted, snapshot>>
          /\ \A u \in Threads : u # t => on'[u] = on[u]
      BY <1>0, <1>4 DEF MixEnter, ExtractEnter
    <2> QED  BY <1>2, <2>1 DEF Steps
  <1>5. ASSUME NEW t \in Threads, Gate(t) \/ Ungate(t)
        PROVE  Output'
    BY <1>2, <1>5 DEF Gate, Ungate, Steps
  <1>6. ASSUME NEW t \in Threads, PopLoad(t) \/ PopRead(t) \/ PopZero(t) \/ PopPublish(t)
        PROVE  Output'
    BY <1>2, <1>6, Zenon DEF PopLoad, PopRead, PopZero, PopPublish, Steps, poolVars
  <1>7. ASSUME NEW t \in Threads, Reseed(t)
        PROVE  Output'
    <2>0. PICK p \in Pools : p = on[t]
      BY <1>7 DEF IInv, Gates, Reseed
    <2>1. /\ Goto(t, "ungate") /\ pc[t] = "reseed" /\ UNCHANGED <<pool, on, snapshot, emitted>>
          /\ \A q \in Pools : q # p => reseed_count'[q] = reseed_count[q]
          /\ reseed_count'[p] # 0
      BY <1>0, <1>7, <2>0 DEF Reseed
    <2>2. pc'[t] = "ungate" /\ \A u \in Threads : u # t => pc'[u] = pc[u]
      BY <1>0, <2>1, Elsewhere DEF Steps
    <2>3. Seeded(pool[p])
      BY <2>0, <2>1, OthersOutput
    <2>4. SnapshotCurrent' /\ SeededOutput' /\ OutputsUnique'
      BY <1>0, <2>1, <2>2, Zenon DEF Output, SnapshotCurrent, SeededOutput, OutputsUnique
    <2>5. \A u \in Threads : pc'[u] \in {"snapshot", "commit"} => reseed_count'[on'[u]] # 0
      <3>1. \A u \in Threads : pc[u] # "idle" => on[u] \in Pools
        BY DEF IInv, Gates
      <3> QED  BY <2>1, <2>2, <3>1, OthersOutput
    <2>6. /\ \A u \in Threads : pc'[u] = "reseed" => Seeded(pool'[on'[u]])
          /\ \A q \in Pools : reseed_count'[q] # 0 => Seeded(pool'[q])
          /\ \A a \in emitted' : \E q \in Pools : Followed(a.state, pool'[q])
      BY <1>0, <2>1, <2>2, <2>3, OthersOutput DEF Output
    <2> QED  BY <2>4, <2>5, <2>6 DEF Output
  <1>8. ASSUME NEW t \in Threads, Mixed(t)
        PROVE  Output'
    <2>1. /\ UNCHANGED <<pool, reseed_count, emitted, snapshot>>
          /\ \A u \in Threads : u # t => on'[u] = on[u]
          /\ \/ Goto(t, "idle")
             \/ Goto(t, "snapshot") /\ on' = on /\ reseed_count[on[t]] # 0
      BY <1>0, <1>8 DEF Mixed, Leave
    <2> QED  BY <1>2, <2>1, Zenon DEF Steps
  <1>9. ASSUME NEW t \in Threads, Snapshot(t)
        PROVE  Output'
    <2>1. /\ UNCHANGED <<pool, reseed_count, emitted>>
          /\ \A u \in Threads : u # t => on'[u] = on[u] /\ snapshot'[u] = snapshot[u]
          /\ \/ Goto(t, "idle")
             \/ Goto(t, "commit") /\ on' = on /\ snapshot'[t] = pool[on[t]]
      BY <1>0, <1>9 DEF Snapshot, Leave
    <2>2. reseed_count[on[t]] # 0
      BY <1>9, OthersOutput DEF Snapshot
    <2> QED  BY <1>2, <2>1, <2>2, Zenon DEF Steps
  <1>10. CASE UNCHANGED vars
    BY <1>1, <1>10 DEF vars, poolVars, callVars
  <1> QED  BY <1>3, <1>4, <1>5, <1>6, <1>7, <1>8, <1>9, <1>10, FoldOutput, CommitOutput
           DEF Next, Proceed, mix_entropy_under_gate

-----------------------------------------------------------------------------
\* The inductive invariant holds in every reachable state.
LEMMA Invariant == Spec => []IInv
  <1>1. IInv /\ [Next]_vars => IInv'
    BY TypesKept, GatesKept, QueueKept, ContentsKept, OutputKept DEF IInv
  <1> QED  BY <1>1, InitIInv, PTL DEF Spec

\* For every size of the queue, width of its counters and number of pushes, threads and
\* pools: the slots outside the queued range hold no entropy.
THEOREM SlotsScrubbed == Spec => []Scrubbed
  <1>1. IInv => Scrubbed
    BY DEF IInv, Queue
  <1> QED  BY <1>1, Invariant, PTL

\* However many threads mix and extract at once, nothing is mixed into a pool between the
\* snapshot a block is made from and the commit of the state that follows it.
THEOREM NothingErased == Spec => []SnapshotCurrent
  <1>1. IInv => SnapshotCurrent
    BY DEF IInv, Output
  <1> QED  BY <1>1, Invariant, PTL

\* No block is ever made from a pool that no chunk has reached.
THEOREM NeverUnseeded == Spec => []SeededOutput
  <1>1. IInv => SeededOutput
    BY DEF IInv, Output
  <1> QED  BY <1>1, Invariant, PTL

\* No two blocks of any calls, threads and pools are made from one state.
THEOREM NoStateTwice == Spec => []OutputsUnique
  <1>1. IInv => OutputsUnique
    BY DEF IInv, Output
  <1> QED  BY <1>1, Invariant, PTL

\* A set with one element, from its elements.
LEMMA Singleton ==
    ASSUME NEW S, NEW y, \A x : x \in S <=> x = y
    PROVE  \E x \in S : S = {x}
  <1>1. S = {y} /\ y \in S
    OBVIOUS
  <1> QED  BY <1>1, Zenon

\* A chunk is in one place once its push has completed: in the queue while it is newer
\* than those taken, else in one hasher or in one pool.
LEMMA OnePlace ==
    ASSUME IInv, NEW c \in Published
    PROVE  \E x \in Places(c) : Places(c) = {x}
  <1> DEFINE queued == {j \in 0 .. Used - 1 : (j # 0 \/ ~Held) /\ buffer[Pos(j)] = c}
  <1>1. Used \in Nat /\ Done \in Nat /\ Taken \in Nat /\ Used <= Done /\ c \in 1 .. Done
    <2>1. Used \in Nat /\ pushed \in Nat /\ Used <= Done
      BY DEF IInv, Types, Queue
    <2>2. Done \in Nat
      BY <2>1 DEF Done
    <2> QED  BY <2>1, <2>2, TakenType DEF Published, Done
  <1>2. /\ Taken = IF Held THEN Done - Used + 1 ELSE Done - Used
        /\ Held => Used > 0
    BY <1>1 DEF Taken, IInv, Queue, Held, Popping
  <1>3. \A j \in 0 .. Used - 1 : j \in queued <=> j = c - 1 - (Done - Used) /\ c > Taken
    <2>1. \A j \in 0 .. Used - 1 :
              j # 0 \/ ~Held => buffer[Pos(j)] = Done - Used + j + 1
      BY DEF IInv, Queue, Pos
    <2>2. SUFFICES ASSUME NEW j \in 0 .. Used - 1
                   PROVE  j \in queued <=> j = c - 1 - (Done - Used) /\ c > Taken
      OBVIOUS
    <2>3. j \in queued <=> (j # 0 \/ ~Held) /\ Done - Used + j + 1 = c
      BY <2>1
    <2> QED  BY <1>1, <1>2, <2>3
  <1> DEFINE inQueue == {<<"queue", j>> : j \in queued}
             inCalls == UNION {{<<t, i>> : i \in {j \in DOMAIN chunks[t] : chunks[t][j] = c}} :
                                  t \in Threads}
             inPools == UNION {{<<p, i>> : i \in {j \in DOMAIN pool[p] : pool[p][j] = c}} :
                                  p \in Pools}
  <1>4. Places(c) = (inQueue \cup inCalls) \cup inPools
    <2> DEFINE held == {k \in 0 .. 0 : \E t \in Threads : pc[t] \in {"zero", "publish"}}
    <2>1. \A j : j \in held <=> j = 0 /\ Held
      BY DEF Held
    <2>2. queued = {j \in (0 .. Used - 1) \ held : buffer[Slot(wrapping_add(tail, j))] = c}
      <3> HIDE DEF held
      <3> QED  BY <2>1, Zenon DEF Pos
    <2> QED  BY <2>2, Zenon DEF Places
  <1>5. \A x : x \in Places(c) <=>
            \/ \E j \in queued : x = <<"queue", j>>
            \/ \E t \in Threads : \E i \in DOMAIN chunks[t] : chunks[t][i] = c /\ x = <<t, i>>
            \/ \E p \in Pools : \E i \in DOMAIN pool[p] : pool[p][i] = c /\ x = <<p, i>>
    <2> HIDE DEF queued
    <2>1. \A x : x \in inQueue <=> \E j \in queued : x = <<"queue", j>>
      OBVIOUS
    <2>2. \A x : x \in inCalls <=>
              \E t \in Threads : \E i \in DOMAIN chunks[t] : chunks[t][i] = c /\ x = <<t, i>>
      OBVIOUS
    <2>3. \A x : x \in inPools <=>
              \E p \in Pools : \E i \in DOMAIN pool[p] : pool[p][i] = c /\ x = <<p, i>>
      OBVIOUS
    <2> HIDE DEF inQueue, inCalls, inPools
    <2>4. \A x : x \in Places(c) <=> x \in inQueue \/ x \in inCalls \/ x \in inPools
      BY <1>4
    <2> QED  BY <2>1, <2>2, <2>3, <2>4
  <1> HIDE DEF queued, inQueue, inCalls, inPools
  <1>6. queued \subseteq 0 .. Used - 1
    BY DEF queued
  <1>7. CASE c > Taken
    <2> DEFINE j == c - 1 - (Done - Used)
    <2>1. j \in queued /\ \A k \in queued : k = j
      <3>1. j \in 0 .. Used - 1
        BY <1>1, <1>2, <1>7
      <3> QED  BY <1>3, <1>6, <1>7, <3>1
    <2>2. /\ \A t \in Threads : \A i \in DOMAIN chunks[t] : chunks[t][i] # c
          /\ \A p \in Pools : \A i \in DOMAIN pool[p] : pool[p][i] # c
      <3>1. \A n \in 0 .. Taken : n # c
        BY <1>1, <1>7
      <3>2. \A n \in 1 .. Taken : n # c
        BY <1>1, <1>7
      <3> QED  BY <3>1, <3>2, Zenon DEF IInv, Contents, CallChunks, PoolChunks
    <2> HIDE DEF j
    <2>3. \A x : x \in Places(c) <=> x = <<"queue", j>>
      <3>1. ASSUME NEW x, x \in Places(c) PROVE x = <<"queue", j>>
        BY <1>5, <2>1, <2>2, <3>1
      <3>2. <<"queue", j>> \in Places(c)
        BY <1>5, <2>1
      <3> QED  BY <3>1, <3>2
    <2> QED
      <3> DEFINE S == Places(c)
                  y == <<"queue", j>>
      <3>1. \A x : x \in S <=> x = y
        BY <2>3
      <3> HIDE DEF S, y
      <3>2. \E x \in S : S = {x}
        BY <3>1, Singleton
      <3> QED  BY <3>2 DEF S
  <1>8. CASE ~(c > Taken)
    <2>1. c \in 1 .. Taken /\ \A k : k \notin queued
      <3>1. c \in 1 .. Taken
        BY <1>1, <1>8
      <3>2. \A k : k \notin queued
        BY <1>3, <1>6, <1>8, Zenon
      <3> QED  BY <3>1, <3>2
    <2>2. /\ \A t \in Threads : DOMAIN chunks[t] \subseteq Nat
          /\ \A p \in Pools : DOMAIN pool[p] \subseteq Nat
      BY DEF IInv, Types
    <2>3. \A t, u \in Threads, i, k \in Nat :
              InCall(t, i, c) /\ InCall(u, k, c) => t = u /\ i = k
      <3>1. \A t, u \in Threads : chunks[t] # <<>> /\ chunks[u] # <<>> => t = u
        BY DEF IInv, Gates, Contents, Emptied, Draining
      <3> QED  BY <2>1, <3>1 DEF IInv, Contents, OnceInCall, InCall
    <2>4. CASE \E t \in Threads, i \in Nat : InCall(t, i, c)
      <3>1. PICK t \in Threads, i \in Nat : InCall(t, i, c)
        BY <2>4
      <3>2. \A p \in Pools, k \in Nat : ~InPool(p, k, c)
        BY <2>1, <3>1 DEF IInv, Contents, Apart
      <3>3. \A x : x \in Places(c) <=> x = <<t, i>>
        <4>1. ASSUME NEW x, x \in Places(c) PROVE x = <<t, i>>
          BY <1>5, <2>1, <2>2, <2>3, <3>1, <3>2, <4>1 DEF InCall, InPool
        <4>2. <<t, i>> \in Places(c)
          BY <1>5, <3>1 DEF InCall
        <4> QED  BY <4>1, <4>2
      <3> QED
        <4> DEFINE S == Places(c)
                    y == <<t, i>>
        <4>1. \A x : x \in S <=> x = y
          BY <3>3
        <4> HIDE DEF S, y
        <4>2. \E x \in S : S = {x}
          BY <4>1, Singleton
        <4> QED  BY <4>2 DEF S
    <2>5. CASE \E p \in Pools, i \in Nat : InPool(p, i, c)
      <3>1. PICK p \in Pools, i \in Nat : InPool(p, i, c)
        BY <2>5
      <3>2. /\ \A t \in Threads, k \in Nat : ~InCall(t, k, c)
            /\ \A q \in Pools, k \in Nat : InPool(q, k, c) => q = p /\ k = i
        BY <2>1, <3>1 DEF IInv, Contents, Apart, OnceInPool
      <3>3. \A x : x \in Places(c) <=> x = <<p, i>>
        <4>1. ASSUME NEW x, x \in Places(c) PROVE x = <<p, i>>
          BY <1>5, <2>1, <2>2, <3>1, <3>2, <4>1 DEF InCall, InPool
        <4>2. <<p, i>> \in Places(c)
          BY <1>5, <3>1 DEF InPool
        <4> QED  BY <4>1, <4>2
      <3> QED
        <4> DEFINE S == Places(c)
                    y == <<p, i>>
        <4>1. \A x : x \in S <=> x = y
          BY <3>3
        <4> HIDE DEF S, y
        <4>2. \E x \in S : S = {x}
          BY <4>1, Singleton
        <4> QED  BY <4>2 DEF S
    <2> QED  BY <2>1, <2>4, <2>5 DEF IInv, Contents, Placed
  <1> QED  BY <1>7, <1>8

\* For every queue, any number of threads and pools: the queue has one consumer at a time,
\* which stays out of the slot the producer writes, and every chunk is in one place from
\* the end of its push on, wherever the counters wrap.
THEOREM NoChunkLostOrReused == Spec => []ChunksMixedOnce
  <1>1. ASSUME IInv PROVE ChunksMixedOnce
    <2>1. \A t, u \in Threads : Popping(t) /\ Popping(u) => t = u
      BY <1>1 DEF IInv, Gates, Popping, Draining
    <2>2. ASSUME NEW t \in Threads, Popping(t), ppc # "idle"
          PROVE  Slot(at[t]) # Slot(head)
      <3>1. at[t] = tail /\ 0 < Used /\ Used < ENTROPY_QUEUE_SIZE /\ Used \in Nat
        BY <1>1, <2>2 DEF IInv, Types, Queue
      <3>2. 0 \in Index /\ Used \in Index
        BY <3>1, Sizes DEF Index
      <3>3. Slot(tail) = Pos(0) /\ Slot(head) = Pos(Used) /\ Pos(0) # Pos(Used)
        BY <1>1, <3>1, <3>2, Positions
      <3> QED  BY <3>1, <3>3
    <2>3. \A c \in Published : \E x \in Places(c) : Places(c) = {x}
      BY <1>1, OnePlace
    <2> QED  BY <2>1, <2>2, <2>3 DEF ChunksMixedOnce
  <1> QED  BY <1>1, Invariant, PTL
=============================================================================
