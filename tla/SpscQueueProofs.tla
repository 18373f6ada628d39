-------------------------- MODULE SpscQueueProofs ---------------------------
(***************************************************************************)
(* What holds of SpscQueue and of RingBuffer for every capacity, index     *)
(* width, set of payloads and number of concurrent init callers; and that  *)
(* both implement the safety part of BoundedQueue.                         *)
(***************************************************************************)
EXTENDS SpscQueue, RingBuffer, SequenceTheorems, TLAPS

(***************************************************************************)
(* Facts about % that the free-running indices rest on: an index counts    *)
(* modulo W, the slot it names is its remainder modulo N, and N divides W. *)
(***************************************************************************)
(* The positive multiples of a positive number are at least that number. *)
LEMMA MultipleBound ==
  ASSUME NEW n \in Nat \ {0}, NEW q \in Int, 0 < n * q
  PROVE  n <= n * q
<1>1. q >= 1
  <2>1. SUFFICES ASSUME q <= 0 PROVE FALSE
    OBVIOUS
  <2>2. n * q <= 0
    BY <2>1
  <2> QED
    BY <2>2
<1> QED
  BY <1>1

(* Division with remainder. *)
LEMMA DivMod ==
  ASSUME NEW a \in Int, NEW n \in Nat \ {0}
  PROVE  /\ a % n \in 0 .. n - 1
         /\ \E q \in Int : a = n * q + (a % n)
<1>1. a % n \in 0 .. n - 1
  OBVIOUS
<1>2. a \div n \in Int /\ a = n * (a \div n) + (a % n)
  OBVIOUS
<1> QED
  BY <1>1, <1>2, Zenon

(* The remainder is the only number in range that differs by a multiple. *)
LEMMA ModUnique ==
  ASSUME NEW a \in Int, NEW n \in Nat \ {0}, NEW q \in Int, NEW r \in 0 .. n - 1,
         a = n * q + r
  PROVE  a % n = r
<1>1. PICK p \in Int : a = n * p + (a % n)
  BY DivMod, Zenon
<1>2. a % n \in 0 .. n - 1
  BY DivMod
<1>3. n * (p - q) = r - (a % n) /\ n * (q - p) = (a % n) - r
  <2>1. n * (p - q) = n * p - n * q /\ n * (q - p) = n * q - n * p
    OBVIOUS
  <2>2. n * p - n * q = r - (a % n)
    <3> DEFINE np == n * p
               nq == n * q
               m == a % n
    <3>1. np \in Int /\ nq \in Int /\ m \in Int /\ r \in Int
      BY <1>2
    <3>2. a = np + m /\ a = nq + r
      BY <1>1
    <3> HIDE DEF np, nq, m
    <3>3. np - nq = r - m
      BY <3>1, <3>2
    <3> QED
      BY <3>3 DEF np, nq, m
  <2>3. n * p \in Int /\ n * q \in Int /\ a % n \in Int /\ r \in Int
    BY <1>2
  <2> QED
    BY <2>1, <2>2, <2>3
<1>4. ~ (0 < n * (p - q))
  BY <1>2, <1>3, MultipleBound
<1>5. ~ (0 < n * (q - p))
  BY <1>2, <1>3, MultipleBound
<1> QED
  BY <1>2, <1>3, <1>4, <1>5

(* Adding to, and subtracting from, an index of 0 .. w - 1 modulo w. *)
LEMMA WrapAround ==
  ASSUME NEW w \in Nat \ {0}, NEW a \in Int
  PROVE  /\ a \in 0 .. w - 1 => a % w = a
         /\ a \in w .. 2 * w - 1 => a % w = a - w
         /\ a \in -w .. -1 => a % w = a + w
<1>1. ASSUME a \in 0 .. w - 1 PROVE a % w = a
  <2>1. a = w * 0 + a
    OBVIOUS
  <2> QED
    BY <1>1, <2>1, ModUnique
<1>2. ASSUME a \in w .. 2 * w - 1 PROVE a % w = a - w
  <2>1. a = w * 1 + (a - w) /\ a - w \in 0 .. w - 1
    BY <1>2
  <2> QED
    BY <2>1, ModUnique
<1>3. ASSUME a \in -w .. -1 PROVE a % w = a + w
  <2>1. a = w * (-1) + (a + w) /\ a + w \in 0 .. w - 1
    BY <1>3
  <2> QED
    BY <2>1, ModUnique
<1> QED
  BY <1>1, <1>2, <1>3

(***************************************************************************)
(* Two indices less than n apart, not equal, never name the same slot,     *)
(* wherever between them the indices wrap around.                          *)
(***************************************************************************)
LEMMA DistinctSlots ==
  ASSUME NEW n \in Nat \ {0}, NEW k \in Nat, NEW w \in Nat, w = n * k,
         NEW h \in 0 .. w - 1, NEW t \in 0 .. w - 1,
         0 < (h - t) % w, (h - t) % w < n
  PROVE  h % n # t % n
<1> DEFINE d == (h - t) % w
<1>1. w \in Nat \ {0} /\ d \in Int /\ h - t \in Int
  OBVIOUS
<1>2. PICK j \in Int : h - t = w * j + d
  BY <1>1, DivMod, Zenon
<1>3. PICK a \in Int : h = n * a + (h % n)
  <2>1. h \in Int
    OBVIOUS
  <2> QED
    BY <2>1, DivMod, Zenon
<1>4. PICK b \in Int : t = n * b + (t % n)
  <2>1. t \in Int
    OBVIOUS
  <2> QED
    BY <2>1, DivMod, Zenon
<1>5. SUFFICES ASSUME h % n = t % n PROVE FALSE
  OBVIOUS
<1>6. d = n * (a - b - k * j)
  <2>1. w * j = n * (k * j)
    OBVIOUS
  <2>2. n * (a - b - k * j) = n * a - n * b - n * (k * j)
    OBVIOUS
  <2> QED
    <3> DEFINE na == n * a
               nb == n * b
               nkj == n * (k * j)
               r == h % n
    <3>1. na \in Int /\ nb \in Int /\ nkj \in Int /\ r \in Int /\ d \in Int
      BY <1>1, DivMod
    <3>2. h = na + r /\ t = nb + r /\ h - t = d + nkj
      BY <1>2, <1>3, <1>4, <1>5, <2>1
    <3>3. n * (a - b - k * j) = na - nb - nkj
      BY <2>2
    <3> HIDE DEF na, nb, nkj, r, d
    <3> QED
      BY <3>1, <3>2, <3>3
<1>7. n <= d
  <2>1. a - b - k * j \in Int
    OBVIOUS
  <2> QED
    BY <1>6, <2>1, MultipleBound
<1> QED
  BY <1>7

(* A multiple of n does not change a remainder modulo n. *)
LEMMA ModShift ==
  ASSUME NEW n \in Nat \ {0}, NEW a \in Int, NEW q \in Int
  PROVE  (a + n * q) % n = a % n
<1>1. PICK p \in Int : a = n * p + (a % n)
  BY DivMod, Zenon
<1>2. a % n \in 0 .. n - 1 /\ n * q \in Int
  BY DivMod
<1>3. n * (p + q) = n * p + n * q /\ n * p \in Int /\ p + q \in Int
  OBVIOUS
<1>4. a + n * q = n * (p + q) + (a % n)
  <2> DEFINE np == n * p
             nq == n * q
             r == a % n
  <2>1. np \in Int /\ nq \in Int /\ r \in Int /\ a = np + r /\ n * (p + q) = np + nq
    BY <1>1, <1>2, <1>3
  <2> HIDE DEF np, nq, r
  <2>2. a + nq = np + nq + r
    BY <2>1
  <2> QED
    BY <2>1, <2>2 DEF nq, r
<1>5. a + n * q \in Int
  BY <1>2
<1> QED
  BY <1>2, <1>3, <1>4, <1>5, ModUnique, Zenon

(* Numbers less than n apart, not equal, have different remainders. *)
LEMMA ModDistinct ==
  ASSUME NEW n \in Nat \ {0}, NEW a \in Int, NEW b \in Int, a < b, b - a < n
  PROVE  a % n # b % n
<1>1. PICK p \in Int : a = n * p + (a % n)
  BY DivMod, Zenon
<1>2. PICK q \in Int : b = n * q + (b % n)
  BY DivMod, Zenon
<1>3. SUFFICES ASSUME a % n = b % n PROVE FALSE
  OBVIOUS
<1>4. n * (q - p) = b - a
  <2> DEFINE np == n * p
             nq == n * q
             r == a % n
  <2>1. np \in Int /\ nq \in Int /\ r \in Int /\ a = np + r /\ b = nq + r
    BY <1>1, <1>2, <1>3, DivMod
  <2>2. n * (q - p) = nq - np
    OBVIOUS
  <2> HIDE DEF np, nq, r
  <2> QED
    BY <2>1, <2>2
<1>5. q - p \in Int
  OBVIOUS
<1>6. n <= b - a
  BY <1>4, <1>5, MultipleBound
<1> QED
  BY <1>6

-----------------------------------------------------------------------------

(***************************************************************************)
(* The inductive invariant.  InitOrder follows the one caller that holds   *)
(* is_initializing from its second look at is_initialized to the release;  *)
(* Occupancy keeps the distance of the indices that a call has checked     *)
(* true until the call publishes its own index, because the other side can *)
(* only move it in the harmless direction.                                 *)
(***************************************************************************)
Claimed == {"recheck", "fill", "buffer", "ready", "release"}

InitOrder ==
  /\ is_initialized => buffer # Null
  /\ \A r \in Regions : ipc[r] \in Claimed => is_initializing
  /\ \A r, s \in Regions : ipc[r] \in Claimed /\ ipc[s] \in Claimed => r = s
  /\ \A r \in Regions : ipc[r] \in {"fill", "buffer", "ready"} => ~is_initialized
  /\ \A r \in Regions : ipc[r] \in {"fill", "buffer"} => buffer = Null
  /\ \A r \in Regions : ipc[r] = "ready" => buffer = r
  /\ buffer # Null /\ ~is_initialized => \E r \in Regions : ipc[r] = "ready"

CallsAfterInit ==
  /\ ppc # "idle" => is_initialized
  /\ cpc # "idle" => is_initialized

Occupancy ==
  /\ Used <= N
  /\ ppc \in {"odd", "write", "writing", "even", "publish"} => Used < N
  /\ cpc \in {"seq1", "read", "seq2", "zero", "default", "publish"} => Used > 0

IInv == TypeOK /\ InitOrder /\ CallsAfterInit /\ Occupancy

-----------------------------------------------------------------------------
(* The sizes new() accepts leave room for more than one lap of the slots. *)
LEMMA Sizes == /\ N \in Nat \ {0}
               /\ W \in Nat \ {0}
               /\ N + N <= W
               /\ W % 2 = 0
<1>1. PICK k \in 2 .. W : W = N * k
  BY SizeAssumption
<1>2. N \in Nat \ {0} /\ W \in Nat /\ W % 2 = 0
  BY SizeAssumption
<1>3. N * k = N + N + N * (k - 2) /\ N * (k - 2) >= 0
  BY <1>2
<1>4. N + N <= W
  <2> DEFINE rest == N * (k - 2)
  <2>1. rest \in Int
    BY <1>2
  <2>2. W = N + N + rest /\ rest >= 0
    BY <1>1, <1>3
  <2> HIDE DEF rest
  <2> QED
    BY <1>2, <2>1, <2>2
<1> QED
  BY <1>2, <1>4

(* wrapping_add(x, 1): the next index, 0 after the last. *)
LEMMA NextIndex ==
  ASSUME NEW x \in Usize
  PROVE  /\ wrapping_add(x, 1) = IF x = W - 1 THEN 0 ELSE x + 1
         /\ wrapping_add(x, 1) \in Usize
<1>1. W \in Nat \ {0} /\ x \in Int /\ x >= 0 /\ x < W
  BY Sizes DEF Usize
<1>2. CASE x = W - 1
  <2>1. x + 1 \in W .. 2 * W - 1 /\ x + 1 \in Int
    BY <1>1, <1>2
  <2>2. \A a \in Int : a \in W .. 2 * W - 1 => a % W = a - W
    BY <1>1, WrapAround, Zenon
  <2>3. (x + 1) % W = (x + 1) - W
    BY <2>1, <2>2, Zenon
  <2> QED
    BY <1>1, <1>2, <2>3 DEF wrapping_add, Usize
<1>3. CASE x # W - 1
  <2>1. x + 1 \in 0 .. W - 1 /\ x + 1 \in Int
    BY <1>1, <1>3
  <2>2. (x + 1) % W = x + 1
    BY <1>1, <2>1, WrapAround, Zenon
  <2> QED
    BY <1>1, <1>3, <2>1, <2>2 DEF wrapping_add, Usize
<1> QED
  BY <1>2, <1>3

(* wrapping_sub(h, t): the distance from t forward to h. *)
LEMMA Distance ==
  ASSUME NEW h \in Usize, NEW t \in Usize
  PROVE  wrapping_sub(h, t) = IF h >= t THEN h - t ELSE h - t + W
<1>1. W \in Nat \ {0} /\ h \in Int /\ t \in Int /\ 0 <= h /\ h < W /\ 0 <= t /\ t < W
  BY Sizes DEF Usize
<1>2. CASE h >= t
  <2>1. h - t \in 0 .. W - 1 /\ h - t \in Int
    BY <1>1, <1>2
  <2> QED
    BY <1>1, <1>2, <2>1, WrapAround, Zenon DEF wrapping_sub
<1>3. CASE ~(h >= t)
  <2>1. h - t \in -W .. -1 /\ h - t \in Int
    BY <1>1, <1>3
  <2> QED
    BY <1>1, <1>3, <2>1, WrapAround, Zenon DEF wrapping_sub
<1> QED
  BY <1>2, <1>3

(* No slot is used when the indices meet, and then the abstract queue is empty. *)
LEMMA NoneUsed ==
  ASSUME TypeOK, head = tail
  PROVE  Used = 0
<1>1. head \in Usize /\ head \in Int
  BY Sizes DEF TypeOK, Usize
<1> QED
  BY <1>1, Distance DEF Used

LEMMA NothingQueued ==
  ASSUME Used = 0
  PROVE  AbstractQueue = <<>>
<1>1. 1 .. Used = {}
  OBVIOUS
<1> QED
  BY <1>1 DEF AbstractQueue

(* The odd and the even counter values stay within usize: W is even. *)
LEMMA SequenceTypes ==
  ASSUME NEW s \in Usize
  PROVE  WritingSequence(s) \in Usize /\ StableSequence(s) \in Usize
<1>1. W \in Nat \ {0} /\ W % 2 = 0 /\ s \in Int
  BY Sizes DEF Usize
<1>2. \A d \in Nat : wrapping_add(s, d) \in 0 .. W - 1
  BY <1>1, DivMod DEF wrapping_add
<1>3. \A t \in 0 .. W - 1 : (t + 1) - (t % 2) \in 0 .. W - 1 /\ t - (t % 2) \in 0 .. W - 1
  BY <1>1
<1> QED
  BY <1>2, <1>3 DEF WritingSequence, StableSequence, Usize

(* The slot an index names. *)
LEMMA SlotType ==
  ASSUME NEW x \in Usize
  PROVE  x % N \in Index
BY Sizes, DivMod DEF Usize, Index

-----------------------------------------------------------------------------
(* No call is in progress and nothing is published at the start. *)
LEMMA InitIInv == Init => IInv
<1> SUFFICES ASSUME Init PROVE IInv
  OBVIOUS
<1> USE DEF Init
<1>1. TypeOK
  <2>1. 0 \in Usize
    BY Sizes DEF Usize
  <2>2. sequence_counter \in [Regions -> [Index -> Usize]]
    BY ValueAssumption, Zenon DEF Usize
  <2> QED
    BY <2>1, <2>2, Zenon DEF TypeOK, Payload, Marks
<1>2. InitOrder /\ CallsAfterInit
  BY DEF InitOrder, CallsAfterInit, Claimed
<1>3. Occupancy
  <2>1. 0 \in Usize /\ N \in Nat \ {0}
    BY Sizes DEF Usize
  <2>2. Used = 0
    BY <2>1, Distance DEF Used
  <2> QED
    BY <2>1, <2>2 DEF Occupancy
<1> QED
  BY <1>1, <1>2, <1>3 DEF IInv

(* The steps of a call of init preserve the invariant. *)
LEMMA InitPreserves ==
  ASSUME IInv, NEW r \in Regions, init(r)
  PROVE  IInv'
<1> USE DEF IInv
<1>1. Occupancy' /\ CallsAfterInit'
  <2>1. UNCHANGED <<head, tail, ppc, cpc>> /\ (is_initialized => is_initialized')
    BY DEF init, InitEnter, InitClaim, InitRecheck, InitFill, InitBuffer, InitReady,
           InitRelease, TypeOK, queueVars, prodVars, consVars
  <2> QED
    BY <2>1 DEF Occupancy, Used, CallsAfterInit
<1>2. CASE InitEnter(r)
  <2>1. TypeOK'
    BY <1>2 DEF InitEnter, TypeOK, queueVars, prodVars, consVars
  <2>2. InitOrder'
    BY <1>2 DEF InitEnter, TypeOK, InitOrder, Claimed, queueVars
  <2> QED
    BY <1>1, <2>1, <2>2
<1>3. CASE InitClaim(r)
  <2>1. TypeOK'
    BY <1>3 DEF InitClaim, TypeOK, prodVars, consVars
  <2>2. InitOrder'
    BY <1>3 DEF InitClaim, TypeOK, InitOrder, Claimed
  <2> QED
    BY <1>1, <2>1, <2>2
<1>4. CASE InitRecheck(r)
  <2>1. TypeOK'
    BY <1>4 DEF InitRecheck, TypeOK, prodVars, consVars
  <2>2. InitOrder'
    BY <1>4 DEF InitRecheck, TypeOK, InitOrder, Claimed
  <2> QED
    BY <1>1, <2>1, <2>2
<1>5. CASE InitFill(r)
  <2>1. TypeOK'
    <3>1. 0 \in Usize
      BY Sizes DEF Usize
    <3> QED
      BY <1>5, <3>1 DEF InitFill, TypeOK, prodVars, consVars
  <2>2. InitOrder'
    BY <1>5 DEF InitFill, TypeOK, InitOrder, Claimed
  <2> QED
    BY <1>1, <2>1, <2>2
<1>6. CASE InitBuffer(r)
  <2>1. TypeOK'
    BY <1>6 DEF InitBuffer, TypeOK, prodVars, consVars
  <2>2. InitOrder'
    BY <1>6, ValueAssumption DEF InitBuffer, TypeOK, InitOrder, Claimed
  <2> QED
    BY <1>1, <2>1, <2>2
<1>7. CASE InitReady(r)
  <2>1. TypeOK'
    BY <1>7 DEF InitReady, TypeOK, prodVars, consVars
  <2>2. InitOrder'
    BY <1>7, ValueAssumption DEF InitReady, TypeOK, InitOrder, Claimed
  <2> QED
    BY <1>1, <2>1, <2>2
<1>8. CASE InitRelease(r)
  <2>1. TypeOK'
    <3>1. ipc' \in [Regions -> {"idle", "claim", "recheck", "fill", "buffer", "ready", "release"}]
      BY <1>8 DEF InitRelease, TypeOK
    <3>2. is_initializing' \in BOOLEAN
      BY <1>8, Zenon DEF InitRelease
    <3>3. UNCHANGED <<is_initialized, buffer, head, tail, data, sequence_counter, prodVars, consVars>>
      BY <1>8 DEF InitRelease
    <3> QED
      BY <3>1, <3>2, <3>3 DEF TypeOK, prodVars, consVars
  <2>2. InitOrder'
    BY <1>8 DEF InitRelease, TypeOK, InitOrder, Claimed
  <2> QED
    BY <1>1, <2>1, <2>2
<1> QED
  BY <1>2, <1>3, <1>4, <1>5, <1>6, <1>7, <1>8 DEF init

(* A step that leaves init's variables alone keeps InitOrder. *)
LEMMA InitOrderStutter ==
  ASSUME InitOrder, UNCHANGED <<is_initialized, is_initializing, buffer, ipc>>
  PROVE  InitOrder'
BY DEF InitOrder

(* The steps of push preserve the invariant. *)
LEMMA PushPreserves ==
  ASSUME IInv, push
  PROVE  IInv'
<1> USE DEF IInv
<1>1. UNCHANGED <<is_initialized, is_initializing, buffer, ipc, tail, consVars>>
  BY DEF push, PushNotInitialized, PushEnter, PushLoad, PushOdd, PushWrite, PushWritten,
         PushEven, PushPublish, queueVars
<1>2. InitOrder'
  BY <1>1, InitOrderStutter
<1>3. 0 \in Usize /\ N \in Nat /\ W \in Nat
  BY Sizes DEF Usize
<1>4. ppc # "idle" => buffer \in Regions
  BY DEF TypeOK, CallsAfterInit, InitOrder
<1>5. head \in Usize /\ head % N \in Index
  BY SlotType DEF TypeOK
<1>6. CASE PushNotInitialized
  <2>1. TypeOK'
    BY <1>1, <1>3, <1>6 DEF PushNotInitialized, PushReturn, TypeOK, queueVars, consVars
  <2>2. CallsAfterInit' /\ Occupancy'
    BY <1>1, <1>6 DEF PushNotInitialized, PushReturn, CallsAfterInit, Occupancy, Used,
                      queueVars, consVars
  <2> QED
    BY <1>2, <2>1, <2>2
<1>7. ASSUME NEW v \in Values, PushEnter(v) PROVE IInv'
  <2>1. TypeOK'
    BY <1>1, <1>7 DEF PushEnter, TypeOK, queueVars, consVars
  <2>2. CallsAfterInit' /\ Occupancy'
    BY <1>1, <1>7 DEF PushEnter, CallsAfterInit, Occupancy, Used, queueVars, consVars
  <2> QED
    BY <1>2, <2>1, <2>2
<1>8. CASE PushLoad
  <2>1. TypeOK'
    BY <1>1, <1>3, <1>8 DEF PushLoad, PushReturn, TypeOK, queueVars, consVars
  <2>2. Used' = Used /\ cpc' = cpc /\ is_initialized' = is_initialized
    BY <1>1, <1>8 DEF PushLoad, Used, queueVars, consVars
  <2>3. Used \in Int
    BY <1>3, Distance DEF Used, TypeOK, Usize
  <2>4. ppc' = "idle" \/ (ppc' = "odd" /\ Used < N)
    BY <1>3, <1>8, <2>3 DEF PushLoad, PushReturn, Used
  <2>5. CallsAfterInit' /\ Occupancy'
    BY <1>8, <2>2, <2>4 DEF PushLoad, CallsAfterInit, Occupancy
  <2> QED
    BY <1>2, <2>1, <2>5
<1>9. CASE PushOdd
  <2>1. sequence' \in Usize /\ sequence_counter' \in [Regions -> [Index -> Usize]]
    BY <1>4, <1>5, <1>9, SequenceTypes DEF PushOdd, TypeOK
  <2>2. TypeOK'
    BY <1>1, <1>9, <2>1 DEF PushOdd, TypeOK, consVars
  <2>3. CallsAfterInit' /\ Occupancy'
    BY <1>1, <1>9 DEF PushOdd, CallsAfterInit, Occupancy, Used, consVars
  <2> QED
    BY <1>2, <2>2, <2>3
<1>10. CASE PushWrite
  <2>1. data' \in [Regions -> [Index -> Payload]]
    BY <1>4, <1>5, <1>10 DEF PushWrite, TypeOK, Payload, Marks
  <2>2. TypeOK'
    BY <1>1, <1>10, <2>1 DEF PushWrite, TypeOK, consVars
  <2>3. CallsAfterInit' /\ Occupancy'
    BY <1>1, <1>10 DEF PushWrite, CallsAfterInit, Occupancy, Used, consVars
  <2> QED
    BY <1>2, <2>2, <2>3
<1>11. CASE PushWritten
  <2>1. data' \in [Regions -> [Index -> Payload]]
    BY <1>4, <1>5, <1>11 DEF PushWritten, TypeOK, Payload, Marks
  <2>2. TypeOK'
    BY <1>1, <1>11, <2>1 DEF PushWritten, TypeOK, consVars
  <2>3. CallsAfterInit' /\ Occupancy'
    BY <1>1, <1>11 DEF PushWritten, CallsAfterInit, Occupancy, Used, consVars
  <2> QED
    BY <1>2, <2>2, <2>3
<1>12. CASE PushEven
  <2>1. sequence_counter' \in [Regions -> [Index -> Usize]]
    BY <1>4, <1>5, <1>12, SequenceTypes DEF PushEven, TypeOK
  <2>2. TypeOK'
    BY <1>1, <1>12, <2>1 DEF PushEven, TypeOK, consVars
  <2>3. CallsAfterInit' /\ Occupancy'
    BY <1>1, <1>12 DEF PushEven, CallsAfterInit, Occupancy, Used, consVars
  <2> QED
    BY <1>2, <2>2, <2>3
<1>13. CASE PushPublish
  <2>1. head' = (IF head = W - 1 THEN 0 ELSE head + 1) /\ head' \in Usize
    BY <1>5, <1>13, NextIndex DEF PushPublish
  <2>2. TypeOK'
    BY <1>1, <1>3, <1>13, <2>1 DEF PushPublish, PushReturn, TypeOK, consVars
  <2>3. Used' = Used + 1 /\ Used \in Nat /\ Used < N
    <3>1. /\ Used = IF head >= tail THEN head - tail ELSE head - tail + W
          /\ Used' = IF head' >= tail THEN head' - tail ELSE head' - tail + W
      BY <1>1, <1>5, <2>1, Distance DEF Used, TypeOK
    <3>2. Used < N /\ N + N <= W
      BY <1>13, Sizes DEF PushPublish, Occupancy
    <3> QED
      BY <1>3, <1>5, <2>1, <3>1, <3>2 DEF TypeOK, Usize
  <2>4. ppc' = "idle" /\ cpc' = cpc
    BY <1>1, <1>13 DEF PushPublish, PushReturn, consVars
  <2>5. CallsAfterInit' /\ Occupancy'
    BY <1>1, <1>3, <2>3, <2>4 DEF CallsAfterInit, Occupancy
  <2> QED
    BY <1>2, <2>2, <2>5
<1> QED
  BY <1>6, <1>7, <1>8, <1>9, <1>10, <1>11, <1>12, <1>13 DEF push

(* The steps of pop preserve the invariant. *)
LEMMA PopPreserves ==
  ASSUME IInv, pop
  PROVE  IInv'
<1> USE DEF IInv
<1>1. UNCHANGED <<is_initialized, is_initializing, buffer, ipc, head, prodVars>>
  BY DEF pop, PopNotInitialized, PopEnter, PopLoad, PopFirstSequence, PopRead,
         PopSecondSequence, PopZero, PopDefault, PopPublish, queueVars
<1>2. InitOrder'
  BY <1>1, InitOrderStutter
<1>3. 0 \in Usize /\ N \in Nat /\ W \in Nat
  BY Sizes DEF Usize
<1>4. cpc # "idle" => buffer \in Regions
  BY DEF TypeOK, CallsAfterInit, InitOrder
<1>5. tail \in Usize /\ tail % N \in Index
  BY SlotType DEF TypeOK
<1>6. CASE PopNotInitialized
  <2>1. TypeOK'
    BY <1>1, <1>3, <1>4, <1>5, <1>6 DEF PopNotInitialized, PopReturn, TypeOK, Payload, Marks, queueVars, prodVars
  <2>2. CallsAfterInit' /\ Occupancy'
    BY <1>1, <1>6 DEF PopNotInitialized, PopReturn, CallsAfterInit, Occupancy, Used, queueVars, prodVars
  <2> QED
    BY <1>2, <2>1, <2>2
<1>7. CASE PopEnter
  <2>1. TypeOK'
    BY <1>1, <1>7 DEF PopEnter, TypeOK, queueVars, prodVars
  <2>2. CallsAfterInit' /\ Occupancy'
    BY <1>1, <1>7 DEF PopEnter, CallsAfterInit, Occupancy, Used, queueVars, prodVars
  <2> QED
    BY <1>2, <2>1, <2>2
<1>8. CASE PopLoad
  <2>1. TypeOK'
    BY <1>1, <1>3, <1>8 DEF PopLoad, PopReturn, TypeOK, Payload, Marks, queueVars, prodVars
  <2>2. Used' = Used /\ ppc' = ppc /\ is_initialized' = is_initialized
    BY <1>1, <1>8 DEF PopLoad, Used, queueVars, prodVars
  <2>3. head # tail => Used > 0
    BY <1>3, Distance DEF Used, TypeOK, Usize
  <2>4. cpc' = "idle" \/ (cpc' = "seq1" /\ Used > 0)
    BY <1>8, <2>3 DEF PopLoad, PopReturn
  <2>5. CallsAfterInit' /\ Occupancy'
    BY <1>8, <2>2, <2>4 DEF PopLoad, CallsAfterInit, Occupancy
  <2> QED
    BY <1>2, <2>1, <2>5
<1>9. CASE PopFirstSequence
  <2>1. TypeOK'
    BY <1>1, <1>3, <1>4, <1>5, <1>9 DEF PopFirstSequence, PopReturn, TypeOK, Payload, Marks, queueVars, prodVars
  <2>2. CallsAfterInit' /\ Occupancy'
    BY <1>1, <1>9 DEF PopFirstSequence, PopReturn, CallsAfterInit, Occupancy, Used, queueVars, prodVars
  <2> QED
    BY <1>2, <2>1, <2>2
<1>10. CASE PopRead
  <2>1. TypeOK'
    BY <1>1, <1>3, <1>4, <1>5, <1>10 DEF PopRead, TypeOK, Payload, Marks, queueVars, prodVars
  <2>2. CallsAfterInit' /\ Occupancy'
    BY <1>1, <1>10 DEF PopRead, CallsAfterInit, Occupancy, Used, queueVars, prodVars
  <2> QED
    BY <1>2, <2>1, <2>2
<1>11. CASE PopSecondSequence
  <2>1. TypeOK'
    BY <1>1, <1>3, <1>4, <1>5, <1>11 DEF PopSecondSequence, PopReturn, TypeOK, Payload, Marks, queueVars, prodVars
  <2>2. CallsAfterInit' /\ Occupancy'
    BY <1>1, <1>11 DEF PopSecondSequence, PopReturn, CallsAfterInit, Occupancy, Used, queueVars, prodVars
  <2> QED
    BY <1>2, <2>1, <2>2
<1>12. CASE PopZero
  <2>1. data' \in [Regions -> [Index -> Payload]]
    BY <1>4, <1>5, <1>12 DEF PopZero, TypeOK, Payload, Marks
  <2>2. TypeOK'
    BY <1>1, <1>12, <2>1 DEF PopZero, TypeOK, prodVars
  <2>3. CallsAfterInit' /\ Occupancy'
    BY <1>1, <1>12 DEF PopZero, CallsAfterInit, Occupancy, Used, prodVars
  <2> QED
    BY <1>2, <2>2, <2>3
<1>13. CASE PopDefault
  <2>1. data' \in [Regions -> [Index -> Payload]]
    BY <1>4, <1>5, <1>13 DEF PopDefault, TypeOK, Payload, Marks
  <2>2. TypeOK'
    BY <1>1, <1>13, <2>1 DEF PopDefault, TypeOK, prodVars
  <2>3. CallsAfterInit' /\ Occupancy'
    BY <1>1, <1>13 DEF PopDefault, CallsAfterInit, Occupancy, Used, prodVars
  <2> QED
    BY <1>2, <2>2, <2>3
<1>14. CASE PopPublish
  <2>1. tail' = (IF tail = W - 1 THEN 0 ELSE tail + 1) /\ tail' \in Usize
    BY <1>5, <1>14, NextIndex DEF PopPublish
  <2>2. TypeOK'
    BY <1>1, <1>3, <1>14, <2>1 DEF PopPublish, PopReturn, TypeOK, Payload, Marks, prodVars
  <2>3. Used' = Used - 1 /\ Used \in Nat /\ Used > 0
    <3>1. /\ Used = IF head >= tail THEN head - tail ELSE head - tail + W
          /\ Used' = IF head >= tail' THEN head - tail' ELSE head - tail' + W
      BY <1>1, <1>5, <2>1, Distance DEF Used, TypeOK
    <3>2. Used > 0
      BY <1>14 DEF PopPublish, Occupancy
    <3> QED
      BY <1>3, <1>5, <2>1, <3>1, <3>2 DEF TypeOK, Usize
  <2>4. cpc' = "idle" /\ ppc' = ppc
    BY <1>1, <1>14 DEF PopPublish, PopReturn, prodVars
  <2>5. CallsAfterInit' /\ Occupancy'
    BY <1>1, <1>3, <2>3, <2>4 DEF CallsAfterInit, Occupancy
  <2> QED
    BY <1>2, <2>2, <2>5
<1> QED
  BY <1>6, <1>7, <1>8, <1>9, <1>10, <1>11, <1>12, <1>13, <1>14 DEF pop

-----------------------------------------------------------------------------
(* IInv is inductive. *)
LEMMA NextPreserves == IInv /\ [Next]_vars => IInv'
<1> SUFFICES ASSUME IInv, [Next]_vars PROVE IInv'
  OBVIOUS
<1>1. CASE \E r \in Regions : init(r)
  BY <1>1, InitPreserves
<1>2. CASE push
  BY <1>2, PushPreserves
<1>3. CASE pop
  BY <1>3, PopPreserves
<1>4. CASE UNCHANGED vars
  BY <1>4 DEF vars, queueVars, prodVars, consVars, IInv, TypeOK, InitOrder, CallsAfterInit,
              Occupancy, Used
<1> QED
  BY <1>1, <1>2, <1>3, <1>4 DEF Next

(* The parts of IInv hold together in every reachable state. *)
THEOREM Invariance == Spec => []IInv
<1>1. Init => IInv
  BY InitIInv
<1>2. IInv /\ [Next]_vars => IInv'
  BY NextPreserves
<1> QED
  BY <1>1, <1>2, PTL DEF Spec

(* For every capacity and index width that new() accepts, indices and      *)
(* sequence counters stay within usize and every local within its type.    *)
THEOREM TypeCorrect == Spec => []TypeOK
<1>1. IInv => TypeOK
  BY DEF IInv
<1> QED
  BY <1>1, Invariance, PTL

(***************************************************************************)
(* For every capacity and index width, wrap-around included: push never    *)
(* writes the slot that pop is reading, zeroing or resetting.              *)
(***************************************************************************)
THEOREM NoDataRace == Spec => []RaceFree
<1>1. IInv => RaceFree
  <2> SUFFICES ASSUME IInv, ProducerInSlot, ConsumerInSlot PROVE head % N # tail % N
    BY DEF RaceFree
  <2>1. head \in 0 .. W - 1 /\ tail \in 0 .. W - 1
    BY DEF IInv, TypeOK, Usize
  <2>2. 0 < (head - tail) % W /\ (head - tail) % W < N
    <3>1. Used < N /\ Used > 0
      BY DEF IInv, Occupancy, ProducerInSlot, ConsumerInSlot
    <3>2. Used \in Int
      BY <2>1, Sizes, Distance DEF Used, Usize
    <3>3. 0 < Used /\ Used < N
      BY <3>1, <3>2
    <3> QED
      BY <3>3 DEF Used, wrapping_sub
  <2>3. PICK k \in 2 .. W : W = N * k
    BY SizeAssumption
  <2>4. N \in Nat \ {0} /\ k \in Nat /\ W \in Nat
    BY SizeAssumption
  <2> QED
    BY <2>1, <2>2, <2>3, <2>4, DistinctSlots, Zenon
<1> QED
  BY <1>1, Invariance, PTL

(***************************************************************************)
(* For every number of concurrent init callers: once a backing buffer is   *)
(* published, no caller replaces it.                                       *)
(***************************************************************************)
THEOREM PublishedOnce == Spec => BufferPublishedOnce
<1>1. IInv /\ [Next]_vars => [buffer # Null => buffer' = buffer]_vars
  <2> SUFFICES ASSUME IInv, Next, buffer # Null PROVE buffer' = buffer
    OBVIOUS
  <2>1. ASSUME NEW r \in Regions, init(r) PROVE buffer' = buffer
    <3>1. ipc[r] # "buffer"
      BY DEF IInv, InitOrder
    <3> QED
      BY <2>1, <3>1 DEF init, InitEnter, InitClaim, InitRecheck, InitFill, InitBuffer,
                        InitReady, InitRelease, queueVars
  <2>2. CASE push
    BY <2>2 DEF push, PushNotInitialized, PushEnter, PushLoad, PushOdd, PushWrite,
                PushWritten, PushEven, PushPublish, queueVars
  <2>3. CASE pop
    BY <2>3 DEF pop, PopNotInitialized, PopEnter, PopLoad, PopFirstSequence, PopRead,
                PopSecondSequence, PopZero, PopDefault, PopPublish, queueVars
  <2> QED
    BY <2>1, <2>2, <2>3 DEF Next
<1> QED
  BY <1>1, Invariance, PTL DEF Spec, BufferPublishedOnce

-----------------------------------------------------------------------------
(* The slot k places after the oldest item. *)
Slot(k) == (tail + k) % N

Clearing == {"default", "publish"}

(***************************************************************************)
(* What the slots hold.  From tail up to head they hold payloads under     *)
(* even counters, save the first while pop clears it; then pop's local     *)
(* variable has the payload.  The slot at head has the new item before it  *)
(* is published, under an even counter when it is.                         *)
(***************************************************************************)
Stored ==
  \A k \in 0 .. Used - 1 :
    /\ sequence_counter[buffer][Slot(k)] % 2 = 0
    /\ data[buffer][Slot(k)] \in Values \/ (k = 0 /\ cpc \in Clearing)

Producing ==
  /\ ppc # "idle" => item \in Values
  /\ ppc \in {"even", "publish"} => data[buffer][head % N] = item
  /\ ppc = "publish" => sequence_counter[buffer][head % N] % 2 = 0

Consuming ==
  /\ cpc \in {"read", "seq2"} => first_sequence = sequence_counter[buffer][tail % N]
  /\ cpc \in {"seq2", "zero"} => out = data[buffer][tail % N]
  /\ cpc \in Clearing => out \in Values
  /\ cpc = "publish" => data[buffer][tail % N] = Default

Contents ==
  /\ ~is_initialized => head = tail
  /\ Stored /\ Producing /\ Consuming
  /\ Scrubbed

CInv == IInv /\ Contents

-----------------------------------------------------------------------------
(* Slots less than N apart are different, whatever the indices have wrapped. *)
LEMMA SlotFacts ==
  ASSUME IInv
  PROVE  /\ N \in Nat \ {0} /\ Used \in Nat /\ Used <= N
         /\ \A k \in Nat : Slot(k) \in Index
         /\ tail % N = Slot(0) /\ head % N = Slot(Used)
         /\ \A j, k \in 0 .. Used : j < k /\ k - j < N => Slot(j) # Slot(k)
<1>1. /\ N \in Nat \ {0} /\ W \in Nat /\ Used <= N
      /\ head \in Int /\ 0 <= head /\ head < W /\ tail \in Int /\ 0 <= tail /\ tail < W
  BY Sizes DEF IInv, TypeOK, Usize, Occupancy
<1>2. Used = IF head >= tail THEN head - tail ELSE head - tail + W
  BY Distance DEF Used, IInv, TypeOK
<1>3. Used \in Nat
  BY <1>1, <1>2
<1>4. \A k \in Nat : Slot(k) \in Index
  <2>1. \A a \in Int : a % N \in 0 .. N - 1
    BY <1>1, DivMod, Zenon
  <2>2. \A k \in Nat : tail + k \in Int
    BY <1>1
  <2> QED
    BY <2>1, <2>2 DEF Slot, Index
<1>5. tail % N = Slot(0)
  BY <1>1 DEF Slot
<1>6. head % N = Slot(Used)
  <2>1. CASE head >= tail
    BY <1>1, <1>2, <2>1 DEF Slot
  <2>2. CASE ~(head >= tail)
    <3>1. PICK k \in 2 .. W : W = N * k
      BY SizeAssumption
    <3>2. tail + Used = head + N * k
      BY <1>1, <1>2, <2>2, <3>1
    <3>3. k \in Int
      BY <1>1
    <3> QED
      BY <1>1, <3>2, <3>3, ModShift, Zenon DEF Slot
  <2> QED
    BY <2>1, <2>2
<1>7. ASSUME NEW j \in 0 .. Used, NEW k \in 0 .. Used, j < k, k - j < N
      PROVE  Slot(j) # Slot(k)
  <2>1. /\ tail + j \in Int /\ tail + k \in Int /\ tail + j < tail + k
        /\ (tail + k) - (tail + j) < N
    BY <1>1, <1>3, <1>7
  <2> QED
    BY <1>1, <2>1, ModDistinct, Zenon DEF Slot
<1> QED
  BY <1>1, <1>3, <1>4, <1>5, <1>6, <1>7

(* Publishing tail renumbers the slots, wrap-around included. *)
LEMMA NextSlot ==
  ASSUME IInv, tail' = wrapping_add(tail, 1), NEW k \in Nat
  PROVE  Slot(k)' = Slot(k + 1)
<1>1. N \in Nat \ {0} /\ W \in Nat /\ tail \in Int
  BY Sizes DEF IInv, TypeOK, Usize
<1>2. tail' = IF tail = W - 1 THEN 0 ELSE tail + 1
  BY NextIndex DEF IInv, TypeOK
<1>3. CASE tail = W - 1
  <2>1. PICK q \in 2 .. W : W = N * q
    BY SizeAssumption
  <2>2. q \in Int /\ tail + (k + 1) = k + N * q
    <3>1. q \in Int
      BY <1>1
    <3>2. tail + (k + 1) = k + W
      BY <1>1, <1>3
    <3> QED
      BY <2>1, <3>1, <3>2
  <2>3. (k + N * q) % N = k % N
    <3>1. k \in Int
      OBVIOUS
    <3> QED
      BY <1>1, <2>2, <3>1, ModShift, Zenon
  <2>4. tail' + k = k
    BY <1>2, <1>3
  <2> QED
    BY <2>2, <2>3, <2>4 DEF Slot
<1>4. CASE tail # W - 1
  BY <1>1, <1>2, <1>4 DEF Slot
<1> QED
  BY <1>3, <1>4

(* The distance after head, and after tail, has been published. *)
LEMMA UsedAfter ==
  ASSUME IInv
  PROVE  /\ head' = wrapping_add(head, 1) /\ tail' = tail /\ Used < N => Used' = Used + 1
         /\ tail' = wrapping_add(tail, 1) /\ head' = head /\ Used > 0 => Used' = Used - 1
<1>1. /\ N \in Nat \ {0} /\ W \in Nat /\ N + N <= W /\ Used <= N
      /\ head \in Usize /\ tail \in Usize /\ Usize = 0 .. W - 1
  BY Sizes DEF IInv, TypeOK, Usize, Occupancy
<1>2. Used = IF head >= tail THEN head - tail ELSE head - tail + W
  BY <1>1, Distance DEF Used
<1>3. ASSUME head' = wrapping_add(head, 1), tail' = tail, Used < N
      PROVE  Used' = Used + 1
  <2>1. head' = (IF head = W - 1 THEN 0 ELSE head + 1) /\ head' \in Usize
    BY <1>1, <1>3, NextIndex
  <2>2. Used' = IF head' >= tail' THEN head' - tail' ELSE head' - tail' + W
    BY <1>1, <1>3, <2>1, Distance, Zenon DEF Used
  <2> QED
    BY <1>1, <1>2, <1>3, <2>1, <2>2
<1>4. ASSUME tail' = wrapping_add(tail, 1), head' = head, Used > 0
      PROVE  Used' = Used - 1
  <2>1. tail' = (IF tail = W - 1 THEN 0 ELSE tail + 1) /\ tail' \in Usize
    BY <1>1, <1>4, NextIndex
  <2>2. Used' = IF head' >= tail' THEN head' - tail' ELSE head' - tail' + W
    BY <1>1, <1>4, <2>1, Distance, Zenon DEF Used
  <2> QED
    BY <1>1, <1>2, <1>4, <2>1, <2>2
<1> QED
  BY <1>3, <1>4

Filling == {"odd", "write", "writing", "even", "publish"}
Emptying == {"seq1", "read", "seq2", "zero", "default", "publish"}

(* The slot push fills holds no item, and the one pop empties is the first. *)
LEMMA OwnSlots ==
  ASSUME IInv
  PROVE  /\ head % N \in Index /\ tail % N \in Index /\ tail % N = Slot(0)
         /\ ppc \in Filling => \A k \in 0 .. Used - 1 : Slot(k) \in Index \ {head % N}
         /\ cpc \in Emptying => /\ Used > 0
                               /\ \A k \in 1 .. Used - 1 : Slot(k) \in Index \ {tail % N}
         /\ ppc \in Filling /\ cpc \in Emptying => head % N # tail % N
         /\ ppc \in Filling \/ cpc \in Emptying => is_initialized /\ buffer \in Regions
<1>1. /\ N \in Nat \ {0} /\ Used \in Nat /\ Used <= N
      /\ \A k \in Nat : Slot(k) \in Index
      /\ tail % N = Slot(0) /\ head % N = Slot(Used)
      /\ \A j, k \in 0 .. Used : j < k /\ k - j < N => Slot(j) # Slot(k)
  BY SlotFacts
<1>2. ppc \in Filling => Used < N
  BY DEF IInv, Occupancy, Filling
<1>3. cpc \in Emptying => Used > 0
  BY DEF IInv, Occupancy, Emptying
<1>4. ASSUME ppc \in Filling, NEW k \in 0 .. Used - 1
      PROVE  Slot(k) \in Index \ {head % N}
  BY <1>1, <1>2, <1>4
<1>5. ASSUME NEW k \in 1 .. Used - 1
      PROVE  Slot(k) \in Index \ {tail % N}
  BY <1>1, <1>5
<1>6. ASSUME ppc \in Filling, cpc \in Emptying PROVE head % N # tail % N
  BY <1>1, <1>2, <1>3, <1>6
<1>7. ppc \in Filling \/ cpc \in Emptying => is_initialized /\ buffer \in Regions
  BY DEF IInv, TypeOK, InitOrder, CallsAfterInit, Filling, Emptying
<1> QED
  BY <1>1, <1>3, <1>4, <1>5, <1>6, <1>7

-----------------------------------------------------------------------------
(* One slot is written. *)
LEMMA SlotUpdate ==
  ASSUME NEW S, NEW f \in [Regions -> [Index -> S]], NEW b \in Regions, NEW i \in Index, NEW v,
         NEW g, g = [f EXCEPT ![b][i] = v]
  PROVE  /\ g[b][i] = v
         /\ \A j \in Index \ {i} : g[b][j] = f[b][j]
         /\ \A r \in Regions \ {b} : g[r] = f[r]
OBVIOUS

(* Before initialization the queue is empty and no payload is anywhere; after *)
(* it, the steps of init calls touch nothing that push and pop use.           *)
LEMMA InitContents ==
  ASSUME CInv, NEW r \in Regions, init(r)
  PROVE  Contents'
<1>1. UNCHANGED <<head, tail, data, ppc, item, sequence, cpc, first_sequence, out>>
  BY DEF init, InitEnter, InitClaim, InitRecheck, InitFill, InitBuffer, InitReady,
         InitRelease, queueVars, prodVars, consVars
<1>2. UNCHANGED Used /\ \A k : UNCHANGED Slot(k)
  BY <1>1 DEF Used, Slot
<1>3. CASE is_initialized
  <2>1. ipc[r] \notin {"fill", "buffer"}
    BY <1>3 DEF CInv, IInv, InitOrder
  <2>2. UNCHANGED <<buffer, sequence_counter>> /\ is_initialized'
    BY <1>3, <2>1, Zenon DEF init, InitEnter, InitClaim, InitRecheck, InitFill, InitBuffer,
                      InitReady, InitRelease, queueVars
  <2>3. Stored' /\ Producing' /\ Consuming'
    BY <1>1, <1>2, <2>2 DEF CInv, Contents, Stored, Producing, Consuming
  <2>4. Scrubbed'
    BY <1>1, <1>2, <2>2 DEF CInv, Contents, Scrubbed, Live
  <2> QED
    BY <2>2, <2>3, <2>4 DEF Contents
<1>4. CASE ~is_initialized
  <2>1. head = tail /\ ppc = "idle" /\ cpc = "idle"
    BY <1>4 DEF CInv, Contents, IInv, CallsAfterInit
  <2>2. Used = 0
    BY <2>1, NoneUsed, Zenon DEF CInv, IInv
  <2>3. Stored' /\ Producing' /\ Consuming'
    BY <1>1, <1>2, <2>1, <2>2 DEF Stored, Producing, Consuming, Clearing
  <2>4. \A s \in Regions, i \in Index : data[s][i] \notin Values
    BY <2>1, <2>2 DEF CInv, Contents, Scrubbed, Live
  <2>5. Scrubbed'
    BY <1>1, <2>4 DEF Scrubbed
  <2> QED
    BY <1>1, <2>1, <2>3, <2>5 DEF Contents
<1> QED
  BY <1>3, <1>4

(* push writes only the slot at head, which is not yet one of the queue. *)
LEMMA PushContents ==
  ASSUME CInv, push
  PROVE  Contents'
<1>1. UNCHANGED <<is_initialized, buffer, tail, cpc, first_sequence, out>>
  BY DEF push, PushNotInitialized, PushEnter, PushLoad, PushOdd, PushWrite, PushWritten,
         PushEven, PushPublish, queueVars, consVars
<1>2. \A k : UNCHANGED Slot(k)
  BY <1>1 DEF Slot
<1>3. IInv /\ Stored /\ Producing /\ Consuming /\ Scrubbed
  BY DEF CInv, Contents
<1>4. /\ head % N \in Index /\ tail % N \in Index
      /\ ppc \in Filling => \A k \in 0 .. Used - 1 : Slot(k) \in Index \ {head % N}
      /\ ppc \in Filling /\ cpc \in Emptying => head % N # tail % N
      /\ ppc \in Filling => is_initialized /\ buffer \in Regions
  BY <1>3, OwnSlots
<1>5. /\ data \in [Regions -> [Index -> Payload]]
      /\ sequence_counter \in [Regions -> [Index -> Usize]]
  BY <1>3 DEF IInv, TypeOK
<1>6. CASE PushNotInitialized \/ (\E v \in Values : PushEnter(v)) \/ PushLoad
  <2>1. UNCHANGED <<head, data, sequence_counter>>
    BY <1>6 DEF PushNotInitialized, PushEnter, PushLoad, queueVars
  <2>2. UNCHANGED Used
    BY <1>1, <2>1 DEF Used
  <2>3. /\ ppc \in {"idle", "load"} /\ ppc' \in {"idle", "load", "odd"}
        /\ ppc' # "idle" => item' \in Values
    BY <1>3, <1>6 DEF PushNotInitialized, PushEnter, PushLoad, PushReturn, Producing
  <2>4. Stored' /\ Producing' /\ Consuming'
    BY <1>1, <1>2, <1>3, <2>1, <2>2, <2>3 DEF Stored, Producing, Consuming
  <2>5. Scrubbed'
    BY <1>1, <1>3, <2>1, <2>2, <2>3 DEF Scrubbed, Live
  <2> QED
    BY <1>1, <2>1, <2>4, <2>5 DEF CInv, Contents
<1>7. CASE PushOdd \/ PushEven
  <2>1. /\ UNCHANGED <<head, data, item>> /\ ppc \in {"odd", "even"}
        /\ ppc = "odd" => ppc' = "write"
        /\ ppc = "even" => ppc' = "publish"
    BY <1>7 DEF PushOdd, PushEven
  <2>2. PICK v : /\ sequence_counter' = [sequence_counter EXCEPT ![buffer][head % N] = v]
                 /\ ppc = "even" => v = StableSequence(sequence)
    BY <1>7 DEF PushOdd, PushEven
  <2>3. UNCHANGED Used /\ ppc \in Filling
    BY <1>1, <2>1 DEF Used, Filling
  <2>4. /\ sequence_counter'[buffer][head % N] = v
        /\ \A j \in Index \ {head % N} :
              sequence_counter'[buffer][j] = sequence_counter[buffer][j]
    BY <1>4, <1>5, <2>2, <2>3, SlotUpdate
  <2>5. ppc = "even" => v % 2 = 0
    <3>1. \A t \in Int : (t - (t % 2)) % 2 = 0
      OBVIOUS
    <3>2. wrapping_add(sequence, 2) \in Int
      BY <1>3, Sizes, DivMod DEF wrapping_add, IInv, TypeOK, Usize
    <3> QED
      BY <2>2, <3>1, <3>2 DEF StableSequence
  <2>6. Stored'
    BY <1>1, <1>2, <1>3, <1>4, <2>1, <2>3, <2>4 DEF Stored
  <2>7. Producing'
    BY <1>1, <1>3, <2>1, <2>4, <2>5 DEF Producing
  <2>8. Consuming'
    BY <1>1, <1>3, <1>4, <2>1, <2>3, <2>4 DEF Consuming, Clearing, Emptying
  <2>9. Scrubbed'
    BY <1>1, <1>3, <2>1, <2>3 DEF Scrubbed, Live
  <2> QED
    BY <1>1, <2>1, <2>6, <2>7, <2>8, <2>9 DEF CInv, Contents
<1>8. CASE PushWrite \/ PushWritten
  <2>1. /\ UNCHANGED <<head, sequence_counter, item>> /\ ppc \in {"write", "writing"}
        /\ ppc' \in {"writing", "even"}
    BY <1>8 DEF PushWrite, PushWritten
  <2>2. PICK v : /\ data' = [data EXCEPT ![buffer][head % N] = v]
                 /\ ppc' = "even" => v = item
                 /\ v \in Values => ppc' = "even"
    BY <1>8, ValueAssumption DEF PushWrite, PushWritten, Marks
  <2>3. UNCHANGED Used /\ ppc \in Filling
    BY <1>1, <2>1 DEF Used, Filling
  <2>4. /\ data'[buffer][head % N] = v
        /\ \A j \in Index \ {head % N} : data'[buffer][j] = data[buffer][j]
        /\ \A r \in Regions \ {buffer} : data'[r] = data[r]
    BY <1>4, <1>5, <2>2, <2>3, SlotUpdate
  <2>5. Stored'
    BY <1>1, <1>2, <1>3, <1>4, <2>1, <2>3, <2>4 DEF Stored
  <2>6. Producing'
    BY <1>1, <1>3, <2>1, <2>2, <2>4 DEF Producing
  <2>7. Consuming'
    BY <1>1, <1>3, <1>4, <2>1, <2>3, <2>4 DEF Consuming, Clearing, Emptying
  <2>8. Scrubbed'
    BY <1>1, <1>3, <2>1, <2>2, <2>3, <2>4 DEF Scrubbed, Live
  <2> QED
    BY <1>1, <1>4, <2>3, <2>5, <2>6, <2>7, <2>8 DEF Contents
<1>9. CASE PushPublish
  <2>1. /\ UNCHANGED <<data, sequence_counter>> /\ ppc = "publish" /\ ppc' = "idle"
        /\ head' = wrapping_add(head, 1)
    BY <1>9 DEF PushPublish, PushReturn
  <2>2. /\ Used < N /\ Used \in Nat /\ head % N = Slot(Used) /\ is_initialized
    BY <1>3, <1>4, <2>1, SlotFacts DEF IInv, Occupancy, Filling
  <2>3. Used' = Used + 1
    BY <1>1, <1>3, <2>1, <2>2, UsedAfter
  <2>4. \A k \in 0 .. Used' - 1 : k \in 0 .. Used - 1 \/ k = Used
    BY <2>2, <2>3
  <2>5. Stored'
    BY <1>1, <1>2, <1>3, <2>1, <2>2, <2>4 DEF Stored, Producing
  <2>6. Producing' /\ Consuming'
    BY <1>1, <1>3, <2>1 DEF Producing, Consuming
  <2>7. \A i \in Index : Live(i) => Live(i)'
    <3>1. \A k \in 0 .. Used : k \in 0 .. Used' - 1
      BY <2>2, <2>3
    <3>2. \A k \in 0 .. Used - 1 : k \in 0 .. Used
      BY <2>2
    <3> QED
      BY <1>1, <2>2, <3>1, <3>2 DEF Live, Slot
  <2>8. Scrubbed'
    BY <1>1, <1>3, <2>1, <2>7 DEF Scrubbed
  <2> QED
    BY <1>1, <2>2, <2>5, <2>6, <2>8 DEF Contents
<1> QED
  BY <1>6, <1>7, <1>8, <1>9 DEF push

(* pop writes only the slot at tail, the first of the queue, and gives it up *)
(* when it is cleared.                                                       *)
LEMMA PopContents ==
  ASSUME CInv, pop
  PROVE  Contents'
<1>1. UNCHANGED <<is_initialized, buffer, head, sequence_counter, ppc, item>>
  BY DEF pop, PopNotInitialized, PopEnter, PopLoad, PopFirstSequence, PopRead,
         PopSecondSequence, PopZero, PopDefault, PopPublish, queueVars, prodVars
<1>2. IInv /\ Stored /\ Producing /\ Consuming /\ Scrubbed
  BY DEF CInv, Contents
<1>3. /\ head % N \in Index /\ tail % N \in Index /\ tail % N = Slot(0)
      /\ cpc \in Emptying => /\ Used > 0
                            /\ \A k \in 1 .. Used - 1 : Slot(k) \in Index \ {tail % N}
      /\ ppc \in Filling /\ cpc \in Emptying => head % N # tail % N
      /\ cpc \in Emptying => is_initialized /\ buffer \in Regions
  BY <1>2, OwnSlots
<1>4. N \in Nat \ {0} /\ Used \in Nat
  BY <1>2, SlotFacts
<1>5. cpc \in Emptying => 0 \in 0 .. Used - 1
  BY <1>3, <1>4
<1>6. ~is_initialized => head = tail
  BY DEF CInv, Contents
<1>7. CASE PopNotInitialized \/ PopEnter \/ PopLoad \/ PopFirstSequence \/ PopRead
           \/ PopSecondSequence
  <2>1. UNCHANGED <<tail, data>>
    BY <1>7 DEF PopNotInitialized, PopEnter, PopLoad, PopFirstSequence, PopRead,
                PopSecondSequence, queueVars
  <2>2. UNCHANGED Used /\ \A k : UNCHANGED Slot(k)
    BY <1>1, <2>1 DEF Used, Slot
  <2>3. cpc \notin Clearing /\ cpc' \notin Clearing
    BY <1>7 DEF PopNotInitialized, PopEnter, PopLoad, PopFirstSequence, PopRead,
                PopSecondSequence, PopReturn, Clearing
  <2>4. Stored' /\ Producing'
    BY <1>1, <1>2, <2>1, <2>2, <2>3 DEF Stored, Producing
  <2>5. Consuming'
    <3>1. CASE PopNotInitialized \/ PopEnter \/ PopLoad
      BY <2>3, <3>1 DEF PopNotInitialized, PopEnter, PopLoad, PopReturn, Consuming, Clearing
    <3>2. CASE PopFirstSequence
      BY <1>1, <2>1, <2>3, <3>2 DEF PopFirstSequence, PopReturn, Consuming, Clearing
    <3>3. CASE PopRead
      BY <1>1, <1>2, <2>1, <2>3, <3>3 DEF PopRead, Consuming, Clearing
    <3>4. CASE PopSecondSequence
      BY <1>1, <1>2, <2>1, <2>3, <3>4 DEF PopSecondSequence, PopReturn, Consuming, Clearing
    <3> QED
      BY <1>7, <3>1, <3>2, <3>3, <3>4
  <2>6. Scrubbed'
    BY <1>1, <1>2, <2>1, <2>2 DEF Scrubbed, Live
  <2> QED
    BY <1>1, <1>6, <2>1, <2>4, <2>5, <2>6 DEF Contents
<1>8. CASE PopZero \/ PopDefault
  <2>1. /\ UNCHANGED <<tail, out>> /\ cpc \in {"zero", "default"} /\ cpc' \in Clearing
    BY <1>8 DEF PopZero, PopDefault, Clearing
  <2>2. PICK v : /\ data' = [data EXCEPT ![buffer][tail % N] = v]
                 /\ cpc' = "publish" => v = Default
                 /\ v \notin Values
    BY <1>8, ValueAssumption, Zenon DEF PopZero, PopDefault, Marks
  <2>3. cpc \in Emptying
    BY <2>1 DEF Emptying
  <2>4. UNCHANGED Used /\ \A k : UNCHANGED Slot(k)
    BY <1>1, <2>1 DEF Used, Slot
  <2>5. data \in [Regions -> [Index -> Payload]]
    BY <1>2 DEF IInv, TypeOK
  <2>6. /\ data'[buffer][tail % N] = v
        /\ \A j \in Index \ {tail % N} : data'[buffer][j] = data[buffer][j]
        /\ \A r \in Regions \ {buffer} : data'[r] = data[r]
    BY <1>3, <2>2, <2>3, <2>5, SlotUpdate
  <2>7. \A k \in 0 .. Used - 1 : k = 0 \/ k \in 1 .. Used - 1
    BY <1>4
  <2>8. Stored'
    BY <1>1, <1>2, <1>3, <2>1, <2>3, <2>4, <2>6, <2>7 DEF Stored, Clearing
  <2>9. Producing'
    BY <1>1, <1>2, <1>3, <2>3, <2>6 DEF Producing, Filling
  <2>10. out \in Values
    BY <1>2, <1>3, <1>5, <2>1, <2>3 DEF Stored, Consuming, Clearing
  <2>11. Consuming'
    BY <1>1, <2>1, <2>2, <2>6, <2>10 DEF Consuming, Clearing
  <2>12. Scrubbed'
    BY <1>1, <1>2, <2>1, <2>2, <2>4, <2>6 DEF Scrubbed, Live
  <2> QED
    BY <1>1, <1>3, <2>3, <2>8, <2>9, <2>11, <2>12 DEF Contents
<1>9. CASE PopPublish
  <2>1. /\ UNCHANGED data /\ cpc = "publish" /\ cpc' = "idle"
        /\ tail' = wrapping_add(tail, 1) /\ cpc \in Emptying
    BY <1>9 DEF PopPublish, PopReturn, Emptying
  <2>2. Used' = Used - 1
    BY <1>1, <1>2, <1>3, <2>1, UsedAfter
  <2>3. \A k \in Nat : Slot(k)' = Slot(k + 1)
    BY <1>2, <2>1, NextSlot
  <2>4. \A k \in 0 .. Used' - 1 : k \in Nat /\ k + 1 \in 0 .. Used - 1 /\ k + 1 # 0
    BY <1>4, <2>2
  <2>5. Stored'
    BY <1>1, <1>2, <2>1, <2>3, <2>4 DEF Stored
  <2>6. Producing' /\ Consuming'
    BY <1>1, <1>2, <2>1 DEF Producing, Consuming, Clearing
  <2>7. data[buffer][tail % N] \notin Values
    BY <1>2, <2>1, ValueAssumption DEF Consuming, Marks
  <2>8. ASSUME NEW i \in Index \ {tail % N}, Live(i) PROVE Live(i)'
    <3>1. CASE ppc \in {"even", "publish"} /\ i = head % N
      BY <1>1, <3>1 DEF Live
    <3>2. CASE \E k \in 0 .. Used - 1 : i = Slot(k)
      <4>1. PICK k \in 0 .. Used - 1 : i = Slot(k)
        BY <3>2
      <4>2. k # 0
        BY <1>3, <2>8, <4>1
      <4>3. k - 1 \in 0 .. Used' - 1 /\ k - 1 \in Nat /\ (k - 1) + 1 = k
        BY <1>4, <2>2, <4>2
      <4>4. i = Slot(k - 1)'
        BY <2>3, <4>1, <4>3
      <4> QED
        BY <4>3, <4>4 DEF Live, Slot
    <3> QED
      BY <2>8, <3>1, <3>2 DEF Live, Slot
  <2>9. Scrubbed'
    BY <1>1, <1>2, <2>1, <2>7, <2>8 DEF Scrubbed
  <2> QED
    BY <1>1, <1>3, <2>1, <2>5, <2>6, <2>9 DEF Contents
<1> QED
  BY <1>7, <1>8, <1>9 DEF pop

-----------------------------------------------------------------------------
LEMMA ContentsInvariant == Spec => []CInv
<1>1. Init => Contents
  <2> SUFFICES ASSUME Init PROVE Contents
    OBVIOUS
  <2>1. Used = 0
    BY InitIInv, NoneUsed DEF Init, IInv
  <2>2. Stored /\ Producing /\ Consuming
    BY <2>1 DEF Init, Stored, Producing, Consuming, Clearing
  <2>3. Scrubbed
    BY ValueAssumption DEF Init, Scrubbed, Marks
  <2> QED
    BY <2>2, <2>3 DEF Init, Contents
<1>2. CInv /\ [Next]_vars => Contents'
  <2> SUFFICES ASSUME CInv, [Next]_vars PROVE Contents'
    OBVIOUS
  <2>1. CASE Next
    BY <2>1, InitContents, PushContents, PopContents DEF Next
  <2>2. CASE UNCHANGED vars
    BY <2>2 DEF CInv, Contents, Stored, Producing, Consuming, Scrubbed, Live, Slot, Used,
                vars, queueVars, prodVars, consVars
  <2> QED
    BY <2>1, <2>2
<1> QED
  BY <1>1, <1>2, InitIInv, NextPreserves, PTL DEF Spec, CInv

(***************************************************************************)
(* For every capacity, index width and set of payloads, and however the    *)
(* threads interleave: once pop has returned a payload, no slot of any     *)
(* buffer still holds it.                                                  *)
(***************************************************************************)
THEOREM NothingLingers == Spec => []Scrubbed
<1>1. CInv => Scrubbed
  BY DEF CInv, Contents
<1> QED
  BY <1>1, ContentsInvariant, PTL

-----------------------------------------------------------------------------
(* The item at place k of the queue. *)
Entry(k) == IF k = 1 /\ cpc \in Clearing THEN out ELSE data[buffer][Slot(k - 1)]

(* The abstract queue is a sequence of payloads, one for each used slot. *)
IsQueue ==
  /\ Used \in Nat
  /\ AbstractQueue = [k \in 1 .. Used |-> Entry(k)]
  /\ AbstractQueue \in Seq(Values)
  /\ Len(AbstractQueue) = Used
  /\ \A k \in 1 .. Used : AbstractQueue[k] = Entry(k)

LEMMA QueueFacts == CInv => IsQueue
<1> SUFFICES ASSUME CInv PROVE IsQueue
  OBVIOUS
<1>1. Used \in Nat /\ tail \in Int
  BY SlotFacts, Sizes DEF CInv, IInv, TypeOK, Usize
<1>2. \A k \in 1 .. Used : (tail + k - 1) % N = Slot(k - 1) /\ k - 1 \in 0 .. Used - 1
  <2>1. \A k \in 1 .. Used : tail + k - 1 = tail + (k - 1) /\ k - 1 \in 0 .. Used - 1
    BY <1>1
  <2> QED
    BY <2>1 DEF Slot
<1>3. AbstractQueue = [k \in 1 .. Used |-> Entry(k)]
  BY <1>2, Zenon DEF AbstractQueue, Entry, Clearing
<1>4. ASSUME NEW k \in 1 .. Used PROVE Entry(k) \in Values
  <2>1. CASE k = 1 /\ cpc \in Clearing
    BY <2>1 DEF CInv, Contents, Consuming, Entry
  <2>2. CASE ~(k = 1 /\ cpc \in Clearing)
    <3>1. k # 1 => k - 1 # 0
      BY <1>1
    <3>2. data[buffer][Slot(k - 1)] \in Values
      BY <1>2, <2>2, <3>1 DEF CInv, Contents, Stored
    <3> QED
      BY <2>2, <3>2 DEF Entry
  <2> QED
    BY <2>1, <2>2
<1>5. AbstractQueue \in [1 .. Used -> Values]
  BY <1>3, <1>4
<1>6. AbstractQueue \in Seq(Values) /\ Len(AbstractQueue) = Used
  BY <1>1, <1>5
<1> QED
  BY <1>1, <1>3, <1>6 DEF IsQueue

LEMMA QueueFactsNext == CInv' => IsQueue'
BY QueueFacts, PTL

(* Steps after which the same items are queued. *)
LEMMA SameQueue ==
  ASSUME CInv, CInv', Used' = Used, \A k \in 1 .. Used : Entry(k)' = Entry(k)
  PROVE  AbstractQueue' = AbstractQueue
BY QueueFacts, QueueFactsNext DEF IsQueue

(* The queue is empty exactly when no slot is used. *)
LEMMA EmptyQueue ==
  ASSUME CInv
  PROVE  (AbstractQueue = <<>>) <=> (Used = 0)
<1>1. AbstractQueue \in Seq(Values) /\ Len(AbstractQueue) = Used
  BY QueueFacts DEF IsQueue
<1> QED
  BY <1>1, EmptySeq

(* What publishing head, and publishing tail, do to the abstract queue. *)
LEMMA AppendStep ==
  ASSUME CInv, CInv', Used' = Used + 1, NEW v \in Values,
         \A k \in 1 .. Used : Entry(k)' = Entry(k),
         \A k \in {Used + 1} : Entry(k)' = v
  PROVE  AbstractQueue' = Append(AbstractQueue, v)
<1>1. IsQueue /\ IsQueue'
  BY QueueFacts, QueueFactsNext
<1> DEFINE q == Append(AbstractQueue, v)
<1>2. /\ q \in Seq(Values) /\ Len(q) = Used + 1 /\ q[Used + 1] = v
      /\ \A k \in 1 .. Used : q[k] = AbstractQueue[k]
  BY <1>1, AppendProperties DEF IsQueue
<1>3. \A k \in 1 .. Used + 1 : k \in 1 .. Used \/ k = Used + 1
  BY <1>1 DEF IsQueue
<1> HIDE DEF q
<1>4. \A k \in 1 .. Used + 1 : AbstractQueue'[k] = q[k]
  BY <1>1, <1>2, <1>3 DEF IsQueue
<1>5. AbstractQueue' = q
  <2>1. /\ AbstractQueue' \in Seq(Values) /\ q \in Seq(Values)
        /\ Len(AbstractQueue') = Len(q)
        /\ \A k \in 1 .. Len(AbstractQueue') : AbstractQueue'[k] = q[k]
    BY <1>1, <1>2, <1>4 DEF IsQueue
  <2> QED
    BY <2>1, SeqEqual, Zenon
<1> QED
  BY <1>5 DEF q

LEMMA TailStep ==
  ASSUME CInv, CInv', Used > 0, Used' = Used - 1,
         \A k \in 1 .. Used - 1 : Entry(k)' = Entry(k + 1)
  PROVE  /\ AbstractQueue' = Tail(AbstractQueue)
         /\ Head(AbstractQueue) = Entry(1)
<1>1. IsQueue /\ IsQueue'
  BY QueueFacts, QueueFactsNext
<1>2. AbstractQueue # <<>>
  BY <1>1, EmptyQueue DEF IsQueue
<1> DEFINE q == Tail(AbstractQueue)
<1>3. /\ q \in Seq(Values) /\ Len(q) = Used - 1 /\ Head(AbstractQueue) = AbstractQueue[1]
      /\ \A k \in 1 .. Used - 1 : q[k] = AbstractQueue[k + 1]
  <2>1. /\ AbstractQueue \in Seq(Values) /\ AbstractQueue # <<>>
        /\ Len(AbstractQueue) = Used
    BY <1>1, <1>2 DEF IsQueue
  <2>2. /\ q \in Seq(Values) /\ Len(q) = Len(AbstractQueue) - 1
        /\ \A k \in 1 .. Len(q) : q[k] = AbstractQueue[k + 1]
    BY <2>1, HeadTailProperties, Zenon
  <2>3. Head(AbstractQueue) = AbstractQueue[1]
    BY <2>1
  <2> HIDE DEF q
  <2> QED
    BY <2>1, <2>2, <2>3
<1>4. 1 \in 1 .. Used /\ \A k \in 1 .. Used - 1 : k + 1 \in 1 .. Used
  BY <1>1 DEF IsQueue
<1> HIDE DEF q
<1>5. AbstractQueue[1] = Entry(1) /\ \A k \in 1 .. Used - 1 : AbstractQueue'[k] = q[k]
  BY <1>1, <1>3, <1>4 DEF IsQueue
<1>6. AbstractQueue' = q
  <2>1. /\ AbstractQueue' \in Seq(Values) /\ q \in Seq(Values)
        /\ Len(AbstractQueue') = Len(q)
        /\ \A k \in 1 .. Len(AbstractQueue') : AbstractQueue'[k] = q[k]
    BY <1>1, <1>3, <1>5 DEF IsQueue
  <2> QED
    BY <2>1, SeqEqual, Zenon
<1> QED
  BY <1>3, <1>5, <1>6 DEF q

-----------------------------------------------------------------------------
(* The steps of init: setting is_initialized makes the abstract queue ready. *)
LEMMA InitSteps ==
  ASSUME CInv, CInv', NEW r \in Regions, init(r)
  PROVE  Queue!BecomeReady \/ UNCHANGED Queue!vars
<1>1. UNCHANGED <<head, tail, data, push_result, cpc, out, pop_result>>
  BY DEF init, InitEnter, InitClaim, InitRecheck, InitFill, InitBuffer, InitReady,
         InitRelease, queueVars, prodVars, consVars
<1>2. UNCHANGED Used /\ \A k : UNCHANGED Slot(k)
  BY <1>1 DEF Used, Slot
<1>3. is_initialized' = is_initialized \/ is_initialized' = TRUE
  BY DEF init, InitEnter, InitClaim, InitRecheck, InitFill, InitBuffer, InitReady,
         InitRelease, queueVars
<1>4. is_initialized \in BOOLEAN
  BY DEF CInv, IInv, TypeOK
<1>5. \A k \in 1 .. Used : Entry(k)' = Entry(k)
  <2>1. CASE is_initialized
    <3>1. UNCHANGED buffer
      BY <2>1, Zenon DEF CInv, IInv, InitOrder, init, InitEnter, InitClaim, InitRecheck, InitFill,
                  InitBuffer, InitReady, InitRelease, queueVars
    <3> QED
      BY <1>1, <1>2, <3>1 DEF Entry
  <2>2. CASE ~is_initialized
    <3>1. Used = 0
      BY <2>2, NoneUsed, Zenon DEF CInv, Contents, IInv
    <3> QED
      BY <3>1
  <2> QED
    BY <2>1, <2>2
<1>6. UNCHANGED AbstractQueue
  BY <1>2, <1>5, SameQueue
<1> QED
  BY <1>1, <1>3, <1>4, <1>6, Zenon DEF Queue!BecomeReady, Queue!vars

(* The steps of push: it takes effect when it publishes head or is refused. *)
LEMMA PushSteps ==
  ASSUME CInv, CInv', push
  PROVE  \/ Queue!PushRefused \/ Queue!PushFull \/ \E v \in Values : Queue!Push(v)
         \/ UNCHANGED Queue!vars
<1>1. UNCHANGED <<is_initialized, buffer, tail, cpc, out, pop_result>>
  BY DEF push, PushNotInitialized, PushEnter, PushLoad, PushOdd, PushWrite, PushWritten,
         PushEven, PushPublish, queueVars, consVars
<1>2. \A k : UNCHANGED Slot(k)
  BY <1>1 DEF Slot
<1>3. IInv /\ IsQueue /\ Producing
  BY QueueFacts DEF CInv, Contents
<1>4. /\ head % N \in Index
      /\ ppc \in Filling => \A k \in 0 .. Used - 1 : Slot(k) \in Index \ {head % N}
      /\ ppc \in Filling => is_initialized /\ buffer \in Regions
  BY <1>3, OwnSlots
<1>5. \A k \in 1 .. Used : k - 1 \in 0 .. Used - 1
  BY <1>3 DEF IsQueue
<1>6. CASE PushNotInitialized \/ (\E v \in Values : PushEnter(v)) \/ PushLoad
           \/ PushOdd \/ PushEven
  <2>1. UNCHANGED <<head, data>>
    BY <1>6 DEF PushNotInitialized, PushEnter, PushLoad, PushOdd, PushEven, queueVars
  <2>2. UNCHANGED Used /\ \A k \in 1 .. Used : Entry(k)' = Entry(k)
    BY <1>1, <1>2, <2>1 DEF Used, Entry
  <2>3. UNCHANGED AbstractQueue
    BY <2>2, SameQueue
  <2>4. CASE PushNotInitialized
    BY <1>1, <2>3, <2>4 DEF PushNotInitialized, PushReturn, Queue!PushRefused
  <2>5. CASE PushLoad /\ Used >= N
    <3>1. push_result' = "QueueFull" /\ is_initialized
      BY <1>3, <2>5 DEF PushLoad, PushReturn, Used, IInv, CallsAfterInit
    <3>2. Len(AbstractQueue) = N
      BY <1>3, <2>5, SlotFacts DEF IsQueue
    <3> QED
      BY <1>1, <2>3, <3>1, <3>2 DEF Queue!PushFull
  <2>6. CASE (\E v \in Values : PushEnter(v)) \/ (PushLoad /\ ~(Used >= N))
             \/ PushOdd \/ PushEven
    <3>1. UNCHANGED push_result
      BY <2>6 DEF PushEnter, PushLoad, PushOdd, PushEven, Used
    <3> QED
      BY <1>1, <2>3, <3>1 DEF Queue!vars
  <2> QED
    BY <1>6, <2>4, <2>5, <2>6
<1>7. CASE PushWrite \/ PushWritten
  <2>1. UNCHANGED <<head, push_result>> /\ ppc \in Filling
    BY <1>7 DEF PushWrite, PushWritten, Filling
  <2>2. PICK v : data' = [data EXCEPT ![buffer][head % N] = v]
    BY <1>7 DEF PushWrite, PushWritten
  <2>3. data \in [Regions -> [Index -> Payload]]
    BY <1>3 DEF IInv, TypeOK
  <2>4. \A j \in Index \ {head % N} : data'[buffer][j] = data[buffer][j]
    BY <1>4, <2>1, <2>2, <2>3, SlotUpdate
  <2>5. UNCHANGED Used
    BY <1>1, <2>1 DEF Used
  <2>6. \A k \in 1 .. Used : Entry(k)' = Entry(k)
    BY <1>1, <1>2, <1>4, <1>5, <2>1, <2>4 DEF Entry
  <2>7. UNCHANGED AbstractQueue
    BY <2>5, <2>6, SameQueue
  <2> QED
    BY <1>1, <2>1, <2>7 DEF Queue!vars
<1>8. CASE PushPublish
  <2>1. /\ UNCHANGED data /\ ppc = "publish" /\ push_result' = "Ok"
        /\ head' = wrapping_add(head, 1) /\ ppc \in Filling
    BY <1>8 DEF PushPublish, PushReturn, Filling
  <2>2. Used < N /\ Used \in Nat /\ head % N = Slot(Used)
    BY <1>3, <2>1, SlotFacts DEF IInv, Occupancy
  <2>3. Used' = Used + 1
    BY <1>1, <1>3, <2>1, <2>2, UsedAfter
  <2>4. \A k \in 1 .. Used : Entry(k)' = Entry(k)
    BY <1>1, <1>2, <2>1 DEF Entry
  <2>5. item \in Values /\ data[buffer][Slot(Used)] = item
    BY <1>3, <2>1, <2>2 DEF Producing
  <2>6. ASSUME NEW k \in {Used + 1} PROVE Entry(k)' = item
    <3>1. k - 1 = Used /\ (k = 1 => Used = 0)
      BY <2>2
    <3>2. cpc \in Clearing => Used > 0
      BY <1>3 DEF IInv, Occupancy, Clearing
    <3>3. ~(k = 1 /\ cpc' \in Clearing)
      BY <1>1, <2>2, <3>1, <3>2
    <3> QED
      BY <1>1, <1>2, <2>1, <2>5, <3>1, <3>3 DEF Entry
  <2>7. AbstractQueue' = Append(AbstractQueue, item)
    BY <2>3, <2>4, <2>5, <2>6, AppendStep
  <2>8. Len(AbstractQueue) < N
    BY <1>3, <2>2 DEF IsQueue
  <2> QED
    BY <1>1, <1>4, <2>1, <2>5, <2>7, <2>8 DEF Queue!Push
<1> QED
  BY <1>6, <1>7, <1>8 DEF push

(***************************************************************************)
(* The steps of pop: it takes effect when it sees head = tail or publishes *)
(* tail.  The two checks of the sequence counter never refuse an item,     *)
(* which is where Stored and Consuming are needed.                         *)
(***************************************************************************)
LEMMA PopSteps ==
  ASSUME CInv, CInv', pop
  PROVE  Queue!PopEmpty \/ Queue!Pop \/ UNCHANGED Queue!vars
<1>1. UNCHANGED <<is_initialized, buffer, head, push_result>>
  BY DEF pop, PopNotInitialized, PopEnter, PopLoad, PopFirstSequence, PopRead,
         PopSecondSequence, PopZero, PopDefault, PopPublish, queueVars, prodVars
<1>2. IInv /\ IsQueue /\ Stored /\ Consuming
  BY QueueFacts DEF CInv, Contents
<1>3. /\ tail % N \in Index /\ tail % N = Slot(0)
      /\ cpc \in Emptying => /\ Used > 0
                            /\ \A k \in 1 .. Used - 1 : Slot(k) \in Index \ {tail % N}
      /\ cpc \in Emptying => is_initialized /\ buffer \in Regions
  BY <1>2, OwnSlots
<1>4. Used \in Nat /\ (cpc \in Emptying => 0 \in 0 .. Used - 1)
  BY <1>2, <1>3 DEF IsQueue
<1>5. CASE PopNotInitialized \/ PopEnter \/ PopLoad \/ PopFirstSequence \/ PopRead
           \/ PopSecondSequence
  <2>1. UNCHANGED <<tail, data>>
    BY <1>5, Zenon DEF PopNotInitialized, PopEnter, PopLoad, PopFirstSequence, PopRead,
                PopSecondSequence, queueVars
  <2>2. UNCHANGED Used /\ \A k : UNCHANGED Slot(k)
    BY <1>1, <2>1 DEF Used, Slot
  <2>3. cpc \notin Clearing /\ cpc' \notin Clearing
    BY <1>5, Zenon DEF PopNotInitialized, PopEnter, PopLoad, PopFirstSequence, PopRead,
                PopSecondSequence, PopReturn, Clearing
  <2>4. UNCHANGED AbstractQueue
    <3>1. \A k \in 1 .. Used : Entry(k)' = Entry(k)
      BY <1>1, <2>1, <2>2, <2>3 DEF Entry
    <3> QED
      BY <2>2, <3>1, SameQueue
  <2>5. ASSUME head = tail, pop_result' = NoItem PROVE Queue!PopEmpty
    <3>1. Used = 0
      BY <1>2, <2>5, NoneUsed, Zenon DEF IInv
    <3> QED
      BY <1>1, <2>4, <2>5, <3>1, EmptyQueue DEF Queue!PopEmpty
  <2>6. CASE PopNotInitialized
    BY <2>5, <2>6 DEF PopNotInitialized, PopReturn, CInv, Contents
  <2>7. CASE PopLoad /\ head = tail
    BY <2>5, <2>7 DEF PopLoad, PopReturn
  <2>8. CASE PopEnter \/ (PopLoad /\ head # tail) \/ PopRead
    <3>1. UNCHANGED pop_result
      BY <2>8 DEF PopEnter, PopLoad, PopRead
    <3> QED
      BY <1>1, <2>4, <3>1 DEF Queue!vars
  <2>9. CASE PopFirstSequence \/ PopSecondSequence
    <3>1. cpc \in {"seq1", "seq2"} /\ cpc \in Emptying
      BY <2>9 DEF PopFirstSequence, PopSecondSequence, Emptying
    <3>2. sequence_counter[buffer][tail % N] % 2 = 0
      BY <1>2, <1>3, <1>4, <3>1 DEF Stored
    <3>3. cpc = "seq2" => first_sequence = sequence_counter[buffer][tail % N]
      BY <1>2 DEF Consuming
    <3>4. UNCHANGED pop_result
      BY <2>9, <3>2, <3>3 DEF PopFirstSequence, PopSecondSequence
    <3> QED
      BY <1>1, <2>4, <3>4 DEF Queue!vars
  <2> QED
    BY <1>5, <2>6, <2>7, <2>8, <2>9
<1>6. CASE PopZero \/ PopDefault
  <2>1. /\ UNCHANGED <<tail, out, pop_result>> /\ cpc \in {"zero", "default"}
        /\ cpc' \in Clearing /\ cpc \in Emptying
    BY <1>6 DEF PopZero, PopDefault, Clearing, Emptying
  <2>2. PICK v : data' = [data EXCEPT ![buffer][tail % N] = v]
    BY <1>6 DEF PopZero, PopDefault
  <2>3. data \in [Regions -> [Index -> Payload]]
    BY <1>2 DEF IInv, TypeOK
  <2>4. \A j \in Index \ {tail % N} : data'[buffer][j] = data[buffer][j]
    BY <1>3, <2>1, <2>2, <2>3, SlotUpdate
  <2>5. UNCHANGED Used /\ \A k : UNCHANGED Slot(k)
    BY <1>1, <2>1 DEF Used, Slot
  <2>6. ASSUME NEW k \in 1 .. Used PROVE Entry(k)' = Entry(k)
    <3>1. CASE k = 1
      <4>1. k - 1 = 0
        BY <3>1
      <4>2. cpc \notin Clearing => Entry(k) = out
        BY <1>2, <1>3, <2>1, <4>1 DEF Entry, Consuming, Clearing
      <4> QED
        BY <2>1, <3>1, <4>2 DEF Entry
    <3>2. CASE k # 1
      <4>1. k - 1 \in 1 .. Used - 1
        BY <1>4, <3>2
      <4> QED
        BY <1>1, <1>3, <2>1, <2>4, <2>5, <3>2, <4>1 DEF Entry
    <3> QED
      BY <3>1, <3>2
  <2>7. UNCHANGED AbstractQueue
    BY <2>5, <2>6, SameQueue
  <2> QED
    BY <1>1, <2>1, <2>7 DEF Queue!vars
<1>7. CASE PopPublish
  <2>1. /\ UNCHANGED data /\ cpc = "publish" /\ cpc' = "idle" /\ pop_result' = out
        /\ tail' = wrapping_add(tail, 1) /\ cpc \in Emptying
    BY <1>7 DEF PopPublish, PopReturn, Emptying
  <2>2. Used > 0 /\ Used' = Used - 1
    BY <1>1, <1>2, <1>3, <2>1, UsedAfter
  <2>3. ASSUME NEW k \in 1 .. Used - 1 PROVE Entry(k)' = Entry(k + 1)
    <3>1. k - 1 \in Nat /\ (k - 1) + 1 = k /\ (k + 1) - 1 = k /\ k + 1 # 1
      BY <1>4
    <3>2. Slot(k - 1)' = Slot(k)
      BY <1>2, <2>1, <3>1, NextSlot
    <3> QED
      BY <1>1, <2>1, <3>1, <3>2 DEF Entry, Clearing
  <2>4. Entry(1) = out
    BY <2>1 DEF Entry, Clearing
  <2>5. AbstractQueue' = Tail(AbstractQueue) /\ Head(AbstractQueue) = out
    BY <2>2, <2>3, <2>4, TailStep
  <2>6. AbstractQueue # <<>>
    BY <1>4, <2>2, EmptyQueue
  <2> QED
    BY <1>1, <2>1, <2>5, <2>6 DEF Queue!Pop
<1> QED
  BY <1>5, <1>6, <1>7 DEF pop

(***************************************************************************)
(* For every capacity, index width, set of payloads and number of init     *)
(* callers, the queue implements a bounded first-in first-out queue: every *)
(* push and pop takes effect in one of its steps, items come out once,     *)
(* unaltered and in order, QueueFull means full and None means empty.      *)
(***************************************************************************)
THEOREM ImplementsFifo == Spec => Queue!Spec
<1>1. Init => Queue!Init
  <2> SUFFICES ASSUME Init PROVE Queue!Init
    OBVIOUS
  <2>1. Used = 0
    BY InitIInv, NoneUsed DEF Init, IInv
  <2>2. AbstractQueue = <<>>
    BY <2>1, NothingQueued, Zenon
  <2> QED
    BY <2>2, Zenon DEF Init, Queue!Init
<1>2. CInv /\ CInv' /\ [Next]_vars => [Queue!Next]_(Queue!vars)
  <2> SUFFICES ASSUME CInv, CInv', [Next]_vars PROVE Queue!Next \/ UNCHANGED Queue!vars
    OBVIOUS
  <2>1. CASE Next
    BY <2>1, InitSteps, PushSteps, PopSteps DEF Next, Queue!Next
  <2>2. CASE UNCHANGED vars
    <3>1. UNCHANGED AbstractQueue
      BY <2>2 DEF AbstractQueue, Used, vars, queueVars, consVars
    <3> QED
      BY <2>2, <3>1 DEF Queue!vars, vars, queueVars, prodVars, consVars
  <2> QED
    BY <2>1, <2>2
<1> QED
  BY <1>1, <1>2, ContentsInvariant, PTL DEF Spec, Queue!Spec

-----------------------------------------------------------------------------
(***************************************************************************)
(* The ring buffer.  Its steps are steps of SpscQueue or steps of peek,    *)
(* which leave the queue alone; what remains is what peek knows between    *)
(* its steps.  The consumer is not in pop meanwhile, so the slot at tail   *)
(* stays a used one: push does not write it and init is over.              *)
(***************************************************************************)
PeekInv ==
  /\ kpc # "idle" => cpc = "idle" /\ is_initialized
  /\ kpc \in {"seq1", "read", "seq2"} => Used > 0
  /\ kpc \in {"read", "seq2"} => peek_sequence = sequence_counter[buffer][tail % N]
  /\ kpc = "seq2" => peek_out = data[buffer][tail % N]

RInv == CInv /\ PeekInv

LEMMA PeekLeavesQueue == peek => UNCHANGED vars
BY DEF peek, PeekNotInitialized, PeekEnter, PeekLoad, PeekFirstSequence, PeekRead,
       PeekSecondSequence

(* A ring buffer whose peek is not looked at is a queue. *)
LEMMA RingIsQueue == RingSpec => Spec
<1>1. RingInit => Init
  BY DEF RingInit
<1>2. [RingNext]_ringVars => [Next]_vars
  BY PeekLeavesQueue DEF RingNext, ring_init, ring_push, ring_pop, Next, ringVars
<1> QED
  BY <1>1, <1>2, PTL DEF RingSpec, Spec

(* What init calls leave alone once the queue is initialized. *)
LEMMA InitKeepsPeek ==
  ASSUME IInv, PeekInv, NEW r \in Regions, init(r), UNCHANGED peekVars
  PROVE  PeekInv'
<1>1. is_initialized => UNCHANGED <<is_initialized, buffer, sequence_counter>>
  BY Zenon DEF IInv, TypeOK, InitOrder, init, InitEnter, InitClaim, InitRecheck, InitFill, InitBuffer,
         InitReady, InitRelease, queueVars
<1>2. UNCHANGED <<cpc, head, tail, data>>
  BY DEF init, InitEnter, InitClaim, InitRecheck, InitFill, InitBuffer, InitReady,
         InitRelease, queueVars, consVars
<1> QED
  BY <1>1, <1>2 DEF PeekInv, Used, peekVars

(* push writes the slot at head, and that is not the one peek looks at. *)
LEMMA PushKeepsPeek ==
  ASSUME IInv, IInv', PeekInv, push, UNCHANGED peekVars
  PROVE  PeekInv'
<1>1. UNCHANGED <<is_initialized, buffer, tail, cpc>>
  BY DEF push, PushNotInitialized, PushEnter, PushLoad, PushOdd, PushWrite, PushWritten,
         PushEven, PushPublish, queueVars, consVars
<1>2. Used \in Nat /\ Used <= N /\ N \in Nat /\ head % N \in Index
  BY SlotFacts, OwnSlots
<1>3. Used > 0 => Used' > 0
  <2>1. CASE PushPublish
    <3>1. Used' = Used + 1
      BY <2>1, UsedAfter DEF PushPublish, IInv, Occupancy
    <3> QED
      BY <1>2, <3>1
  <2>2. CASE ~PushPublish
    <3>1. UNCHANGED head
      BY <2>2 DEF push, PushNotInitialized, PushEnter, PushLoad, PushOdd, PushWrite,
                  PushWritten, PushEven, queueVars
    <3> QED
      BY <1>1, <3>1 DEF Used
  <2> QED
    BY <2>1, <2>2
<1>4. ASSUME Used > 0
      PROVE  /\ sequence_counter'[buffer][tail % N] = sequence_counter[buffer][tail % N]
             /\ data'[buffer][tail % N] = data[buffer][tail % N]
  <2>1. CASE ppc \in Filling
    <3>1. /\ tail % N = Slot(0) /\ 0 \in 0 .. Used - 1
          /\ buffer \in Regions
          /\ \A k \in 0 .. Used - 1 : Slot(k) \in Index \ {head % N}
      BY <1>2, <1>4, <2>1, OwnSlots
    <3>2. tail % N \in Index \ {head % N}
      BY <3>1, Zenon
    <3>3. /\ data \in [Regions -> [Index -> Payload]]
          /\ sequence_counter \in [Regions -> [Index -> Usize]]
      BY DEF IInv, TypeOK
    <3>4. /\ data' = data \/ \E v : data' = [data EXCEPT ![buffer][head % N] = v]
          /\ \/ sequence_counter' = sequence_counter
             \/ \E v : sequence_counter' = [sequence_counter EXCEPT ![buffer][head % N] = v]
      BY DEF push, PushNotInitialized, PushEnter, PushLoad, PushOdd, PushWrite, PushWritten,
             PushEven, PushPublish, queueVars
    <3>5. data'[buffer][tail % N] = data[buffer][tail % N]
      BY <1>2, <3>1, <3>2, <3>3, <3>4, SlotUpdate
    <3>6. sequence_counter'[buffer][tail % N] = sequence_counter[buffer][tail % N]
      BY <1>2, <3>1, <3>2, <3>3, <3>4, SlotUpdate
    <3> QED
      BY <3>5, <3>6
  <2>2. CASE ppc \notin Filling
    BY <2>2 DEF push, PushNotInitialized, PushEnter, PushLoad, PushOdd, PushWrite, PushWritten,
                PushEven, PushPublish, queueVars, Filling
  <2> QED
    BY <2>1, <2>2
<1> QED
  BY <1>1, <1>3, <1>4, Zenon DEF PeekInv, peekVars

(* The steps of peek itself. *)
LEMMA PeekKeepsPeek ==
  ASSUME IInv, PeekInv, peek
  PROVE  PeekInv'
<1>1. UNCHANGED vars
  BY PeekLeavesQueue
<1>2. UNCHANGED <<is_initialized, buffer, head, tail, cpc, data, sequence_counter>>
  BY <1>1 DEF vars, queueVars, consVars
<1>3. head # tail => Used > 0
  BY Distance, Sizes DEF Used, IInv, TypeOK, Usize
<1> QED
  BY <1>2, <1>3, Zenon DEF PeekInv, Used, peek, PeekNotInitialized, PeekEnter, PeekLoad,
     PeekFirstSequence, PeekRead, PeekSecondSequence, PeekReturn

LEMMA RingInvariant == RingSpec => []RInv
<1>1. RingInit => PeekInv
  BY DEF RingInit, PeekInv
<1>2. CInv /\ CInv' /\ PeekInv /\ [RingNext]_ringVars => PeekInv'
  <2> SUFFICES ASSUME CInv, CInv', PeekInv, [RingNext]_ringVars PROVE PeekInv'
    OBVIOUS
  <2>1. IInv /\ IInv'
    BY DEF CInv
  <2>2. ASSUME NEW r \in Regions, ring_init(r) PROVE PeekInv'
    BY <2>1, <2>2, InitKeepsPeek DEF ring_init
  <2>3. CASE ring_push
    BY <2>1, <2>3, PushKeepsPeek DEF ring_push
  <2>4. CASE ring_pop
    BY <2>4 DEF ring_pop, PeekInv, peekVars
  <2>5. CASE peek
    BY <2>1, <2>5, PeekKeepsPeek
  <2>6. CASE UNCHANGED ringVars
    BY <2>6 DEF ringVars, peekVars, vars, queueVars, consVars, PeekInv, Used
  <2> QED
    BY <2>2, <2>3, <2>4, <2>5, <2>6 DEF RingNext
<1> QED
  BY <1>1, <1>2, RingIsQueue, ContentsInvariant, PTL DEF RingSpec, RInv

(***************************************************************************)
(* What holds of the queue's init, push and pop holds of the ring          *)
(* buffer's: no race on a slot, nothing popped lingers, and the backing    *)
(* buffer is published once.                                               *)
(***************************************************************************)
THEOREM RingKeepsQueue == RingSpec => []RaceFree /\ []Scrubbed /\ BufferPublishedOnce
BY RingIsQueue, NoDataRace, NothingLingers, PublishedOnce, PTL

(***************************************************************************)
(* For every capacity and index width, wrap-around included: push never    *)
(* writes the slot that peek is reading.                                   *)
(***************************************************************************)
THEOREM PeekNeverRaces == RingSpec => []PeekRaceFree
<1>1. RInv => PeekRaceFree
  <2> SUFFICES ASSUME RInv, ProducerInSlot, kpc = "read" PROVE head % N # tail % N
    BY DEF PeekRaceFree
  <2>1. IInv /\ Used > 0 /\ ppc \in Filling
    BY DEF RInv, CInv, PeekInv, ProducerInSlot, Filling
  <2>2. Used \in Nat /\ 0 \in 0 .. Used - 1
    BY <2>1, SlotFacts
  <2> QED
    BY <2>1, <2>2, OwnSlots
<1> QED
  BY <1>1, RingInvariant, PTL

-----------------------------------------------------------------------------
(* The steps of peek: it takes effect when it sees head = tail, or at its   *)
(* second look at the counter, which never refuses the item.                *)
LEMMA PeekSteps ==
  ASSUME RInv, peek
  PROVE  RingQueue!PeekEmpty \/ RingQueue!Peek \/ UNCHANGED RingQueue!vars
<1>1. UNCHANGED <<is_initialized, push_result, pop_result>> /\ UNCHANGED AbstractQueue
  <2>1. UNCHANGED vars
    BY PeekLeavesQueue
  <2> QED
    BY <2>1 DEF vars, queueVars, prodVars, consVars, AbstractQueue, Used
<1>2. IInv /\ CInv /\ IsQueue /\ Stored /\ PeekInv
  BY QueueFacts DEF RInv, CInv, Contents
<1>3. ASSUME head = tail, peek_result' = NoItem PROVE RingQueue!PeekEmpty
  <2>1. Used = 0
    BY <1>2, <1>3, NoneUsed, Zenon DEF IInv
  <2> QED
    BY <1>1, <1>2, <1>3, <2>1, EmptyQueue DEF RingQueue!PeekEmpty
<1>4. ASSUME kpc \in {"seq1", "seq2"}
      PROVE  /\ Used > 0 /\ tail % N = Slot(0) /\ cpc = "idle"
             /\ sequence_counter[buffer][tail % N] % 2 = 0
  <2>1. Used > 0 /\ cpc = "idle"
    BY <1>2, <1>4 DEF PeekInv
  <2>2. tail % N = Slot(0) /\ 0 \in 0 .. Used - 1
    BY <1>2, <2>1, SlotFacts
  <2> QED
    BY <1>2, <2>1, <2>2 DEF Stored
<1>5. CASE PeekNotInitialized
  BY <1>2, <1>3, <1>5 DEF PeekNotInitialized, PeekReturn, CInv, Contents
<1>6. CASE PeekLoad /\ head = tail
  BY <1>3, <1>6 DEF PeekLoad, PeekReturn
<1>7. CASE PeekEnter \/ (PeekLoad /\ head # tail) \/ PeekRead \/ PeekFirstSequence
  <2>1. UNCHANGED peek_result
    BY <1>4, <1>7 DEF PeekEnter, PeekLoad, PeekRead, PeekFirstSequence
  <2> QED
    BY <1>1, <2>1 DEF RingQueue!vars
<1>8. CASE PeekSecondSequence
  <2>1. kpc = "seq2" /\ Used > 0 /\ tail % N = Slot(0) /\ cpc = "idle"
    BY <1>4, <1>8 DEF PeekSecondSequence
  <2>2. peek_result' = data[buffer][Slot(0)]
    BY <1>2, <1>4, <1>8, <2>1 DEF PeekSecondSequence, PeekReturn, PeekInv
  <2>3. AbstractQueue[1] = Entry(1) /\ Entry(1) = data[buffer][Slot(0)]
    <3>1. 1 \in 1 .. Used /\ 1 - 1 = 0
      BY <1>2, <2>1 DEF IsQueue
    <3> QED
      BY <1>2, <2>1, <3>1 DEF IsQueue, Entry, Clearing
  <2>4. AbstractQueue # <<>> /\ Head(AbstractQueue) = AbstractQueue[1]
    <3>1. AbstractQueue # <<>>
      BY <1>2, <2>1, EmptyQueue
    <3> QED
      BY <1>2, <3>1 DEF IsQueue
  <2> QED
    BY <1>1, <2>2, <2>3, <2>4 DEF RingQueue!Peek
<1> QED
  BY <1>5, <1>6, <1>7, <1>8 DEF peek

(* The steps of init, push and pop are those of the queue. *)
LEMMA QueueSteps ==
  ASSUME CInv, CInv', Next, UNCHANGED peek_result
  PROVE  RingQueue!Next \/ UNCHANGED RingQueue!vars
<1>1. CASE Queue!BecomeReady
  BY <1>1 DEF Queue!BecomeReady, RingQueue!BecomeReady, RingQueue!Next
<1>2. CASE Queue!PushRefused \/ Queue!PushFull
  BY <1>2 DEF Queue!PushRefused, Queue!PushFull, RingQueue!PushRefused, RingQueue!PushFull,
              RingQueue!Next
<1>3. ASSUME NEW v \in Values, Queue!Push(v) PROVE RingQueue!Next
  <2>1. RingQueue!Push(v)
    BY <1>3 DEF Queue!Push, RingQueue!Push
  <2> QED
    BY <2>1 DEF RingQueue!Next
<1>4. CASE Queue!PopEmpty \/ Queue!Pop
  BY <1>4 DEF Queue!PopEmpty, Queue!Pop, RingQueue!PopEmpty, RingQueue!Pop, RingQueue!Next
<1>5. CASE UNCHANGED Queue!vars
  BY <1>5 DEF Queue!vars, RingQueue!vars
<1> QED
  BY <1>1, <1>2, <1>3, <1>4, <1>5, InitSteps, PushSteps, PopSteps DEF Next

(***************************************************************************)
(* For every capacity, index width, set of payloads and number of init     *)
(* callers, the ring buffer implements a bounded first-in first-out queue  *)
(* with a peek that returns the oldest item and removes nothing.           *)
(***************************************************************************)
THEOREM RingImplementsFifo == RingSpec => ImplementsRing
<1>1. RingInit => RingQueue!Init
  <2> SUFFICES ASSUME RingInit PROVE RingQueue!Init
    OBVIOUS
  <2>1. Init
    BY DEF RingInit
  <2>2. Used = 0
    BY <2>1, InitIInv, NoneUsed DEF Init, IInv
  <2>3. AbstractQueue = <<>>
    BY <2>2, NothingQueued, Zenon
  <2> QED
    BY <2>1, <2>3, Zenon DEF RingInit, Init, RingQueue!Init
<1>2. RInv /\ RInv' /\ [RingNext]_ringVars => [RingQueue!Next]_(RingQueue!vars)
  <2> SUFFICES ASSUME RInv, RInv', [RingNext]_ringVars
               PROVE  RingQueue!Next \/ UNCHANGED RingQueue!vars
    OBVIOUS
  <2>1. CInv /\ CInv'
    BY DEF RInv
  <2>2. CASE (\E r \in Regions : ring_init(r)) \/ ring_push \/ ring_pop
    <3>1. Next /\ UNCHANGED peek_result
      BY <2>2 DEF ring_init, ring_push, ring_pop, Next, peekVars
    <3> QED
      BY <2>1, <3>1, QueueSteps
  <2>3. CASE peek
    BY <2>3, PeekSteps DEF RingQueue!Next
  <2>4. CASE UNCHANGED ringVars
    <3>1. UNCHANGED AbstractQueue
      BY <2>4 DEF AbstractQueue, Used, ringVars, vars, queueVars, consVars
    <3> QED
      BY <2>4, <3>1 DEF RingQueue!vars, ringVars, peekVars, vars, queueVars, prodVars, consVars
  <2> QED
    BY <2>2, <2>3, <2>4 DEF RingNext
<1> QED
  BY <1>1, <1>2, RingInvariant, PTL DEF RingSpec, RingQueue!Spec, ImplementsRing
=============================================================================
