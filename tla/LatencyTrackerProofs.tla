------------------------ MODULE LatencyTrackerProofs ------------------------
(***************************************************************************)
(* The latency tracker of shawncore-rtos-sync, for any number of threads   *)
(* and measurements and any width of its atomics: each measurement is      *)
(* consumed once, and the statistics lose none of them.                    *)
(***************************************************************************)
EXTENDS LatencyTracker, FiniteSetTheorems, WellFoundedInduction, TLAPS

\* Remainders.

\* The positive multiples of a positive number are at least that number.
LEMMA MultipleBound ==
    ASSUME NEW n \in Nat \ {0}, NEW q \in Int, 0 < n * q
    PROVE  n <= n * q
  <1>1. q >= 1
    <2>1. SUFFICES ASSUME q <= 0 PROVE FALSE
      OBVIOUS
    <2>2. n * q <= 0
      BY <2>1
    <2> QED
      BY <2>2
  <1> QED
    BY <1>1

\* Division with remainder.
LEMMA DivMod ==
    ASSUME NEW a \in Int, NEW n \in Nat \ {0}
    PROVE  /\ a % n \in 0 .. n - 1
           /\ \E q \in Int : a = n * q + (a % n)
  <1>1. a % n \in 0 .. n - 1
    OBVIOUS
  <1>2. a \div n \in Int /\ a = n * (a \div n) + (a % n)
    OBVIOUS
  <1> QED
    BY <1>1, <1>2, Zenon

\* The remainder is the only number in range that differs by a multiple.
LEMMA ModUnique ==
    ASSUME NEW a \in Int, NEW n \in Nat \ {0}, NEW q \in Int, NEW r \in 0 .. n - 1,
           a = n * q + r
    PROVE  a % n = r
  <1>1. PICK p \in Int : a = n * p + (a % n)
    BY DivMod, Zenon
  <1>2. a % n \in 0 .. n - 1
    BY DivMod
  <1>3. n * (p - q) = r - (a % n) /\ n * (q - p) = (a % n) - r
    <2>1. n * (p - q) = n * p - n * q /\ n * (q - p) = n * q - n * p
      OBVIOUS
    <2>2. n * p - n * q = r - (a % n)
      <3> DEFINE np == n * p
                 nq == n * q
                 m == a % n
      <3>1. np \in Int /\ nq \in Int /\ m \in Int /\ r \in Int
        BY <1>2
      <3>2. a = np + m /\ a = nq + r
        BY <1>1
      <3> HIDE DEF np, nq, m
      <3>3. np - nq = r - m
        BY <3>1, <3>2
      <3> QED
        BY <3>3 DEF np, nq, m
    <2>3. n * p \in Int /\ n * q \in Int /\ a % n \in Int /\ r \in Int
      BY <1>2
    <2> QED
      BY <2>1, <2>2, <2>3
  <1>4. ~ (0 < n * (p - q))
    BY <1>2, <1>3, MultipleBound
  <1>5. ~ (0 < n * (q - p))
    BY <1>2, <1>3, MultipleBound
  <1> QED
    BY <1>2, <1>3, <1>4, <1>5

-----------------------------------------------------------------------------
\* Sums of numbers, over finite sets of places.  A sum is the number of units that the
\* places hold: that makes the order in which SumFunctionOnSet adds them irrelevant.
Units(f, S) == {p \in S \X Nat : p[2] < f[p[1]]}

Weight(f, S) == Cardinality(Units(f, S))

\* f has numbers up to b in the finite set S.
Bounded(f, S, b) == IsFiniteSet(S) /\ b \in Nat /\ \A x \in S : f[x] \in 0 .. b

\* There are finitely many of them.
LEMMA UnitsFinite ==
    ASSUME NEW f, NEW S, NEW b, Bounded(f, S, b)
    PROVE  IsFiniteSet(Units(f, S)) /\ Weight(f, S) \in Nat
  <1>1. IsFiniteSet(S \X (0 .. b))
    <2>1. IsFiniteSet(0 .. b)
      BY FS_Interval DEF Bounded
    <2> QED  BY <2>1, FS_Product DEF Bounded
  <1>2. Units(f, S) \in SUBSET (S \X (0 .. b))
    BY DEF Units, Bounded
  <1>3. IsFiniteSet(Units(f, S))
    BY <1>1, <1>2, FS_Subset
  <1> QED  BY <1>3, FS_CardinalityType DEF Weight

\* One place more has as many units more as it holds.
LEMMA WeightStep ==
    ASSUME NEW f, NEW S, NEW b, Bounded(f, S, b), NEW x \in S
    PROVE  /\ Bounded(f, S \ {x}, b)
           /\ Weight(f, S) = f[x] + Weight(f, S \ {x})
  <1>1. Bounded(f, S \ {x}, b)
    BY FS_RemoveElement DEF Bounded
  <1> DEFINE own == {x} \X (0 .. f[x] - 1)
             rest == Units(f, S \ {x})
  <1>2. f[x] \in Nat
    BY DEF Bounded
  <1>3. Units(f, S) = rest \cup own
    BY <1>2 DEF Units
  <1>4. rest \cap own = {}
    BY DEF Units
  <1>5. IsFiniteSet(own) /\ Cardinality(own) = f[x]
    <2> DEFINE k == f[x]
               I == 0 .. k - 1
    <2> HIDE DEF k
    <2>1. IsFiniteSet({x}) /\ Cardinality({x}) = 1
      BY FS_Singleton, Zenon
    <2>2. IsFiniteSet(I) /\ Cardinality(I) = k
      <3>1. k \in Nat /\ 0 \in Int /\ k - 1 \in Int
        BY <1>2 DEF k
      <3>2. IsFiniteSet(I) /\ Cardinality(I) = IF 0 > k - 1 THEN 0 ELSE (k - 1) - 0 + 1
        BY <3>1, FS_Interval, Zenon
      <3> HIDE DEF I
      <3> QED  BY <3>1, <3>2
    <2> HIDE DEF I
    <2>3. IsFiniteSet({x} \X I) /\ Cardinality({x} \X I) = 1 * k
      BY <2>1, <2>2, FS_Product
    <2>4. Cardinality({x} \X I) = k /\ own = {x} \X I
      BY <1>2, <2>3 DEF k, I
    <2> QED  BY <2>3, <2>4, Zenon DEF k
  <1>6. IsFiniteSet(rest) /\ Cardinality(rest) \in Nat
    BY <1>1, UnitsFinite DEF Weight
  <1> HIDE DEF own, rest
  <1>7. Cardinality(rest \cup own) = Cardinality(rest) + f[x] - Cardinality({})
    BY <1>4, <1>5, <1>6, FS_Union
  <1>8. Cardinality({}) = 0
    BY FS_EmptySet
  <1>9. Cardinality(rest \cup own) = f[x] + Cardinality(rest)
    BY <1>2, <1>6, <1>7, <1>8
  <1> QED  BY <1>1, <1>3, <1>9 DEF Weight, rest

\* The recursion that SumFunctionOnSet is defined by.
First(s) == CHOOSE x \in s : TRUE

Adds(iter, f, S) ==
    iter = [s \in SUBSET S |-> IF s = {} THEN 0 ELSE f[First(s)] + iter[s \ {First(s)}]]

\* The definition of the library, unfolded.
LEMMA SumByRecursion ==
    ASSUME NEW f, NEW S
    PROVE  SumFunctionOnSet(f, S) = (CHOOSE iter : Adds(iter, f, S))[S]
  BY DEF SumFunctionOnSet, FoldFunctionOnSet, MapThenFoldSet, Adds, First

\* The place that is added next is one that is left.
LEMMA FirstIn ==
    ASSUME NEW s, s # {}
    PROVE  First(s) \in s
  BY DEF First

\* No place, no unit.
LEMMA WeightEmpty == \A f : Weight(f, {}) = 0
  <1>1. \A f : Units(f, {}) = {}
    BY DEF Units
  <1> QED  BY <1>1, FS_EmptySet DEF Weight

\* The weight solves the recursion, and nothing else does: a smallest set on which a
\* solution differed would have a smaller one.
LEMMA SumIsWeight ==
    ASSUME NEW f, NEW S, NEW b, Bounded(f, S, b)
    PROVE  SumFunctionOnSet(f, S) = Weight(f, S)
  <1>1. ASSUME NEW s \in SUBSET S
        PROVE  Bounded(f, s, b)
    BY FS_Subset DEF Bounded
  <1>2. ASSUME NEW s \in SUBSET S, s # {}
        PROVE  /\ First(s) \in s /\ s \ {First(s)} \in SUBSET S
               /\ Weight(f, s) = f[First(s)] + Weight(f, s \ {First(s)})
    BY <1>1, <1>2, FirstIn, WeightStep
  <1>3. Adds([s \in SUBSET S |-> Weight(f, s)], f, S)
    <2> DEFINE w == [s \in SUBSET S |-> Weight(f, s)]
    <2>1. \A s \in SUBSET S :
              Weight(f, s) = IF s = {} THEN 0 ELSE f[First(s)] + w[s \ {First(s)}]
      BY <1>2, WeightEmpty, Zenon
    <2> HIDE DEF w
    <2>2. [s \in SUBSET S |-> Weight(f, s)]
              = [s \in SUBSET S |-> IF s = {} THEN 0 ELSE f[First(s)] + w[s \ {First(s)}]]
      BY <2>1, Zenon
    <2> QED  BY <2>2, Zenon DEF Adds, w
  <1> DEFINE iter == CHOOSE it : Adds(it, f, S)
             Bad == {s \in SUBSET S : iter[s] # Weight(f, s)}
  <1>4. Adds(iter, f, S)
    BY <1>3, Zenon
  <1> HIDE DEF iter
  <1>5. \A s \in SUBSET S : iter[s] = IF s = {} THEN 0 ELSE f[First(s)] + iter[s \ {First(s)}]
    BY <1>4, Zenon DEF Adds
  <1>6. Bad = {}
    <2>1. SUFFICES ASSUME Bad # {}
                   PROVE  FALSE
      OBVIOUS
    <2>2. Bad \subseteq FiniteSubsetsOf(S)
      BY FS_Subset DEF Bounded, FiniteSubsetsOf
    <2>3. PICK s \in Bad : \A u \in Bad : ~(<<u, s>> \in StrictSubsetOrdering(S))
      <3>1. IsWellFoundedOn(StrictSubsetOrdering(S), FiniteSubsetsOf(S))
        BY FS_StrictSubsetOrderingWellFounded
      <3> HIDE DEF Bad
      <3> QED  BY <2>1, <2>2, <3>1, WFMin
    <2>4. s # {}
      BY <1>5, WeightEmpty, Zenon
    <2> DEFINE u == s \ {First(s)}
    <2>5. u \in SUBSET S /\ u # s /\ u \subseteq s
      BY <1>2, <2>4
    <2>6. iter[u] = Weight(f, u)
      <3>1. IsFiniteSet(s) /\ IsFiniteSet(u)
        BY <2>5, FS_Subset DEF Bounded
      <3>2. <<u, s>> \in StrictSubsetOrdering(S)
        BY <2>5, <3>1 DEF StrictSubsetOrdering, FiniteSubsetsOf
      <3> QED  BY <2>3, <2>5, <3>2
    <2>7. iter[s] = Weight(f, s)
      BY <1>2, <1>5, <2>4, <2>6
    <2> QED  BY <2>7
  <1>7. iter[S] = Weight(f, S)
    BY <1>6
  <1> QED  BY <1>7, SumByRecursion DEF iter

\* What the proofs use of sums.
LEMMA SumOfNothing == \A f : SumFunctionOnSet(f, {}) = 0
  <1>1. \A f : Bounded(f, {}, 0)
    BY FS_EmptySet DEF Bounded
  <1> QED  BY <1>1, SumIsWeight, WeightEmpty

\* A sum is a number.
LEMMA SumType ==
    ASSUME NEW f, NEW S, NEW b, Bounded(f, S, b)
    PROVE  SumFunctionOnSet(f, S) \in Nat
  BY SumIsWeight, UnitsFinite

\* Any place can be taken out first.
LEMMA SumWith ==
    ASSUME NEW f, NEW S, NEW b, Bounded(f, S, b), NEW x \in S
    PROVE  SumFunctionOnSet(f, S) = f[x] + SumFunctionOnSet(f, S \ {x})
  BY SumIsWeight, WeightStep

\* A sum depends on the places summed over only.
LEMMA SumSame ==
    ASSUME NEW f, NEW g, NEW S, NEW b, Bounded(f, S, b), \A x \in S : f[x] = g[x]
    PROVE  SumFunctionOnSet(f, S) = SumFunctionOnSet(g, S)
  <1>1. Bounded(g, S, b)
    BY DEF Bounded
  <1>2. Units(f, S) = Units(g, S)
    BY DEF Units
  <1> QED  BY <1>1, <1>2, SumIsWeight DEF Weight

-----------------------------------------------------------------------------
\* The measurements.

Ending == {"start_time", "swap"}

\* What the calls in progress know.  start_time is the stamp of the last measurement, and
\* the owner does not begin another one under a call that is still deciding; so a call at
\* the swap has read the start of the measurement that the flag stands for.
Deciding ==
    /\ Len(begun) > 0 => start_time = begun[Len(begun)]
    /\ started => Len(begun) > 0
    /\ \A t \in Threads :
           /\ pc[t] \in Ending \cup {"started"} => Len(begun) > 0
           /\ pc[t] = "swap" => start[t] = start_time /\ start[t] <= stamp[t]
           /\ pc[t] = "started" => \A u \in Threads : pc[u] \notin Ending

\* While the flag is set, or about to be, the last measurement is not consumed.
Pending ==
    /\ \A i \in 1 .. Len(consumed) : consumed[i].number <= Len(begun)
    /\ started \/ (\E t \in Threads : pc[t] = "started") =>
           \A i \in 1 .. Len(consumed) : consumed[i].number < Len(begun)

Once ==
    /\ \A i \in 1 .. Len(consumed) : consumed[i].delta = consumed[i].until - consumed[i].from
    /\ \A i, j \in 1 .. Len(consumed) : i < j => consumed[i].number < consumed[j].number

IInv == TypeOK /\ Deciding /\ Pending /\ Once

\* The values of the atomics.
LEMMA Width == W \in Nat /\ W > 1 /\ 0 \in U64 /\ U64 \subseteq Nat
  BY TrackerAssumption DEF U64

\* A saturated sum fits.
LEMMA Saturates ==
    ASSUME NEW x \in U64, NEW y \in U64
    PROVE  saturating_add(x, y) \in U64
  BY TrackerAssumption DEF U64, saturating_add

\* Measurements have numbers.
LEMMA Numbered ==
    ASSUME TypeOK
    PROVE  \A i \in 1 .. Len(consumed) : consumed[i].number \in Nat
  <1>1. \A i \in 1 .. Len(consumed) :
            consumed[i] \in [number : Nat, from : U64, until : U64, delta : U64]
    <2> DEFINE Entries == [number : Nat, from : U64, until : U64, delta : U64]
    <2>1. consumed \in Seq(Entries)
      BY DEF TypeOK
    <2> HIDE DEF Entries
    <2>2. \A i \in 1 .. Len(consumed) : consumed[i] \in Entries
      BY <2>1
    <2> QED  BY <2>2 DEF Entries
  <1> QED  BY <1>1

\* Beginning a measurement.
LEMMA MarkStartPreserves ==
    ASSUME IInv, NEW t \in Threads, NEW now \in U64, MarkStart(t, now)
    PROVE  IInv'
  <1>1. begun' = Append(begun, now) /\ begun \in Seq(U64) /\ UNCHANGED consumed
    BY DEF IInv, TypeOK, MarkStart
  <1>2. Len(begun') = Len(begun) + 1 /\ begun'[Len(begun')] = now /\ Len(begun) \in Nat
    BY <1>1
  <1>3. TypeOK'
    BY <1>1 DEF IInv, TypeOK, MarkStart, Goto
  <1>4. pc' = [pc EXCEPT ![t] = "started"] /\ start_time' = now
        /\ \A u \in Threads : pc'[u] \notin Ending
    BY DEF IInv, TypeOK, MarkStart, Goto, Unclaimed, Ending
  <1>5. Deciding'
    BY <1>2, <1>4 DEF Deciding, Ending
  <1>6. Pending'
    <2>1. \A i \in 1 .. Len(consumed) : consumed[i].number \in Nat /\ consumed[i].number <= Len(begun)
      BY Numbered DEF IInv, Pending
    <2> QED  BY <1>1, <1>2, <2>1 DEF Pending
  <1>7. Once'
    BY <1>1 DEF IInv, Once
  <1> QED  BY <1>3, <1>5, <1>6, <1>7 DEF IInv

\* The call that finds the flag set consumes the last measurement.
LEMMA ConsumePreserves ==
    ASSUME IInv, NEW t \in Threads, pc[t] = "swap", started, Consume(t),
           UNCHANGED <<start_time, max_latency, total_latency, samples, begun>>
    PROVE  IInv'
  <1> DEFINE entry == [number |-> Len(begun), from |-> begun[Len(begun)], until |-> stamp[t],
                       delta |-> stamp[t] - start[t]]
  <1>1. /\ Len(begun) \in Nat /\ Len(begun) > 0 /\ begun[Len(begun)] = start[t]
        /\ start[t] <= stamp[t] /\ start[t] \in U64 /\ stamp[t] \in U64
    BY DEF IInv, TypeOK, Deciding, Ending
  <1>2. stamp[t] - start[t] \in U64
    BY <1>1, Width DEF U64
  <1>3. entry \in [number : Nat, from : U64, until : U64, delta : U64]
    BY <1>1, <1>2
  <1>4. /\ consumed \in Seq([number : Nat, from : U64, until : U64, delta : U64])
        /\ consumed' = Append(consumed, entry)
        /\ start' = [start EXCEPT ![t] = stamp[t] - start[t]]
        /\ pc' = [pc EXCEPT ![t] = "load_max"]
        /\ started' = FALSE /\ UNCHANGED <<stamp, seen>>
    BY DEF IInv, TypeOK, Consume, Goto
  <1>5. TypeOK'
    <2>1. consumed' \in Seq([number : Nat, from : U64, until : U64, delta : U64])
      BY <1>3, <1>4
    <2>2. start' \in [Threads -> U64] /\ started' \in BOOLEAN
      BY <1>2, <1>4, Zenon DEF IInv, TypeOK
    <2>3. pc' \in [Threads -> {"idle", "started", "start_time", "swap", "load_max", "max",
                               "load_total", "total", "samples"}]
      BY <1>4 DEF IInv, TypeOK
    <2> QED  BY <1>4, <2>1, <2>2, <2>3 DEF IInv, TypeOK
  <1>6. Deciding'
    BY <1>4 DEF IInv, TypeOK, Deciding, Ending
  <1>7. /\ Len(consumed') = Len(consumed) + 1 /\ Len(consumed) \in Nat
        /\ \A i \in 1 .. Len(consumed) : consumed'[i] = consumed[i]
        /\ consumed'[Len(consumed) + 1] = entry
    BY <1>3, <1>4
  <1>8. \A i \in 1 .. Len(consumed) : consumed[i].number \in Nat /\ consumed[i].number < Len(begun)
    BY Numbered DEF IInv, Pending
  <1>9. Pending'
    <2>1. \A u \in Threads : pc'[u] # "started"
      BY <1>4 DEF IInv, TypeOK, Deciding, Ending
    <2>2. \A i \in 1 .. Len(consumed') : consumed'[i].number <= Len(begun)
      BY <1>1, <1>7, <1>8
    <2> QED  BY <1>4, <2>1, <2>2 DEF Pending
  <1>10. Once'
    <2>1. \A i \in 1 .. Len(consumed') : consumed'[i].delta = consumed'[i].until - consumed'[i].from
      BY <1>1, <1>7 DEF IInv, Once
    <2>2. \A i, j \in 1 .. Len(consumed') : i < j => consumed'[i].number < consumed'[j].number
      BY <1>1, <1>7, <1>8 DEF IInv, Once
    <2> QED  BY <2>1, <2>2 DEF Once
  <1> QED  BY <1>5, <1>6, <1>9, <1>10 DEF IInv

\* Every other step leaves the measurements alone: it may raise the flag for the one that
\* was begun, read its start, or go on with what it has.
LEMMA OtherPreserves ==
    ASSUME IInv, TypeOK', NEW t \in Threads,
           UNCHANGED <<start_time, begun, consumed>>,
           \A u \in Threads : u # t => pc'[u] = pc[u] /\ start'[u] = start[u] /\ stamp'[u] = stamp[u],
           pc'[t] # "started",
           started' => started \/ pc[t] = "started",
           pc'[t] = "start_time" => started /\ \A u \in Threads : pc[u] # "started",
           pc'[t] = "swap" => pc[t] \in Ending /\ start'[t] = start_time /\ start'[t] <= stamp'[t]
    PROVE  IInv'
  <1>1. Deciding'
    <2>1. ASSUME NEW u \in Threads, pc'[u] = "started"
          PROVE  u # t /\ pc[u] = "started" /\ \A v \in Threads : pc'[v] \notin Ending
      BY <2>1 DEF IInv, Deciding, Ending
    <2>2. \A u \in Threads : pc'[u] \in Ending \cup {"started"} => Len(begun) > 0
      BY DEF IInv, Deciding, Ending
    <2>3. \A u \in Threads : pc'[u] = "swap" => start'[u] = start_time /\ start'[u] <= stamp'[u]
      BY DEF IInv, Deciding, Ending
    <2> QED  BY <2>1, <2>2, <2>3 DEF IInv, Deciding, Ending
  <1>2. Pending'
    BY DEF IInv, Pending
  <1>3. Once'
    BY DEF IInv, Once
  <1> QED  BY <1>1, <1>2, <1>3 DEF IInv

\* Nor does a call that returns have anything left to end.
LEMMA ReturnPreserves ==
    ASSUME IInv, TypeOK', NEW t \in Threads, Return(t),
           UNCHANGED <<started, start_time, begun, consumed>>
    PROVE  IInv'
  <1>1. pc'[t] = "idle"
    BY DEF IInv, TypeOK, Return, Goto
  <1>2. \A u \in Threads : u # t => pc'[u] = pc[u] /\ start'[u] = start[u] /\ stamp'[u] = stamp[u]
    BY DEF IInv, TypeOK, Return, Goto
  <1> QED  BY <1>1, <1>2, OtherPreserves

\* The steps of a call, one by one.
LEMMA StepPreserves ==
    ASSUME IInv, NEW t \in Threads, Step(t)
    PROVE  IInv'
  <1>0. TypeOK /\ 0 \in U64
    BY Width DEF IInv
  <1> USE DEF Goto, Return, atomics, TypeOK
  <1>1. CASE MarkStarted(t)
    <2>1. TypeOK'
      BY <1>0, <1>1 DEF MarkStarted
    <2> QED  BY <1>0, <1>1, <2>1, OtherPreserves DEF MarkStarted
  <1>2. CASE LoadStart(t) /\ stamp[t] < start_time
    <2>1. TypeOK'
      BY <1>0, <1>2 DEF LoadStart
    <2> QED  BY <1>2, <2>1, ReturnPreserves DEF LoadStart
  <1>3. CASE LoadStart(t) /\ ~ (stamp[t] < start_time)
    <2>1. TypeOK'
      BY <1>0, <1>3, Zenon DEF LoadStart
    <2>2. start_time <= stamp[t]
      <3>1. stamp[t] \in Nat /\ start_time \in Nat
        BY <1>0, Width, Zenon
      <3> QED  BY <1>3, <3>1
    <2> QED  BY <1>0, <1>3, <2>1, <2>2, OtherPreserves DEF LoadStart, Ending
  <1>4. CASE Swap(t) /\ started
    BY <1>4, ConsumePreserves DEF Swap
  <1>5. CASE Swap(t) /\ ~ started
    <2>1. TypeOK'
      BY <1>0, <1>5 DEF Swap
    <2> QED  BY <1>5, <2>1, ReturnPreserves DEF Swap
  <1>6. CASE LoadMax(t) \/ ExchangeMaxFails(t)
    <2>1. TypeOK'
      BY <1>0, <1>6 DEF LoadMax, ExchangeMaxFails, JudgeMax
    <2> QED  BY <1>0, <1>6, <2>1, OtherPreserves, Zenon DEF LoadMax, ExchangeMaxFails, JudgeMax
  <1>7. CASE ExchangeMax(t)
    <2>1. TypeOK'
      BY <1>0, <1>7 DEF ExchangeMax
    <2> QED  BY <1>0, <1>7, <2>1, OtherPreserves DEF ExchangeMax
  <1>8. CASE LoadTotal(t) \/ ExchangeTotalFails(t)
    <2>1. TypeOK'
      BY <1>0, <1>8, Zenon DEF LoadTotal, ExchangeTotalFails, JudgeTotal
    <2> QED  BY <1>0, <1>8, <2>1, OtherPreserves DEF LoadTotal, ExchangeTotalFails, JudgeTotal
  <1>9. CASE ExchangeTotal(t)
    <2>1. TypeOK'
      BY <1>0, <1>9, Saturates DEF ExchangeTotal
    <2> QED  BY <1>0, <1>9, <2>1, OtherPreserves DEF ExchangeTotal
  <1>10. CASE CountSample(t)
    <2>1. samples' \in U64
      BY <1>0, <1>10, Width DEF CountSample, U64
    <2>2. TypeOK'
      BY <1>0, <1>10, <2>1 DEF CountSample
    <2> QED  BY <1>0, <1>10, <2>2, OtherPreserves DEF CountSample
  <1> QED  BY <1>1, <1>2, <1>3, <1>4, <1>5, <1>6, <1>7, <1>8, <1>9, <1>10 DEF Step

\* The invariant holds at first.
LEMMA TrackerInit == Init => IInv
  <1>1. ASSUME Init PROVE Len(begun) = 0 /\ Len(consumed) = 0
    BY <1>1 DEF Init
  <1>2. ASSUME Init PROVE TypeOK
    <2> DEFINE Entries == [number : Nat, from : U64, until : U64, delta : U64]
    <2> HIDE DEF Entries
    <2>1. begun \in Seq(U64) /\ consumed \in Seq(Entries)
      BY <1>2 DEF Init
    <2> QED  BY <1>2, <2>1, Width, Zenon DEF Init, TypeOK, Entries
  <1>3. ASSUME Init PROVE Deciding /\ Pending /\ Once
    BY <1>1, <1>3 DEF Init, Deciding, Pending, Once, Ending
  <1> QED  BY <1>2, <1>3 DEF IInv

\* Every step keeps the invariant.
LEMMA TrackerStep == IInv /\ [Next]_vars => IInv'
  <1>1. SUFFICES ASSUME IInv, [Next]_vars PROVE IInv'
    OBVIOUS
  <1>2. ASSUME NEW t \in Threads, NEW now \in U64, MarkEnd(t, now) PROVE IInv'
    <2>1. CASE started
      <3>1. TypeOK'
        BY <1>1, <1>2, <2>1, Zenon DEF MarkEnd, IInv, TypeOK, Goto, atomics
      <3> QED  BY <1>1, <1>2, <2>1, <3>1, OtherPreserves DEF MarkEnd, IInv, TypeOK, Goto, atomics
    <2>2. CASE ~ started
      <3>1. UNCHANGED vars
        BY <1>2, <2>2 DEF MarkEnd, vars, atomics, locals
      <3> QED  BY <1>1, <3>1, Zenon DEF vars, atomics, locals, IInv, TypeOK, Deciding, Pending, Once
    <2> QED  BY <2>1, <2>2
  <1>3. CASE UNCHANGED vars
    BY <1>1, <1>3 DEF vars, atomics, locals, IInv, TypeOK, Deciding, Pending, Once
  <1> QED  BY <1>1, <1>2, <1>3, MarkStartPreserves, StepPreserves DEF Next

\* mark_end consumes a measurement at most once and with its own duration, for every
\* number of threads and measurements.
THEOREM ConsumedOnce == Spec => []MeasuredOnce
  <1>1. IInv => MeasuredOnce
    <2>1. ASSUME TypeOK PROVE DOMAIN consumed = 1 .. Len(consumed)
      BY <2>1 DEF TypeOK
    <2> QED  BY <2>1 DEF IInv, Once, MeasuredOnce
  <1> QED  BY <1>1, TrackerInit, TrackerStep, PTL DEF Spec

-----------------------------------------------------------------------------
\* The statistics.

\* m is the largest number of S.
IsMax(m, S) == m \in S /\ \A x \in S : x <= m

\* Only finitely many calls have something to add: each has consumed a measurement.
FewPending == IsFiniteSet(CountPending)

TotalExact ==
    saturating_add(total_latency, SumFunctionOnSet(start, TotalPending))
        = saturating_add(SumFunction(deltas), 0)

Shown == {max_latency} \cup {start[t] : t \in MaxPending}

MaxExact == \E m : IsMax(m, Shown) /\ IsMax(m, {0} \cup Range(deltas))

CountExact == (samples + Cardinality(CountPending)) % W = Len(consumed) % W

\* A call exchanges the maximum it has seen only for a larger one.
Raising == \A t \in Threads : pc[t] = "max" => seen[t] < start[t]

Tally == FewPending /\ TotalExact /\ MaxExact /\ CountExact /\ Raising

\* The remainder of the next number.
LEMMA NextRemainder ==
    ASSUME NEW n \in Nat
    PROVE  (n + 1) % W = IF n % W = W - 1 THEN 0 ELSE (n % W) + 1
  <1> DEFINE r == n % W
  <1>1. W \in Nat \ {0} /\ n \in Int
    BY Width
  <1>2. r \in 0 .. W - 1
    BY <1>1, DivMod
  <1>3. PICK q \in Int : n = W * q + r
    BY <1>1, DivMod, Zenon
  <1> HIDE DEF r
  <1>4. W * (q + 1) = W * q + W /\ W * q \in Int
    BY <1>1
  <1>5. CASE r = W - 1
    <2>1. n + 1 = W * (q + 1) + 0
      BY <1>1, <1>3, <1>4, <1>5
    <2>2. n + 1 \in Int /\ q + 1 \in Int /\ 0 \in 0 .. W - 1
      BY <1>1
    <2>3. (n + 1) % W = 0
      BY <1>1, <2>1, <2>2, ModUnique, Zenon
    <2> QED  BY <1>5, <2>3 DEF r
  <1>6. CASE r # W - 1
    <2>1. n + 1 = W * q + (r + 1) /\ r + 1 \in 0 .. W - 1
      BY <1>1, <1>2, <1>3, <1>4, <1>6
    <2>2. (n + 1) % W = r + 1
      <3>1. n + 1 \in Int
        BY <1>1
      <3> QED  BY <1>1, <2>1, <3>1, ModUnique, Zenon
    <2> QED  BY <1>6, <2>2 DEF r
  <1> QED  BY <1>5, <1>6

\* One lap on, the remainder is the same ...
LEMMA Lap ==
    ASSUME NEW n \in Nat
    PROVE  (n + W) % W = n % W
  <1> DEFINE r == n % W
  <1>1. W \in Nat \ {0} /\ n \in Int
    BY Width
  <1>2. r \in 0 .. W - 1
    BY <1>1, DivMod
  <1>3. PICK q \in Int : n = W * q + r
    BY <1>1, DivMod, Zenon
  <1> HIDE DEF r
  <1>4. W * (q + 1) = W * q + W /\ W * q \in Int
    BY <1>1
  <1>5. n + W = W * (q + 1) + r
    BY <1>1, <1>2, <1>3, <1>4
  <1>6. (n + W) % W = r
    <2>1. n + W \in Int /\ q + 1 \in Int
      BY <1>1
    <2> QED  BY <1>1, <1>2, <1>5, <2>1, ModUnique, Zenon
  <1> QED  BY <1>6 DEF r

\* ... and a value of the atomics is its own.
LEMMA Remainder ==
    ASSUME NEW n \in U64
    PROVE  n % W = n
  BY TrackerAssumption DEF U64

\* What saturating additions do with sums.
LEMMA SaturatedMore ==
    ASSUME NEW a \in Nat, NEW p \in Nat, NEW c \in Nat, NEW d \in Nat,
           saturating_add(a, p) = saturating_add(c, 0)
    PROVE  saturating_add(a, d + p) = saturating_add(d + c, 0)
  BY Width DEF saturating_add

\* Saturating twice is saturating once.
LEMMA SaturatedTwice ==
    ASSUME NEW a \in Nat, NEW p \in Nat, NEW d \in Nat
    PROVE  saturating_add(saturating_add(a, d), p) = saturating_add(a, d + p)
  BY Width DEF saturating_add

\* What is summed are finitely many numbers.
LEMMA PendingTypes ==
    ASSUME TypeOK, FewPending
    PROVE  /\ Bounded(start, TotalPending, W - 1)
           /\ Bounded(deltas, DOMAIN deltas, W - 1)
           /\ DOMAIN deltas = 1 .. Len(consumed) /\ Len(consumed) \in Nat
           /\ Cardinality(CountPending) \in Nat
           /\ SumFunctionOnSet(start, TotalPending) \in Nat
           /\ SumFunction(deltas) \in Nat
  <1>1. W - 1 \in Nat /\ U64 = 0 .. W - 1
    BY Width DEF U64
  <1>2. IsFiniteSet(TotalPending)
    <2>1. TotalPending \subseteq CountPending
      BY DEF TotalPending, CountPending
    <2> QED  BY <2>1, FS_Subset DEF FewPending
  <1>3. Bounded(start, TotalPending, W - 1)
    <2>1. \A t \in TotalPending : start[t] \in U64
      BY DEF TypeOK, TotalPending
    <2> QED  BY <1>1, <1>2, <2>1 DEF Bounded
  <1>4. /\ DOMAIN deltas = 1 .. Len(consumed) /\ Len(consumed) \in Nat
        /\ \A i \in DOMAIN deltas : deltas[i] \in U64
    <2> DEFINE Entries == [number : Nat, from : U64, until : U64, delta : U64]
    <2>1. consumed \in Seq(Entries)
      BY DEF TypeOK
    <2>2. \A e \in Entries : e.delta \in U64
      OBVIOUS
    <2> HIDE DEF Entries
    <2> QED  BY <2>1, <2>2 DEF deltas
  <1>5. IsFiniteSet(1 .. Len(consumed))
    BY <1>4, FS_Interval
  <1>6. Bounded(deltas, DOMAIN deltas, W - 1)
    BY <1>1, <1>4, <1>5 DEF Bounded
  <1>7. Cardinality(CountPending) \in Nat
    BY FS_CardinalityType DEF FewPending
  <1> QED  BY <1>3, <1>4, <1>6, <1>7, SumType DEF SumFunction

\* The three figures are exact as long as nothing they speak of changes.
LEMMA TotalKept ==
    ASSUME TypeOK, FewPending, TotalExact, TotalPending' = TotalPending,
           \A t \in TotalPending : start'[t] = start[t],
           total_latency' = total_latency, consumed' = consumed
    PROVE  TotalExact'
  <1>1. deltas' = deltas
    BY Zenon DEF deltas
  <1>2. SumFunctionOnSet(start', TotalPending) = SumFunctionOnSet(start, TotalPending)
    BY PendingTypes, SumSame
  <1> QED  BY <1>1, <1>2 DEF TotalExact, SumFunction

\* The maximum ...
LEMMA MaxKept ==
    ASSUME MaxExact, MaxPending' = MaxPending,
           \A t \in MaxPending : start'[t] = start[t],
           max_latency' = max_latency, consumed' = consumed
    PROVE  MaxExact'
  <1>1. deltas' = deltas
    BY Zenon DEF deltas
  <1>2. Shown' = Shown
    BY DEF Shown
  <1> QED  BY <1>1, <1>2, Zenon DEF MaxExact

\* ... and the number of samples, likewise.
LEMMA CountKept ==
    ASSUME CountExact, CountPending' = CountPending, samples' = samples,
           Len(consumed') = Len(consumed)
    PROVE  CountExact'
  BY DEF CountExact

\* A call adds its measurement to the total ...
LEMMA TotalAdded ==
    ASSUME TypeOK, FewPending, TotalExact, NEW t \in TotalPending,
           TotalPending' = TotalPending \ {t}, start' = start,
           total_latency' = saturating_add(total_latency, start[t]), consumed' = consumed
    PROVE  TotalExact'
  <1>1. deltas' = deltas
    BY Zenon DEF deltas
  <1> DEFINE rest == SumFunctionOnSet(start, TotalPending \ {t})
  <1>2. SumFunctionOnSet(start, TotalPending) = start[t] + rest /\ rest \in Nat
    <2>1. Bounded(start, TotalPending, W - 1)
      BY PendingTypes
    <2>2. Bounded(start, TotalPending \ {t}, W - 1)
      BY <2>1, WeightStep
    <2> QED  BY <2>1, <2>2, SumWith, SumType
  <1>3. start[t] \in Nat /\ total_latency \in Nat
    <2>1. start[t] \in U64 /\ total_latency \in U64
      BY DEF TypeOK, TotalPending
    <2> QED  BY <2>1, Width, Zenon
  <1>4. saturating_add(saturating_add(total_latency, start[t]), rest)
            = saturating_add(total_latency, start[t] + rest)
    <2> HIDE DEF rest
    <2> QED  BY <1>2, <1>3, SaturatedTwice, Zenon
  <1> QED  BY <1>1, <1>2, <1>4 DEF TotalExact, SumFunction

\* ... to the maximum, where it is the larger one or the smaller one ...
LEMMA MaxTypes ==
    ASSUME TypeOK
    PROVE  Shown \subseteq Nat /\ \A t \in MaxPending : start[t] \in Nat
  BY Width, Zenon DEF TypeOK, Shown, MaxPending

\* It becomes the maximum.
LEMMA MaxRaised ==
    ASSUME TypeOK, MaxExact, NEW t \in MaxPending, max_latency < start[t],
           MaxPending' = MaxPending \ {t}, start' = start,
           max_latency' = start[t], consumed' = consumed
    PROVE  MaxExact'
  <1>1. deltas' = deltas
    BY Zenon DEF deltas
  <1>2. PICK m : IsMax(m, Shown) /\ IsMax(m, {0} \cup Range(deltas))
    BY DEF MaxExact
  <1>3. m \in Nat /\ start[t] <= m /\ max_latency \in Nat
    BY <1>2, MaxTypes DEF IsMax, Shown
  <1>4. Shown' \subseteq Shown /\ m \in Shown'
    BY <1>2, <1>3, MaxTypes DEF IsMax, Shown
  <1>5. IsMax(m, Shown')
    BY <1>2, <1>4 DEF IsMax
  <1> QED  BY <1>1, <1>2, <1>5 DEF MaxExact

\* The maximum shown is already as large.
LEMMA MaxPassed ==
    ASSUME TypeOK, MaxExact, NEW t \in MaxPending, start[t] <= max_latency,
           MaxPending' = MaxPending \ {t}, start' = start,
           max_latency' = max_latency, consumed' = consumed
    PROVE  MaxExact'
  <1>1. deltas' = deltas
    BY Zenon DEF deltas
  <1>2. PICK m : IsMax(m, Shown) /\ IsMax(m, {0} \cup Range(deltas))
    BY DEF MaxExact
  <1>3. m \in Nat /\ max_latency <= m /\ max_latency \in Nat
    BY <1>2, MaxTypes DEF IsMax, Shown
  <1>4. Shown' \subseteq Shown /\ m \in Shown'
    BY <1>2, <1>3, MaxTypes DEF IsMax, Shown
  <1>5. IsMax(m, Shown')
    BY <1>2, <1>4 DEF IsMax
  <1> QED  BY <1>1, <1>2, <1>5 DEF MaxExact

\* ... and to the number of samples, which may wrap.
LEMMA SampleAdded ==
    ASSUME TypeOK, FewPending, CountExact, NEW t \in CountPending,
           CountPending' = CountPending \ {t}, samples' = (samples + 1) % W,
           consumed' = consumed
    PROVE  FewPending' /\ CountExact'
  <1> DEFINE c == Cardinality(CountPending)
  <1>1. /\ IsFiniteSet(CountPending \ {t}) /\ Cardinality(CountPending \ {t}) = c - 1
        /\ c - 1 \in Nat /\ c \in Nat
    <2>1. /\ IsFiniteSet(CountPending \ {t}) /\ Cardinality(CountPending \ {t}) = c - 1
      BY FS_RemoveElement DEF FewPending
    <2> HIDE DEF c
    <2>2. c \in Nat /\ Cardinality(CountPending \ {t}) \in Nat
      BY <2>1, PendingTypes, FS_CardinalityType DEF c
    <2> QED  BY <2>1, <2>2
  <1> HIDE DEF c
  <1>2. samples \in Nat /\ samples < W /\ W \in Nat
    BY Width DEF TypeOK, U64
  <1>3. CASE samples = W - 1
    <2>1. samples' = 0
      <3>1. samples % W = W - 1
        BY <1>3, Remainder DEF TypeOK
      <3> QED  BY <1>2, <3>1, NextRemainder, Zenon
    <2>2. samples + c = (c - 1) + W
      BY <1>1, <1>2, <1>3
    <2>3. (samples + c) % W = (c - 1) % W
      BY <1>1, <2>2, Lap
    <2>4. samples' + (c - 1) = c - 1
      BY <1>1, <2>1
    <2> QED  BY <1>1, <2>3, <2>4 DEF CountExact, FewPending, c
  <1>4. CASE samples # W - 1
    <2>1. samples + 1 \in U64
      BY <1>2, <1>4 DEF U64
    <2>2. samples' = samples + 1
      BY <2>1, Remainder
    <2>3. samples' + (c - 1) = samples + c
      BY <1>1, <1>2, <2>2
    <2> QED  BY <1>1, <2>3 DEF CountExact, FewPending, c
  <1> QED  BY <1>3, <1>4

\* A call that consumes a measurement has it to add to all three.
LEMMA MeasurementAdded ==
    ASSUME IInv, Tally, NEW t \in Threads, pc[t] = "swap", started, Consume(t),
           UNCHANGED <<start_time, max_latency, total_latency, samples, begun>>
    PROVE  Tally'
  <1> DEFINE d == stamp[t] - start[t]
             n == Len(consumed)
  <1>1. /\ d \in U64 /\ d \in Nat /\ TypeOK
        /\ start'[t] = d /\ \A u \in Threads : u # t => start'[u] = start[u]
    <2>1. start[t] \in U64 /\ stamp[t] \in U64 /\ start[t] <= stamp[t] /\ TypeOK
      BY DEF IInv, Deciding, TypeOK
    <2>2. start'[t] = d /\ \A u \in Threads : u # t => start'[u] = start[u]
      BY <2>1 DEF Consume, TypeOK
    <2>3. d \in U64 /\ d \in Nat
      BY <2>1, Width DEF U64
    <2> QED  BY <2>1, <2>2, <2>3
  <1>2. /\ t \notin CountPending /\ t \notin TotalPending /\ t \notin MaxPending
        /\ CountPending' = CountPending \cup {t}
        /\ TotalPending' = TotalPending \cup {t}
        /\ MaxPending' = MaxPending \cup {t}
    BY <1>1 DEF CountPending, TotalPending, MaxPending, Consume, Goto, TypeOK
  <1>3. /\ n \in Nat /\ Len(consumed') = n + 1
        /\ DOMAIN deltas = 1 .. n /\ DOMAIN deltas' = 1 .. n + 1
        /\ deltas'[n + 1] = d /\ \A i \in 1 .. n : deltas'[i] = deltas[i]
    <2> DEFINE entry == [number |-> Len(begun), from |-> begun[Len(begun)], until |-> stamp[t],
                         delta |-> d]
               Entries == [number : Nat, from : U64, until : U64, delta : U64]
    <2>1. consumed' = Append(consumed, entry) /\ entry.delta = d
      BY DEF Consume
    <2>2. consumed \in Seq(Entries)
      BY <1>1 DEF TypeOK
    <2> HIDE DEF entry, Entries, d
    <2>3. DOMAIN consumed' = 1 .. n + 1 /\ DOMAIN consumed = 1 .. n /\ n \in Nat
      BY <2>1, <2>2
    <2>4. consumed'[n + 1] = entry /\ \A i \in 1 .. n : consumed'[i] = consumed[i]
      BY <2>1, <2>2
    <2>5. Len(consumed') = n + 1
      BY <2>1, <2>2
    <2> QED  BY <2>1, <2>3, <2>4, <2>5 DEF deltas
  <1>4. FewPending' /\ Cardinality(CountPending') = Cardinality(CountPending) + 1
    BY <1>2, FS_AddElement DEF Tally, FewPending
  <1> HIDE DEF d, n
  <1>5. TotalExact'
    <2>1. /\ Bounded(start, TotalPending, W - 1) /\ Bounded(deltas, DOMAIN deltas, W - 1)
          /\ SumFunctionOnSet(start, TotalPending) \in Nat /\ SumFunction(deltas) \in Nat
      BY <1>1, PendingTypes DEF Tally
    <2>2. /\ Bounded(start', TotalPending', W - 1)
          /\ Bounded(deltas', DOMAIN deltas', W - 1)
      <3>1. IsFiniteSet(TotalPending') /\ IsFiniteSet(DOMAIN deltas')
        <4>1. IsFiniteSet(TotalPending)
          BY <2>1 DEF Bounded
        <4>2. IsFiniteSet(1 .. n + 1)
          BY <1>3, FS_Interval
        <4> QED  BY <1>2, <1>3, <4>1, <4>2, FS_AddElement
      <3>2. d \in 0 .. W - 1 /\ W - 1 \in Nat
        BY <1>1, Width DEF U64
      <3>3. \A u \in TotalPending' : start'[u] \in 0 .. W - 1
        <4>1. TotalPending \subseteq Threads
          BY DEF TotalPending
        <4> QED  BY <1>1, <1>2, <2>1, <3>2, <4>1 DEF Bounded
      <3>4. \A i \in DOMAIN deltas' : deltas'[i] \in 0 .. W - 1
        <4>1. 1 .. n + 1 = (1 .. n) \cup {n + 1}
          BY <1>3
        <4> QED  BY <1>3, <2>1, <3>2, <4>1 DEF Bounded
      <3> QED  BY <3>1, <3>2, <3>3, <3>4 DEF Bounded
    <2>3. SumFunctionOnSet(start', TotalPending') = d + SumFunctionOnSet(start, TotalPending)
      <3>1. TotalPending' \ {t} = TotalPending /\ t \in TotalPending'
        BY <1>2
      <3>2. \A u \in TotalPending : start[u] = start'[u]
        BY <1>1, <1>2 DEF TotalPending
      <3>3. SumFunctionOnSet(start', TotalPending) = SumFunctionOnSet(start, TotalPending)
        BY <2>1, <3>2, SumSame
      <3>4. SumFunctionOnSet(start', TotalPending')
                = start'[t] + SumFunctionOnSet(start', TotalPending' \ {t})
        BY <2>2, <3>1, SumWith
      <3> QED  BY <1>1, <3>1, <3>3, <3>4
    <2>4. SumFunction(deltas') = d + SumFunction(deltas)
      <3>1. (1 .. n + 1) \ {n + 1} = 1 .. n /\ n + 1 \in 1 .. n + 1
        BY <1>3
      <3>2. SumFunctionOnSet(deltas', 1 .. n) = SumFunctionOnSet(deltas, 1 .. n)
        <4>1. \A i \in 1 .. n : deltas[i] = deltas'[i]
          BY <1>3
        <4> QED  BY <1>3, <2>1, <4>1, SumSame
      <3>3. SumFunctionOnSet(deltas', 1 .. n + 1)
                = deltas'[n + 1] + SumFunctionOnSet(deltas', (1 .. n + 1) \ {n + 1})
        BY <1>3, <2>2, <3>1, SumWith
      <3> QED  BY <1>3, <3>1, <3>2, <3>3, Zenon DEF SumFunction
    <2>5. total_latency \in Nat /\ total_latency' = total_latency
      BY <1>1, Width DEF TypeOK
    <2>6. saturating_add(total_latency, SumFunctionOnSet(start, TotalPending))
              = saturating_add(SumFunction(deltas), 0)
      BY DEF Tally, TotalExact
    <2>7. saturating_add(total_latency, d + SumFunctionOnSet(start, TotalPending))
              = saturating_add(d + SumFunction(deltas), 0)
      <3> DEFINE p == SumFunctionOnSet(start, TotalPending)
                 k == SumFunction(deltas)
      <3>1. p \in Nat /\ k \in Nat /\ saturating_add(total_latency, p) = saturating_add(k, 0)
        BY <2>1, <2>6
      <3> HIDE DEF p, k
      <3>2. saturating_add(total_latency, d + p) = saturating_add(d + k, 0)
        BY <1>1, <2>5, <3>1, SaturatedMore
      <3> QED  BY <3>2 DEF p, k
    <2> QED  BY <2>3, <2>4, <2>5, <2>7, Zenon DEF TotalExact
  <1>6. MaxExact'
    <2>1. PICK m : IsMax(m, Shown) /\ IsMax(m, {0} \cup Range(deltas))
      BY DEF Tally, MaxExact
    <2>2. Shown' = Shown \cup {d}
      <3>1. \A u \in MaxPending : start'[u] = start[u]
        BY <1>1, <1>2 DEF MaxPending
      <3> QED  BY <1>1, <1>2, <3>1 DEF Shown
    <2>3. Range(deltas') = Range(deltas) \cup {d}
      <3>1. 1 .. n + 1 = (1 .. n) \cup {n + 1}
        BY <1>3
      <3> QED  BY <1>3, <3>1 DEF Range
    <2>4. m \in Nat
      BY <1>1, <2>1, MaxTypes DEF IsMax
    <2>5. CASE d <= m
      <3>1. IsMax(m, Shown \cup {d}) /\ IsMax(m, ({0} \cup Range(deltas)) \cup {d})
        BY <2>1, <2>5 DEF IsMax
      <3>2. {0} \cup Range(deltas') = ({0} \cup Range(deltas)) \cup {d}
        BY <2>3
      <3> QED  BY <2>2, <3>1, <3>2, Zenon DEF MaxExact
    <2>6. CASE m <= d
      <3>1. Shown \subseteq Nat /\ {0} \cup Range(deltas) \subseteq Nat
        <4>1. \A i \in DOMAIN deltas : deltas[i] \in Nat
          BY <1>1, PendingTypes DEF Tally, Bounded
        <4> QED  BY <1>1, <4>1, MaxTypes DEF Range
      <3>2. IsMax(d, Shown \cup {d}) /\ IsMax(d, ({0} \cup Range(deltas)) \cup {d})
        <4>1. \A x \in Nat : x <= m => x <= d
          BY <1>1, <2>4, <2>6
        <4>2. d <= d
          BY <1>1
        <4> QED  BY <2>1, <3>1, <4>1, <4>2 DEF IsMax
      <3>3. {0} \cup Range(deltas') = ({0} \cup Range(deltas)) \cup {d}
        BY <2>3
      <3> QED  BY <2>2, <3>2, <3>3, Zenon DEF MaxExact
    <2> QED  BY <1>1, <2>4, <2>5, <2>6
  <1>7. CountExact'
    <2> DEFINE c == samples + Cardinality(CountPending)
    <2>1. c \in Nat /\ samples' + Cardinality(CountPending') = c + 1
      <3>1. samples \in Nat /\ samples' = samples
        BY <1>1, Width DEF TypeOK
      <3>2. Cardinality(CountPending) \in Nat
        BY <1>1, PendingTypes DEF Tally
      <3> QED  BY <1>4, <3>1, <3>2
    <2>2. c % W = n % W
      BY DEF Tally, CountExact, n
    <2> HIDE DEF c
    <2>3. (c + 1) % W = (n + 1) % W
      BY <1>3, <2>1, <2>2, NextRemainder, Zenon
    <2> QED  BY <1>3, <2>1, <2>3 DEF CountExact
  <1>8. Raising'
    BY <1>1 DEF Tally, Raising, Consume, Goto, TypeOK
  <1> QED  BY <1>4, <1>5, <1>6, <1>7, <1>8 DEF Tally

\* A step that adds nothing, by a call that goes on having the same to add.
LEMMA NothingAdded ==
    ASSUME IInv, Tally, NEW t \in Threads,
           UNCHANGED <<max_latency, total_latency, samples, consumed>>,
           \A u \in Threads : u # t => pc'[u] = pc[u] /\ start'[u] = start[u] /\ seen'[u] = seen[u],
           t \in MaxPending <=> t \in MaxPending', t \in TotalPending <=> t \in TotalPending',
           t \in CountPending <=> t \in CountPending',
           t \in CountPending => start'[t] = start[t],
           pc'[t] = "max" => seen'[t] < start'[t]
    PROVE  Tally'
  <1>1. /\ MaxPending' = MaxPending /\ TotalPending' = TotalPending
        /\ CountPending' = CountPending
    BY DEF MaxPending, TotalPending, CountPending
  <1>2. \A u \in CountPending : start'[u] = start[u]
    BY DEF CountPending
  <1>3. MaxPending \subseteq CountPending /\ TotalPending \subseteq CountPending
    BY DEF MaxPending, TotalPending, CountPending
  <1>4. FewPending'
    BY <1>1 DEF Tally, FewPending
  <1>5. TotalExact'
    BY <1>1, <1>2, <1>3, TotalKept DEF IInv, Tally
  <1>6. MaxExact'
    BY <1>1, <1>2, <1>3, MaxKept DEF Tally
  <1>7. CountExact'
    BY <1>1, CountKept DEF Tally
  <1>8. Raising'
    BY DEF Tally, Raising
  <1> QED  BY <1>4, <1>5, <1>6, <1>7, <1>8 DEF Tally

\* The steps of a call, one by one.
LEMMA TallyStep ==
    ASSUME IInv, Tally, NEW t \in Threads, Step(t)
    PROVE  Tally'
  <1>0. TypeOK
    BY DEF IInv
  <1> USE DEF Goto, Return, atomics
  <1>1. CASE MarkStarted(t)
    BY <1>0, <1>1, NothingAdded DEF MarkStarted, TypeOK, MaxPending, TotalPending, CountPending
  <1>2. CASE LoadStart(t) /\ stamp[t] < start_time
    BY <1>0, <1>2, NothingAdded, Zenon DEF LoadStart, TypeOK, MaxPending, TotalPending, CountPending
  <1>3. CASE LoadStart(t) /\ ~ (stamp[t] < start_time)
    BY <1>0, <1>3, NothingAdded DEF LoadStart, TypeOK, MaxPending, TotalPending, CountPending
  <1>4. CASE Swap(t) /\ started
    BY <1>4, MeasurementAdded DEF Swap
  <1>5. CASE Swap(t) /\ ~ started
    BY <1>0, <1>5, NothingAdded, Zenon DEF Swap, TypeOK, MaxPending, TotalPending, CountPending
  <1>6. CASE (LoadMax(t) \/ ExchangeMaxFails(t)) /\ start[t] > max_latency
    <2>1. start[t] \in Nat /\ max_latency \in Nat
      BY <1>0, Width, Zenon DEF TypeOK
    <2> QED  BY <1>0, <1>6, <2>1, NothingAdded
             DEF LoadMax, ExchangeMaxFails, JudgeMax, TypeOK, MaxPending, TotalPending, CountPending
  <1>7. CASE (LoadMax(t) \/ ExchangeMaxFails(t)) /\ ~ (start[t] > max_latency)
    <2>1. start[t] \in Nat /\ max_latency \in Nat /\ start[t] <= max_latency
      <3>1. start[t] \in Nat /\ max_latency \in Nat
        BY <1>0, Width, Zenon DEF TypeOK
      <3> QED  BY <1>7, <3>1
    <2>2. /\ t \in MaxPending /\ MaxPending' = MaxPending \ {t}
          /\ TotalPending' = TotalPending /\ CountPending' = CountPending
      BY <1>0, <1>7
         DEF LoadMax, ExchangeMaxFails, JudgeMax, TypeOK, MaxPending, TotalPending, CountPending
    <2>3. UNCHANGED <<max_latency, total_latency, samples, start, consumed>>
      BY <1>7 DEF LoadMax, ExchangeMaxFails, JudgeMax
    <2>4. FewPending' /\ CountExact'
      BY <2>2, <2>3, CountKept DEF Tally, FewPending
    <2>5. TotalExact'
      BY <1>0, <2>2, <2>3, TotalKept DEF Tally
    <2>6. MaxExact'
      BY <1>0, <2>1, <2>2, <2>3, MaxPassed DEF Tally
    <2>7. Raising'
      BY <1>0, <1>7 DEF LoadMax, ExchangeMaxFails, JudgeMax, TypeOK, Tally, Raising
    <2> QED  BY <2>4, <2>5, <2>6, <2>7 DEF Tally
  <1>8. CASE ExchangeMax(t)
    <2>1. /\ t \in MaxPending /\ MaxPending' = MaxPending \ {t}
          /\ TotalPending' = TotalPending /\ CountPending' = CountPending
      BY <1>0, <1>8 DEF ExchangeMax, TypeOK, MaxPending, TotalPending, CountPending
    <2>2. /\ UNCHANGED <<total_latency, samples, start, seen, consumed>>
          /\ max_latency' = start[t] /\ max_latency < start[t]
      BY <1>8 DEF ExchangeMax, Tally, Raising
    <2>3. FewPending' /\ CountExact'
      BY <2>1, <2>2, CountKept DEF Tally, FewPending
    <2>4. TotalExact'
      BY <1>0, <2>1, <2>2, TotalKept DEF Tally
    <2>5. MaxExact'
      BY <1>0, <2>1, <2>2, MaxRaised DEF Tally
    <2>6. Raising'
      <3>1. \A u \in Threads : pc'[u] = "max" => pc[u] = "max"
        BY <1>0, <1>8 DEF ExchangeMax, TypeOK
      <3> QED  BY <2>2, <3>1 DEF Tally, Raising
    <2> QED  BY <2>3, <2>4, <2>5, <2>6 DEF Tally
  <1>9. CASE LoadTotal(t) \/ ExchangeTotalFails(t)
    BY <1>0, <1>9, NothingAdded
       DEF LoadTotal, ExchangeTotalFails, JudgeTotal, TypeOK, MaxPending, TotalPending, CountPending
  <1>10. CASE ExchangeTotal(t)
    <2>1. /\ t \in TotalPending /\ TotalPending' = TotalPending \ {t}
          /\ MaxPending' = MaxPending /\ CountPending' = CountPending
      BY <1>0, <1>10 DEF ExchangeTotal, TypeOK, MaxPending, TotalPending, CountPending
    <2>2. /\ UNCHANGED <<max_latency, samples, start, seen, consumed>>
          /\ total_latency' = saturating_add(total_latency, start[t])
      BY <1>10 DEF ExchangeTotal
    <2>3. FewPending' /\ CountExact'
      BY <2>1, <2>2, CountKept DEF Tally, FewPending
    <2>4. TotalExact'
      BY <1>0, <2>1, <2>2, TotalAdded DEF Tally
    <2>5. MaxExact'
      BY <2>1, <2>2, MaxKept DEF Tally
    <2>6. Raising'
      BY <1>0, <1>10 DEF ExchangeTotal, TypeOK, Tally, Raising
    <2> QED  BY <2>3, <2>4, <2>5, <2>6 DEF Tally
  <1>11. CASE CountSample(t)
    <2>1. /\ t \in CountPending /\ t \notin TotalPending /\ t \notin MaxPending
          /\ CountPending' = CountPending \ {t}
          /\ MaxPending' = MaxPending /\ TotalPending' = TotalPending
      BY <1>0, <1>11 DEF CountSample, TypeOK, MaxPending, TotalPending, CountPending
    <2>2. /\ UNCHANGED <<max_latency, total_latency, consumed>>
          /\ samples' = (samples + 1) % W
          /\ \A u \in Threads : u # t => start'[u] = start[u]
      BY <1>0, <1>11 DEF CountSample, TypeOK
    <2>3. /\ \A u \in MaxPending : start'[u] = start[u]
          /\ \A u \in TotalPending : start'[u] = start[u]
      BY <2>1, <2>2 DEF MaxPending, TotalPending
    <2>4. FewPending' /\ CountExact'
      BY <1>0, <2>1, <2>2, SampleAdded DEF Tally
    <2>5. TotalExact'
      BY <1>0, <2>1, <2>2, <2>3, TotalKept DEF Tally
    <2>6. MaxExact'
      BY <2>1, <2>2, <2>3, MaxKept DEF Tally
    <2>7. Raising'
      BY <1>0, <1>11 DEF CountSample, TypeOK, Tally, Raising
    <2> QED  BY <2>4, <2>5, <2>6, <2>7 DEF Tally
  <1> QED
    BY <1>1, <1>2, <1>3, <1>4, <1>5, <1>6, <1>7, <1>8, <1>9, <1>10, <1>11 DEF Step

\* Nothing is measured at first.
LEMMA TallyInit == Init => Tally
  <1> SUFFICES ASSUME Init
               PROVE  Tally
    OBVIOUS
  <1>1. MaxPending = {} /\ TotalPending = {} /\ CountPending = {}
    BY DEF Init, MaxPending, TotalPending, CountPending
  <1>2. DOMAIN deltas = {} /\ Range(deltas) = {}
    BY DEF Init, deltas, Range
  <1>3. FewPending /\ Cardinality(CountPending) = 0
    BY <1>1, FS_EmptySet DEF FewPending
  <1>4. TotalExact
    BY <1>1, <1>2, SumOfNothing DEF TotalExact, SumFunction, Init
  <1>5. MaxExact
    <2>1. Shown = {0} /\ {0} \cup Range(deltas) = {0}
      BY <1>1, <1>2 DEF Shown, Init
    <2>2. IsMax(0, {0})
      BY DEF IsMax
    <2> QED  BY <2>1, <2>2 DEF MaxExact
  <1>6. CountExact
    BY <1>3 DEF CountExact, Init
  <1>7. Raising
    BY DEF Raising, Init
  <1> QED  BY <1>3, <1>4, <1>5, <1>6, <1>7 DEF Tally

\* Every step keeps the figures exact.
LEMMA TallyPreserved == IInv /\ Tally /\ [Next]_vars => Tally'
  <1>1. SUFFICES ASSUME IInv, Tally, [Next]_vars PROVE Tally'
    OBVIOUS
  <1>2. TypeOK
    BY <1>1 DEF IInv
  <1>3. ASSUME NEW t \in Threads, NEW now \in U64, MarkStart(t, now) PROVE Tally'
    BY <1>1, <1>2, <1>3, NothingAdded, Zenon
       DEF MarkStart, Goto, TypeOK, MaxPending, TotalPending, CountPending
  <1>4. ASSUME NEW t \in Threads, NEW now \in U64, MarkEnd(t, now), started PROVE Tally'
    BY <1>1, <1>2, <1>4, NothingAdded, Zenon
       DEF MarkEnd, Goto, TypeOK, MaxPending, TotalPending, CountPending, atomics
  <1>5. ASSUME UNCHANGED <<max_latency, total_latency, samples, consumed, pc, start, seen>>
        PROVE  Tally'
    BY <1>1, <1>5, Zenon DEF Tally, FewPending, TotalExact, MaxExact, CountExact, Raising, Shown,
                             MaxPending, TotalPending, CountPending, deltas
  <1>6. ASSUME NEW t \in Threads, NEW now \in U64, MarkEnd(t, now), ~ started PROVE Tally'
    BY <1>5, <1>6 DEF MarkEnd, atomics
  <1>7. CASE UNCHANGED vars
    BY <1>5, <1>7 DEF vars, atomics, locals
  <1> QED  BY <1>1, <1>3, <1>4, <1>6, <1>7, TallyStep DEF Next

\* The largest number is what Max chooses.
LEMMA MaxOf ==
    ASSUME NEW S, S \subseteq Nat, NEW m, IsMax(m, S)
    PROVE  Max(S) = m
  <1>1. m \in S /\ \A y \in S : m >= y
    BY DEF IsMax
  <1>2. Max(S) \in S /\ \A y \in S : Max(S) >= y
    BY <1>1, Zenon DEF Max
  <1>3. Max(S) \in Nat /\ m \in Nat /\ Max(S) <= m /\ m <= Max(S)
    <2>1. Max(S) >= m /\ m >= Max(S)
      BY <1>1, <1>2, Zenon
    <2>2. Max(S) \in Nat /\ m \in Nat
      BY <1>1, <1>2, Zenon
    <2> QED  BY <2>1, <2>2
  <1> QED  BY <1>3

\* The statistics lose and invent nothing, however many calls add to them at the same time
\* and however often an exchange fails (the loops of mark_end).
THEOREM NothingLost == Spec => []AccumulatorsExact
  <1>1. IInv /\ Tally => AccumulatorsExact
    <2> SUFFICES ASSUME IInv, Tally
                 PROVE  AccumulatorsExact
      OBVIOUS
    <2>1. PICK m : IsMax(m, Shown) /\ IsMax(m, {0} \cup Range(deltas))
      BY DEF Tally, MaxExact
    <2>2. Shown \subseteq Nat
      BY MaxTypes DEF IInv
    <2>3. {0} \cup Range(deltas) \subseteq Nat
      BY PendingTypes DEF IInv, Tally, Bounded, Range
    <2>4. Max(Shown) = Max({0} \cup Range(deltas))
      BY <2>1, <2>2, <2>3, MaxOf, Zenon
    <2> QED  BY <2>4 DEF AccumulatorsExact, Tally, TotalExact, CountExact, Shown
  <1> QED  BY <1>1, TrackerInit, TallyInit, TrackerStep, TallyPreserved, PTL DEF Spec
=============================================================================
