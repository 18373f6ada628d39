--------------------------- MODULE LatencyTracker ---------------------------
(***************************************************************************)
(* LatencyTracker of shawncore-rtos-sync: five atomics that time one       *)
(* measurement after another.  Any number of threads try to end the        *)
(* current measurement (a completion and a timeout, say); the one that     *)
(* consumes it adds it to the maximum, the total and the sample count with *)
(* lock-free loops, while the next measurement may already be under way.   *)
(* The weak exchange may fail although the value is the expected one.      *)
(***************************************************************************)
EXTENDS Naturals, Sequences, FiniteSets, FiniteSetsExt, Functions

CONSTANTS
    Threads,
    W,          \* 2^64, the modulus of the atomics
    MaxStarts   \* bound: measurements begun

ASSUME TrackerAssumption == W \in Nat \ {0, 1} /\ MaxStarts \in Nat

U64 == 0 .. W - 1

VARIABLES
    started, start_time, max_latency, total_latency, samples,  \* the atomics
    pc,         \* the step of mark_start or mark_end a thread is at
    stamp,      \* current_timestamp of its call
    start,      \* the start time it read, and then the delta it computed
    seen,       \* current_max or current_total
    begun,      \* ghost: the timestamps of the measurements begun, in order
    consumed    \* ghost: the measurements consumed, in order

atomics == <<started, start_time, max_latency, total_latency, samples>>
locals  == <<pc, stamp, start, seen>>
vars    == <<atomics, locals, begun, consumed>>

\* LatencyTracker::new
Init ==
    /\ started = FALSE
    /\ start_time = 0 /\ max_latency = 0 /\ total_latency = 0 /\ samples = 0
    /\ pc = [t \in Threads |-> "idle"]
    /\ stamp = [t \in Threads |-> 0]
    /\ start = [t \in Threads |-> 0]
    /\ seen = [t \in Threads |-> 0]
    /\ begun = <<>> /\ consumed = <<>>

Goto(t, step) == pc' = [pc EXCEPT ![t] = step]

Return(t) ==
    /\ Goto(t, "idle")
    /\ stamp' = [stamp EXCEPT ![t] = 0]
    /\ start' = [start EXCEPT ![t] = 0]
    /\ seen' = [seen EXCEPT ![t] = 0]

\* The documented contract of mark_start: a measurement has one owner, who does not begin
\* another one while somebody is still deciding whether to end this one.
Unclaimed == \A t \in Threads : pc[t] \notin {"started", "start_time", "swap"}

-----------------------------------------------------------------------------
\* mark_start: the time first ...
MarkStart(t, now) ==
    /\ pc[t] = "idle" /\ Unclaimed
    /\ Len(begun) < MaxStarts
    /\ start_time' = now
    /\ begun' = Append(begun, now)
    /\ Goto(t, "started")
    /\ UNCHANGED <<started, max_latency, total_latency, samples, stamp, start, seen, consumed>>

\* ... then the flag.
MarkStarted(t) ==
    /\ pc[t] = "started"
    /\ started' = TRUE
    /\ Goto(t, "idle")
    /\ UNCHANGED <<start_time, max_latency, total_latency, samples,
                   stamp, start, seen, begun, consumed>>

-----------------------------------------------------------------------------
\* mark_end returns when nothing was started; by the contract it does not run in the
\* middle of mark_start.
MarkEnd(t, now) ==
    /\ pc[t] = "idle" /\ \A u \in Threads : pc[u] # "started"
    /\ IF started
       THEN stamp' = [stamp EXCEPT ![t] = now] /\ Goto(t, "start_time")
       ELSE UNCHANGED <<stamp, pc>>
    /\ UNCHANGED <<atomics, start, seen, begun, consumed>>

\* A timestamp from before the start leaves the measurement active.
LoadStart(t) ==
    /\ pc[t] = "start_time"
    /\ IF stamp[t] < start_time
       THEN Return(t)
       ELSE /\ start' = [start EXCEPT ![t] = start_time]
            /\ Goto(t, "swap")
            /\ UNCHANGED <<stamp, seen>>
    /\ UNCHANGED <<atomics, begun, consumed>>

Consume(t) ==
    /\ started' = FALSE
    /\ start' = [start EXCEPT ![t] = stamp[t] - start[t]]
    /\ consumed' = Append(consumed,
           [number |-> Len(begun), from |-> begun[Len(begun)], until |-> stamp[t],
            delta |-> stamp[t] - start[t]])
    /\ Goto(t, "load_max")
    /\ UNCHANGED <<stamp, seen>>

\* The flag is cleared without looking at what it was.
SwapBlindly(t) ==
    /\ pc[t] = "swap"
    /\ Consume(t)
    /\ UNCHANGED <<start_time, max_latency, total_latency, samples, begun>>

\* Of the threads that got this far one finds the flag set.
Swap(t) ==
    /\ pc[t] = "swap"
    /\ IF started THEN Consume(t) ELSE Return(t) /\ UNCHANGED <<started, consumed>>
    /\ UNCHANGED <<start_time, max_latency, total_latency, samples, begun>>

\* With the value it observed, a thread raises the maximum or goes on to the total.
JudgeMax(t) ==
    /\ seen' = [seen EXCEPT ![t] = max_latency]
    /\ Goto(t, IF start[t] > max_latency THEN "max" ELSE "load_total")
    /\ UNCHANGED <<atomics, stamp, start, begun, consumed>>

LoadMax(t) == pc[t] = "load_max" /\ JudgeMax(t)

ExchangeMax(t) ==
    /\ pc[t] = "max" /\ max_latency = seen[t]
    /\ max_latency' = start[t]
    /\ Goto(t, "load_total")
    /\ UNCHANGED <<started, start_time, total_latency, samples,
                   stamp, start, seen, begun, consumed>>

ExchangeMaxFails(t) == pc[t] = "max" /\ JudgeMax(t)

\* The total, read once or again after a failed exchange.
JudgeTotal(t) ==
    /\ seen' = [seen EXCEPT ![t] = total_latency]
    /\ Goto(t, "total")
    /\ UNCHANGED <<atomics, stamp, start, begun, consumed>>

LoadTotal(t) == pc[t] = "load_total" /\ JudgeTotal(t)

saturating_add(x, y) == IF x + y < W THEN x + y ELSE W - 1

\* The new total is stored over whatever the total has become.
StoreTotal(t) ==
    /\ pc[t] = "total"
    /\ total_latency' = saturating_add(seen[t], start[t])
    /\ Goto(t, "samples")
    /\ UNCHANGED <<started, start_time, max_latency, samples,
                   stamp, start, seen, begun, consumed>>

ExchangeTotal(t) ==
    /\ pc[t] = "total" /\ total_latency = seen[t]
    /\ total_latency' = saturating_add(seen[t], start[t])
    /\ Goto(t, "samples")
    /\ UNCHANGED <<started, start_time, max_latency, samples,
                   stamp, start, seen, begun, consumed>>

\* The loop goes round with the value it had.
RetryStale(t) == pc[t] = "total" /\ UNCHANGED vars

ExchangeTotalFails(t) == pc[t] = "total" /\ JudgeTotal(t)

CountSample(t) ==
    /\ pc[t] = "samples"
    /\ samples' = (samples + 1) % W
    /\ Return(t)
    /\ UNCHANGED <<started, start_time, max_latency, total_latency, begun, consumed>>

-----------------------------------------------------------------------------
\* The steps a call takes by itself.
Step(t) ==
    \/ MarkStarted(t)
    \/ LoadStart(t) \/ Swap(t)
    \/ LoadMax(t) \/ ExchangeMax(t) \/ ExchangeMaxFails(t)
    \/ LoadTotal(t) \/ ExchangeTotal(t) \/ ExchangeTotalFails(t)
    \/ CountSample(t)

Next ==
    \E t \in Threads :
        (\E now \in U64 : MarkStart(t, now) \/ MarkEnd(t, now)) \/ Step(t)

Spec == Init /\ [][Next]_vars

\* A thread keeps running.  An exchange that fails spuriously changes nothing, so it does
\* not fail spuriously for ever; one lost to another thread may be lost again.
FairSpec == Spec /\ \A t \in Threads : WF_vars(Step(t))

-----------------------------------------------------------------------------
\* The atomics are 64-bit values and every thread is at a step of one of the two calls.
TypeOK ==
    /\ started \in BOOLEAN
    /\ start_time \in U64 /\ max_latency \in U64 /\ total_latency \in U64 /\ samples \in U64
    /\ pc \in [Threads -> {"idle", "started", "start_time", "swap", "load_max", "max",
                           "load_total", "total", "samples"}]
    /\ stamp \in [Threads -> U64] /\ start \in [Threads -> U64] /\ seen \in [Threads -> U64]
    /\ begun \in Seq(U64)
    /\ consumed \in Seq([number : Nat, from : U64, until : U64, delta : U64])

\* "mark_end consumes the current active measurement exactly once": however many threads
\* try to end it, a measurement is consumed at most once, never after a later one, and
\* with the time that passed since its own mark_start.
MeasuredOnce ==
    /\ \A i \in DOMAIN consumed : consumed[i].delta = consumed[i].until - consumed[i].from
    /\ \A i, j \in DOMAIN consumed : i < j => consumed[i].number < consumed[j].number

\* The calls that have consumed a measurement and have still to add it to the maximum,
\* to the total, and to the number of samples.
MaxPending == {t \in Threads : pc[t] \in {"load_max", "max"}}
TotalPending == {t \in Threads : pc[t] \in {"load_max", "max", "load_total", "total"}}
CountPending == {t \in Threads : pc[t] \in {"load_max", "max", "load_total", "total", "samples"}}

deltas == [i \in DOMAIN consumed |-> consumed[i].delta]

\* The statistics lose and invent nothing: what the tracker shows, with what the calls in
\* flight have still to add, is the maximum, the saturated sum and the number of the
\* measurements consumed (the compare_exchange_weak loops and fetch_add of mark_end).
AccumulatorsExact ==
    /\ saturating_add(total_latency, SumFunctionOnSet(start, TotalPending))
         = saturating_add(SumFunction(deltas), 0)
    /\ Max({max_latency} \cup {start[t] : t \in MaxPending}) = Max({0} \cup Range(deltas))
    /\ (samples + Cardinality(CountPending)) % W = Len(consumed) % W

\* Lock-freedom: with finitely many measurements, every call returns.  A thread that
\* loses its exchange to another one goes round with what it was told, and gets through
\* once the others have nothing left to add (mark_end).
CallsReturn == \A t \in Threads : pc[t] # "idle" ~> pc[t] = "idle"
=============================================================================
