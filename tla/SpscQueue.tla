----------------------------- MODULE SpscQueue ------------------------------
(***************************************************************************)
(* The lock-free single-producer single-consumer queue of                  *)
(* shawncore-rtos-sync/src/spsc_queue.rs.                                  *)
(*                                                                         *)
(* One producer, one consumer and any number of init callers run           *)
(* interleaved, one shared-memory access (or one group of accesses to      *)
(* memory nobody else can write meanwhile) per step.  Each init caller     *)
(* brings a backing buffer of its own, so a caller and its buffer share    *)
(* one name.  Indices and sequence counters wrap at W as usize does.  A    *)
(* payload is wider than one store: while it is being written it is Torn.  *)
(***************************************************************************)
EXTENDS Integers, Sequences

CONSTANTS
  N,        \* number of slots
  W,        \* 2^usize::BITS: indices and counters are taken modulo W
  Values,   \* payloads the producer pushes
  Regions,  \* backing buffers, each the argument of one init caller
  Garbage,  \* values the counters of uninitialised storage may hold
  Null,     \* the null buffer pointer
  NoItem,   \* Option::None
  Uninit,   \* payload never written
  Torn,     \* payload in the middle of being written
  Zeroed,   \* payload overwritten with zero bytes
  Default   \* T::default()

Marks == {Uninit, Torn, Zeroed, Default}

(***************************************************************************)
(* new() asserts that N is a power of two and at most usize::MAX / 2, so N *)
(* divides W at least twice; W itself is even.                             *)
(***************************************************************************)
ASSUME SizeAssumption ==
  /\ N \in Nat \ {0}
  /\ W \in Nat
  /\ \E k \in 2 .. W : W = N * k
  /\ W % 2 = 0

ASSUME ValueAssumption ==
  /\ Garbage \subseteq 0 .. W - 1
  /\ Values \cap Marks = {}
  /\ NoItem \notin Values \cup Marks
  /\ Null \notin Regions

VARIABLES
  is_initialized, is_initializing, buffer, head, tail,
  data, sequence_counter,             \* the slots of every region
  ipc,                                \* init callers: next step
  ppc, item, sequence, push_result,   \* producer: next step, locals, result
  cpc, first_sequence, out, pop_result  \* consumer: next step, locals, result

queueVars == <<is_initialized, is_initializing, buffer, head, tail, data, sequence_counter>>
prodVars  == <<ppc, item, sequence, push_result>>
consVars  == <<cpc, first_sequence, out, pop_result>>
vars      == <<queueVars, ipc, prodVars, consVars>>

Index   == 0 .. N - 1
Usize   == 0 .. W - 1
Payload == Values \cup Marks

wrapping_add(x, d) == (x + d) % W
wrapping_sub(x, y) == (x - y) % W

(* sequence.wrapping_add(1) | 1  and  sequence.wrapping_add(2) & !1 *)
WritingSequence(s) == LET t == wrapping_add(s, 1) IN (t + 1) - (t % 2)
StableSequence(s)  == LET t == wrapping_add(s, 2) IN t - (t % 2)

Init ==
  /\ is_initialized = FALSE
  /\ is_initializing = FALSE
  /\ buffer = Null
  /\ head = 0
  /\ tail = 0
  /\ data = [r \in Regions |-> [i \in Index |-> Uninit]]
  /\ sequence_counter \in [Regions -> [Index -> Garbage]]   \* uninitialised storage
  /\ ipc = [r \in Regions |-> "idle"]
  /\ ppc = "idle" /\ item = Default /\ sequence = 0 /\ push_result = "None"
  /\ cpc = "idle" /\ first_sequence = 0 /\ out = Default /\ pop_result = NoItem

-----------------------------------------------------------------------------
(* init(base_ptr, size_in_bytes), called with the buffer r.  A null, short  *)
(* or misaligned buffer is refused before any state is looked at, and every *)
(* refusal leaves the queue as it is.                                       *)

InitEnter(r) ==
  /\ ipc[r] = "idle"
  /\ ~is_initialized
  /\ ipc' = [ipc EXCEPT ![r] = "claim"]
  /\ UNCHANGED <<queueVars, prodVars, consVars>>

InitClaim(r) ==
  /\ ipc[r] = "claim"
  /\ ipc' = [ipc EXCEPT ![r] = IF is_initializing THEN "idle" ELSE "recheck"]
  /\ is_initializing' = TRUE
  /\ UNCHANGED <<is_initialized, buffer, head, tail, data, sequence_counter, prodVars, consVars>>

(* Fault: no second look at is_initialized after the claim. *)
InitNoRecheck(r) ==
  /\ ipc[r] = "recheck"
  /\ ipc' = [ipc EXCEPT ![r] = "fill"]
  /\ UNCHANGED <<queueVars, prodVars, consVars>>

InitRecheck(r) ==
  /\ ipc[r] = "recheck"
  /\ ipc' = [ipc EXCEPT ![r] = IF is_initialized THEN "idle" ELSE "fill"]
  /\ is_initializing' = ~is_initialized
  /\ UNCHANGED <<is_initialized, buffer, head, tail, data, sequence_counter, prodVars, consVars>>

(* The buffer belongs to its caller until it is published: one step. *)
InitFill(r) ==
  /\ ipc[r] = "fill"
  /\ ipc' = [ipc EXCEPT ![r] = "buffer"]
  /\ sequence_counter' = [sequence_counter EXCEPT ![r] = [i \in Index |-> 0]]
  /\ UNCHANGED <<is_initialized, is_initializing, buffer, head, tail, data, prodVars, consVars>>

InitBuffer(r) ==
  /\ ipc[r] = "buffer"
  /\ ipc' = [ipc EXCEPT ![r] = "ready"]
  /\ buffer' = r
  /\ UNCHANGED <<is_initialized, is_initializing, head, tail, data, sequence_counter,
                 prodVars, consVars>>

InitReady(r) ==
  /\ ipc[r] = "ready"
  /\ ipc' = [ipc EXCEPT ![r] = "release"]
  /\ is_initialized' = TRUE
  /\ UNCHANGED <<is_initializing, buffer, head, tail, data, sequence_counter,
                 prodVars, consVars>>

InitRelease(r) ==
  /\ ipc[r] = "release"
  /\ ipc' = [ipc EXCEPT ![r] = "idle"]
  /\ is_initializing' = FALSE
  /\ UNCHANGED <<is_initialized, buffer, head, tail, data, sequence_counter, prodVars, consVars>>

init(r) ==
  \/ InitEnter(r) \/ InitClaim(r) \/ InitRecheck(r)
  \/ InitFill(r) \/ InitBuffer(r) \/ InitReady(r) \/ InitRelease(r)

-----------------------------------------------------------------------------
(* push(item).  push and pop load the buffer pointer once, after the check  *)
(* of is_initialized; the model reads it at every use, which is the same by *)
(* BufferPublishedOnce.                                                     *)

PushReturn(result) ==
  /\ ppc' = "idle" /\ item' = Default /\ sequence' = 0   \* locals end with the call
  /\ push_result' = result

PushNotInitialized ==
  /\ ppc = "idle"
  /\ ~is_initialized
  /\ PushReturn("NotInitialized")
  /\ UNCHANGED <<queueVars, ipc, consVars>>

PushEnter(v) ==
  /\ ppc = "idle"
  /\ is_initialized
  /\ ppc' = "load"
  /\ item' = v
  /\ UNCHANGED <<queueVars, ipc, sequence, push_result, consVars>>

(* Fault: the capacity check lets one item too many in. *)
PushLoadOffByOne ==
  /\ ppc = "load"
  /\ IF wrapping_sub(head, tail) > N
       THEN PushReturn("QueueFull")
       ELSE ppc' = "odd" /\ UNCHANGED <<item, sequence, push_result>>
  /\ UNCHANGED <<queueVars, ipc, consVars>>

(* only the producer writes head, so the load of tail decides *)
PushLoad ==
  /\ ppc = "load"
  /\ IF wrapping_sub(head, tail) >= N
       THEN PushReturn("QueueFull")
       ELSE ppc' = "odd" /\ UNCHANGED <<item, sequence, push_result>>
  /\ UNCHANGED <<queueVars, ipc, consVars>>

PushOdd ==
  /\ ppc = "odd"
  /\ ppc' = "write"
  /\ sequence' = sequence_counter[buffer][head % N]
  /\ sequence_counter' = [sequence_counter EXCEPT ![buffer][head % N] = WritingSequence(@)]
  /\ UNCHANGED <<is_initialized, is_initializing, buffer, head, tail, data,
                 ipc, item, push_result, consVars>>

PushWrite ==
  /\ ppc = "write"
  /\ ppc' = "writing"
  /\ data' = [data EXCEPT ![buffer][head % N] = Torn]
  /\ UNCHANGED <<is_initialized, is_initializing, buffer, head, tail, sequence_counter,
                 ipc, item, sequence, push_result, consVars>>

PushWritten ==
  /\ ppc = "writing"
  /\ ppc' = "even"
  /\ data' = [data EXCEPT ![buffer][head % N] = item]
  /\ UNCHANGED <<is_initialized, is_initializing, buffer, head, tail, sequence_counter,
                 ipc, item, sequence, push_result, consVars>>

(* Fault: the counter is left odd. *)
PushStaysOdd ==
  /\ ppc = "even"
  /\ ppc' = "publish"
  /\ UNCHANGED <<queueVars, ipc, item, sequence, push_result, consVars>>

PushEven ==
  /\ ppc = "even"
  /\ ppc' = "publish"
  /\ sequence_counter' =
       [sequence_counter EXCEPT ![buffer][head % N] = StableSequence(sequence)]
  /\ UNCHANGED <<is_initialized, is_initializing, buffer, head, tail, data,
                 ipc, item, sequence, push_result, consVars>>

PushPublish ==
  /\ ppc = "publish"
  /\ head' = wrapping_add(head, 1)
  /\ PushReturn("Ok")
  /\ UNCHANGED <<is_initialized, is_initializing, buffer, tail, data, sequence_counter,
                 ipc, consVars>>

push ==
  \/ PushNotInitialized
  \/ \E v \in Values : PushEnter(v)
  \/ PushLoad \/ PushOdd \/ PushWrite \/ PushWritten \/ PushEven \/ PushPublish

-----------------------------------------------------------------------------
(* pop() *)

PopReturn(result) ==
  /\ cpc' = "idle" /\ first_sequence' = 0 /\ out' = Default   \* locals end with the call
  /\ pop_result' = result

PopNotInitialized ==
  /\ cpc = "idle"
  /\ ~is_initialized
  /\ PopReturn(NoItem)
  /\ UNCHANGED <<queueVars, ipc, prodVars>>

PopEnter ==
  /\ cpc = "idle"
  /\ is_initialized
  /\ cpc' = "load"
  /\ UNCHANGED <<queueVars, ipc, prodVars, first_sequence, out, pop_result>>

(* only the consumer writes tail, so the load of head decides *)
PopLoad ==
  /\ cpc = "load"
  /\ IF head = tail
       THEN PopReturn(NoItem)
       ELSE cpc' = "seq1" /\ UNCHANGED <<first_sequence, out, pop_result>>
  /\ UNCHANGED <<queueVars, ipc, prodVars>>

PopFirstSequence ==
  /\ cpc = "seq1"
  /\ LET s == sequence_counter[buffer][tail % N]
     IN  IF s % 2 # 0
           THEN PopReturn(NoItem)
           ELSE cpc' = "read" /\ first_sequence' = s /\ UNCHANGED <<out, pop_result>>
  /\ UNCHANGED <<queueVars, ipc, prodVars>>

PopRead ==
  /\ cpc = "read"
  /\ cpc' = "seq2"
  /\ out' = data[buffer][tail % N]
  /\ UNCHANGED <<queueVars, ipc, prodVars, first_sequence, pop_result>>

(* Fault: the validated slot is released without being cleared. *)
PopSecondSequenceNoScrub ==
  /\ cpc = "seq2"
  /\ cpc' = "publish"
  /\ UNCHANGED <<queueVars, ipc, prodVars, first_sequence, out, pop_result>>

PopSecondSequence ==
  /\ cpc = "seq2"
  /\ LET second_sequence == sequence_counter[buffer][tail % N]
     IN  IF first_sequence # second_sequence \/ second_sequence % 2 # 0
           THEN PopReturn(NoItem)
           ELSE cpc' = "zero" /\ UNCHANGED <<first_sequence, out, pop_result>>
  /\ UNCHANGED <<queueVars, ipc, prodVars>>

PopZero ==
  /\ cpc = "zero"
  /\ cpc' = "default"
  /\ data' = [data EXCEPT ![buffer][tail % N] = Zeroed]
  /\ UNCHANGED <<is_initialized, is_initializing, buffer, head, tail, sequence_counter,
                 ipc, prodVars, first_sequence, out, pop_result>>

PopDefault ==
  /\ cpc = "default"
  /\ cpc' = "publish"
  /\ data' = [data EXCEPT ![buffer][tail % N] = Default]
  /\ UNCHANGED <<is_initialized, is_initializing, buffer, head, tail, sequence_counter,
                 ipc, prodVars, first_sequence, out, pop_result>>

PopPublish ==
  /\ cpc = "publish"
  /\ tail' = wrapping_add(tail, 1)
  /\ PopReturn(out)
  /\ UNCHANGED <<is_initialized, is_initializing, buffer, head, data, sequence_counter,
                 ipc, prodVars>>

pop ==
  \/ PopNotInitialized \/ PopEnter \/ PopLoad \/ PopFirstSequence \/ PopRead
  \/ PopSecondSequence \/ PopZero \/ PopDefault \/ PopPublish

-----------------------------------------------------------------------------
Next ==
  \/ \E r \in Regions : init(r)
  \/ push
  \/ pop

Spec == Init /\ [][Next]_vars

(***************************************************************************)
(* The consumer's core keeps polling, and an init call that has claimed    *)
(* the queue runs to its end; nothing obliges the producer to push.        *)
(***************************************************************************)
FairSpec == Spec /\ WF_vars(pop) /\ \A r \in Regions : WF_vars(init(r))

-----------------------------------------------------------------------------
(* Types of the shared and local state; indices stay within usize. *)
TypeOK ==
  /\ is_initialized \in BOOLEAN
  /\ is_initializing \in BOOLEAN
  /\ buffer \in Regions \cup {Null}
  /\ head \in Usize
  /\ tail \in Usize
  /\ data \in [Regions -> [Index -> Payload]]
  /\ sequence_counter \in [Regions -> [Index -> Usize]]
  /\ ipc \in [Regions -> {"idle", "claim", "recheck", "fill", "buffer", "ready", "release"}]
  /\ ppc \in {"idle", "load", "odd", "write", "writing", "even", "publish"}
  /\ item \in Values \cup {Default}
  /\ sequence \in Usize
  /\ push_result \in {"None", "NotInitialized", "QueueFull", "Ok"}
  /\ cpc \in {"idle", "load", "seq1", "read", "seq2", "zero", "default", "publish"}
  /\ first_sequence \in Usize
  /\ out \in Payload
  /\ pop_result \in Payload \cup {NoItem}

Used == wrapping_sub(head, tail)

(* The producer is writing its slot / the consumer is reading or clearing its own. *)
ProducerInSlot == ppc \in {"write", "writing"}
ConsumerInSlot == cpc \in {"read", "zero", "default"}

(***************************************************************************)
(* No data race on a payload: while push writes slot head % N, pop is not  *)
(* reading, zeroing or resetting the same slot.  This is what the SAFETY   *)
(* comments of push and pop claim, whatever the wrap-around of the         *)
(* indices.                                                                *)
(***************************************************************************)
RaceFree == ProducerInSlot /\ ConsumerInSlot => head % N # tail % N

(***************************************************************************)
(* Nothing popped lingers: a payload is stored only in a slot between tail *)
(* and head, or in the slot the producer is just filling.                  *)
(***************************************************************************)
Live(i) ==
  \/ \E k \in 0 .. Used - 1 : i = (tail + k) % N
  \/ ppc \in {"even", "publish"} /\ i = head % N

Scrubbed == \A r \in Regions, i \in Index : data[r][i] \in Values => r = buffer /\ Live(i)

(***************************************************************************)
(* Concurrent init callers: the backing buffer that push and pop load is   *)
(* published once and never replaced, even by a caller that looked at      *)
(* is_initialized before another caller finished.                          *)
(***************************************************************************)
BufferPublishedOnce == [][buffer # Null => buffer' = buffer]_vars

-----------------------------------------------------------------------------
(***************************************************************************)
(* The abstract queue: the payloads from tail up to head; the one at tail  *)
(* is held in pop's local variable while its slot is being cleared.        *)
(***************************************************************************)
AbstractQueue ==
  [k \in 1 .. Used |->
     IF k = 1 /\ cpc \in {"default", "publish"} THEN out
     ELSE data[buffer][(tail + k - 1) % N]]

Queue == INSTANCE BoundedQueue WITH
           ready <- is_initialized, queue <- AbstractQueue, peek_result <- NoItem

(***************************************************************************)
(* The queue is linearizable to a bounded FIFO: push reports QueueFull and *)
(* pop reports None only when the queue is full or empty at some moment of *)
(* the call (the sequence-counter checks never reject a published slot),   *)
(* items come out once, unaltered and in order, and a polling consumer     *)
(* gets every one of them.                                                 *)
(***************************************************************************)
ImplementsQueue == Queue!DrainingSpec
=============================================================================
