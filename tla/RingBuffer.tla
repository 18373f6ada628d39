----------------------------- MODULE RingBuffer -----------------------------
(***************************************************************************)
(* The single-producer single-consumer ring buffer of                      *)
(* shawncore-rtos-sync/src/ring_buffer.rs.  Its init, push and pop have    *)
(* the control flow of SpscQueue line for line; peek is new.  The consumer *)
(* runs pop and peek, one at a time.                                       *)
(***************************************************************************)
EXTENDS SpscQueue

VARIABLES kpc, peek_sequence, peek_out, peek_result   \* peek: next step, locals, result

peekVars == <<kpc, peek_sequence, peek_out, peek_result>>
ringVars == <<vars, peekVars>>

RingInit ==
  /\ Init
  /\ kpc = "idle" /\ peek_sequence = 0 /\ peek_out = Default /\ peek_result = NoItem

ring_init(r) == init(r) /\ UNCHANGED peekVars
ring_push    == push /\ UNCHANGED peekVars
ring_pop     == kpc = "idle" /\ pop /\ UNCHANGED peekVars

-----------------------------------------------------------------------------
(* peek() *)

PeekReturn(result) ==
  /\ kpc' = "idle" /\ peek_sequence' = 0 /\ peek_out' = Default
  /\ peek_result' = result

PeekNotInitialized ==
  /\ kpc = "idle" /\ cpc = "idle"
  /\ ~is_initialized
  /\ PeekReturn(NoItem)
  /\ UNCHANGED vars

PeekEnter ==
  /\ kpc = "idle" /\ cpc = "idle"
  /\ is_initialized
  /\ kpc' = "load"
  /\ UNCHANGED <<vars, peek_sequence, peek_out, peek_result>>

(* Fault: no test for the empty queue. *)
PeekLoadUnchecked ==
  /\ kpc = "load"
  /\ kpc' = "seq1"
  /\ UNCHANGED <<vars, peek_sequence, peek_out, peek_result>>

PeekLoad ==
  /\ kpc = "load"
  /\ IF head = tail
       THEN PeekReturn(NoItem)
       ELSE kpc' = "seq1" /\ UNCHANGED <<peek_sequence, peek_out, peek_result>>
  /\ UNCHANGED vars

PeekFirstSequence ==
  /\ kpc = "seq1"
  /\ LET s == sequence_counter[buffer][tail % N]
     IN  IF s % 2 # 0
           THEN PeekReturn(NoItem)
           ELSE kpc' = "read" /\ peek_sequence' = s /\ UNCHANGED <<peek_out, peek_result>>
  /\ UNCHANGED vars

(* Fault: the read wanders to the slot after tail. *)
PeekReadNext ==
  /\ kpc = "read"
  /\ kpc' = "seq2"
  /\ peek_out' = data[buffer][(tail + 1) % N]
  /\ UNCHANGED <<vars, peek_sequence, peek_result>>

PeekRead ==
  /\ kpc = "read"
  /\ kpc' = "seq2"
  /\ peek_out' = data[buffer][tail % N]
  /\ UNCHANGED <<vars, peek_sequence, peek_result>>

PeekSecondSequence ==
  /\ kpc = "seq2"
  /\ LET second_sequence == sequence_counter[buffer][tail % N]
     IN  PeekReturn(IF peek_sequence # second_sequence \/ second_sequence % 2 # 0
                      THEN NoItem ELSE peek_out)
  /\ UNCHANGED vars

peek ==
  \/ PeekNotInitialized \/ PeekEnter \/ PeekLoad
  \/ PeekFirstSequence \/ PeekRead \/ PeekSecondSequence

-----------------------------------------------------------------------------
RingNext ==
  \/ \E r \in Regions : ring_init(r)
  \/ ring_push
  \/ ring_pop
  \/ peek

RingSpec == RingInit /\ [][RingNext]_ringVars

(***************************************************************************)
(* No data race between push and peek: while push writes its slot, peek is *)
(* not reading the same one.                                               *)
(***************************************************************************)
PeekRaceFree == ProducerInSlot /\ kpc = "read" => head % N # tail % N

RingQueue == INSTANCE BoundedQueue WITH
               ready <- is_initialized, queue <- AbstractQueue

(***************************************************************************)
(* push, pop and peek of the ring buffer are linearizable to a bounded     *)
(* FIFO in which peek returns the item the next pop will return and        *)
(* removes nothing.                                                        *)
(***************************************************************************)
ImplementsRing == RingQueue!Spec
=============================================================================
