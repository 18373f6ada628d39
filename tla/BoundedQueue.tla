---------------------------- MODULE BoundedQueue ----------------------------
(***************************************************************************)
(* What SpscQueue, RingBuffer and EntropyQueue promise to their one        *)
(* producer and one consumer: a first-in first-out queue of at most N      *)
(* items.  Every call takes effect in one atomic step, at which its result *)
(* is fixed.                                                               *)
(***************************************************************************)
EXTENDS Naturals, Sequences

CONSTANTS N,       \* capacity
          Values,  \* payloads a producer may push
          NoItem   \* what pop and peek return instead of a payload

VARIABLES ready,         \* init has published the storage
          queue,         \* the items pushed and not yet popped, oldest first
          push_result,   \* result of the latest push
          pop_result,    \* result of the latest pop
          peek_result    \* result of the latest peek

vars == <<ready, queue, push_result, pop_result, peek_result>>

Init ==
  /\ ready \in BOOLEAN
  /\ queue = <<>>
  /\ push_result = "None"
  /\ pop_result = NoItem
  /\ peek_result = NoItem

BecomeReady ==
  /\ ~ready
  /\ ready' = TRUE
  /\ UNCHANGED <<queue, push_result, pop_result, peek_result>>

PushRefused ==
  /\ ~ready
  /\ push_result' = "NotInitialized"
  /\ UNCHANGED <<ready, queue, pop_result, peek_result>>

PushFull ==
  /\ ready
  /\ Len(queue) = N
  /\ push_result' = "QueueFull"
  /\ UNCHANGED <<ready, queue, pop_result, peek_result>>

Push(v) ==
  /\ ready
  /\ Len(queue) < N
  /\ queue' = Append(queue, v)
  /\ push_result' = "Ok"
  /\ UNCHANGED <<ready, pop_result, peek_result>>

PopEmpty ==
  /\ queue = <<>>
  /\ pop_result' = NoItem
  /\ UNCHANGED <<ready, queue, push_result, peek_result>>

Pop ==
  /\ queue # <<>>
  /\ pop_result' = Head(queue)
  /\ queue' = Tail(queue)
  /\ UNCHANGED <<ready, push_result, peek_result>>

PeekEmpty ==
  /\ queue = <<>>
  /\ peek_result' = NoItem
  /\ UNCHANGED <<ready, queue, push_result, pop_result>>

Peek ==
  /\ queue # <<>>
  /\ peek_result' = Head(queue)
  /\ UNCHANGED <<ready, queue, push_result, pop_result>>

Next ==
  \/ BecomeReady
  \/ PushRefused \/ PushFull \/ (\E v \in Values : Push(v))
  \/ PopEmpty \/ Pop
  \/ PeekEmpty \/ Peek

Spec == Init /\ [][Next]_vars

(***************************************************************************)
(* A consumer that keeps calling pop drains the queue.                     *)
(***************************************************************************)
DrainingSpec == Spec /\ WF_vars(Pop)
=============================================================================
