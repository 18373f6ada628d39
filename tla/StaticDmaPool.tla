--------------------------- MODULE StaticDmaPool ----------------------------
(***************************************************************************)
(* The lock-free DMA buffer pool of                                        *)
(* shawncore-rtos-sync/src/static_dma_pool.rs: a free list kept as an      *)
(* ABA-tagged stack, and one ownership word per slot that turns a handle   *)
(* (slot, generation) into a one-time right to free the slot.              *)
(*                                                                         *)
(* Threads call allocate and free, and the Initializers among them init,   *)
(* interleaved one shared access per step.  free may be called with any    *)
(* handle allocate ever returned, by any thread, any number of times: a    *)
(* handle travels between cores, and rejecting the second free is the      *)
(* pool's job.                                                             *)
(***************************************************************************)
EXTENDS Integers, FiniteSets

CONSTANTS
  N,             \* number of buffers
  Threads,
  Initializers,  \* threads that call init
  TagMod,        \* 2^32: the free-list tag is taken modulo TagMod
  GenMod,        \* 2^63: ownership generations are taken modulo GenMod
  MaxAllocs      \* bound on the calls of allocate

Slots == 0 .. N - 1
Empty == -1      \* FREE_LIST_EMPTY

(***************************************************************************)
(* The module comment of the source asks deployments to keep the number of *)
(* free-list mutations (at most two per allocation) below the tag's range. *)
(***************************************************************************)
ASSUME PoolAssumption ==
  /\ N \in Nat \ {0}
  /\ MaxAllocs \in Nat
  /\ TagMod \in Nat /\ TagMod > 2 * MaxAllocs
  /\ GenMod \in Nat /\ GenMod > MaxAllocs
  /\ Initializers \subseteq Threads

VARIABLES
  is_initialized, is_initializing,
  free_list_head,   \* [index, tag]
  next,             \* free-list successor of each slot
  ownership,        \* [allocated, generation] of each slot
  content,          \* "raw" as delivered by the host, "dirty", or "zero"
  pc, observed, next_index, slot, seen,   \* per thread: next step and locals
  issued,           \* handles allocate has returned
  owned,            \* per thread: handles returned to it and not released yet
  allocs            \* calls of allocate so far

shared == <<is_initialized, is_initializing, free_list_head, next, ownership, content>>
locals == <<observed, next_index, slot, seen>>
ghosts == <<issued, owned, allocs>>
vars   == <<shared, pc, locals, ghosts>>

(* Fault: the tag is left out. *)
pack_untagged(i, g) == [index |-> i, tag |-> 0]

pack_head(i, g) == [index |-> i, tag |-> g % TagMod]

Unclaimed == [allocated |-> FALSE, generation |-> 0]

Init ==
  /\ is_initialized = FALSE /\ is_initializing = FALSE
  /\ free_list_head = pack_head(0, 0)
  /\ next = [s \in Slots |-> Empty]
  /\ ownership = [s \in Slots |-> Unclaimed]
  /\ content = [s \in Slots |-> "raw"]
  /\ pc = [t \in Threads |-> "idle"]
  /\ observed = [t \in Threads |-> pack_head(0, 0)]
  /\ next_index = [t \in Threads |-> Empty]
  /\ slot = [t \in Threads |-> 0]
  /\ seen = [t \in Threads |-> Unclaimed]
  /\ issued = {} /\ owned = [t \in Threads |-> {}] /\ allocs = 0

Goto(t, step) == pc' = [pc EXCEPT ![t] = step]

(* The locals of a call end with it. *)
Return(t) ==
  /\ Goto(t, "idle")
  /\ observed' = [observed EXCEPT ![t] = pack_head(0, 0)]
  /\ next_index' = [next_index EXCEPT ![t] = Empty]
  /\ slot' = [slot EXCEPT ![t] = 0]
  /\ seen' = [seen EXCEPT ![t] = Unclaimed]

-----------------------------------------------------------------------------
(* init(base_ptr, size_in_bytes).  Bad arguments are refused before any     *)
(* state is read, and every refusal leaves the pool as it is.               *)

InitEnter(t) ==
  /\ pc[t] = "idle"
  /\ ~is_initialized
  /\ Goto(t, "init_claim")
  /\ UNCHANGED <<shared, locals, ghosts>>

InitClaim(t) ==
  /\ pc[t] = "init_claim"
  /\ Goto(t, IF is_initializing THEN "idle" ELSE "init_slots")
  /\ is_initializing' = TRUE
  /\ UNCHANGED <<is_initialized, free_list_head, next, ownership, content, locals, ghosts>>

InitSlots(t) ==
  /\ pc[t] = "init_slots"
  /\ Goto(t, "init_head")
  /\ next' = [s \in Slots |-> IF s + 1 < N THEN s + 1 ELSE Empty]
  /\ ownership' = [s \in Slots |-> Unclaimed]
  /\ UNCHANGED <<is_initialized, is_initializing, free_list_head, content, locals, ghosts>>

InitHead(t) ==
  /\ pc[t] = "init_head"
  /\ Goto(t, "init_ready")
  /\ free_list_head' = pack_head(0, 0)
  /\ UNCHANGED <<is_initialized, is_initializing, next, ownership, content, locals, ghosts>>

InitReady(t) ==
  /\ pc[t] = "init_ready"
  /\ Goto(t, "init_release")
  /\ is_initialized' = TRUE
  /\ UNCHANGED <<is_initializing, free_list_head, next, ownership, content, locals, ghosts>>

InitRelease(t) ==
  /\ pc[t] = "init_release"
  /\ Goto(t, "idle")
  /\ is_initializing' = FALSE
  /\ UNCHANGED <<is_initialized, free_list_head, next, ownership, content, locals, ghosts>>

init(t) ==
  \/ InitEnter(t) \/ InitClaim(t) \/ InitSlots(t)
  \/ InitHead(t) \/ InitReady(t) \/ InitRelease(t)

-----------------------------------------------------------------------------
(* allocate() *)

(* The free-list head just loaded becomes the candidate, unless it is empty. *)
AllocObserve(t) ==
  IF free_list_head.index = Empty
    THEN Return(t)                          \* OutOfMemory
    ELSE /\ observed' = [observed EXCEPT ![t] = free_list_head]
         /\ Goto(t, "alloc_next")
         /\ UNCHANGED <<next_index, slot, seen>>

AllocEnter(t) ==
  /\ pc[t] = "idle"
  /\ is_initialized
  /\ allocs < MaxAllocs
  /\ allocs' = allocs + 1
  /\ AllocObserve(t)
  /\ UNCHANGED <<shared, issued, owned>>

AllocNext(t) ==
  /\ pc[t] = "alloc_next"
  /\ Goto(t, "alloc_cas")
  /\ next_index' = [next_index EXCEPT ![t] = next[observed[t].index]]
  /\ UNCHANGED <<shared, observed, slot, seen, ghosts>>

AllocCas(t) ==
  /\ pc[t] = "alloc_cas"
  /\ free_list_head = observed[t]
  /\ free_list_head' = pack_head(next_index[t], observed[t].tag + 1)
  /\ slot' = [slot EXCEPT ![t] = observed[t].index]
  /\ Goto(t, "alloc_seen")
  /\ UNCHANGED <<is_initialized, is_initializing, next, ownership, content,
                 observed, next_index, seen, ghosts>>

(* compare_exchange_weak may also fail with the expected value in place *)
AllocRetry(t) ==
  /\ pc[t] = "alloc_cas"
  /\ AllocObserve(t)
  /\ UNCHANGED <<shared, ghosts>>

AllocSeen(t) ==
  /\ pc[t] = "alloc_seen"
  /\ Goto(t, "alloc_own")
  /\ seen' = [seen EXCEPT ![t] = ownership[slot[t]]]
  /\ UNCHANGED <<shared, observed, next_index, slot, ghosts>>

AllocOwn(t) ==
  /\ pc[t] = "alloc_own"
  /\ LET s == slot[t]
         g == (seen[t].generation + 1) % GenMod
     IN  IF ownership[s] = seen[t]
           THEN /\ ownership' = [ownership EXCEPT ![s] = [allocated |-> TRUE, generation |-> g]]
                /\ issued' = issued \cup {<<s, g>>}
                /\ owned' = [owned EXCEPT ![t] = @ \cup {<<s, g>>}]
           ELSE UNCHANGED <<ownership, issued, owned>>   \* DoubleFree: corruption
  /\ Return(t)
  /\ UNCHANGED <<is_initialized, is_initializing, free_list_head, next, content, allocs>>

allocate(t) ==
  \/ AllocEnter(t) \/ AllocNext(t) \/ AllocCas(t) \/ AllocRetry(t)
  \/ AllocSeen(t) \/ AllocOwn(t)

(* The holder of a live handle, or its device, writes into the buffer. *)
UseBuffer(t) ==
  /\ \E h \in owned[t] : content' = [content EXCEPT ![h[1]] = "dirty"]
  /\ UNCHANGED <<is_initialized, is_initializing, free_list_head, next, ownership,
                 pc, locals, ghosts>>

-----------------------------------------------------------------------------
(* free(buffer_idx, generation), called with handle h *)

(* Fault: any allocated slot is released, whatever the generation of the handle. *)
FreeEnterAnyGeneration(t, h) ==
  /\ pc[t] = "idle"
  /\ is_initialized
  /\ ownership[h[1]].allocated
  /\ ownership' = [ownership EXCEPT ![h[1]].allocated = FALSE]
  /\ owned' = [u \in Threads |-> owned[u] \ {h}]
  /\ slot' = [slot EXCEPT ![t] = h[1]]
  /\ Goto(t, "free_zero")
  /\ UNCHANGED <<is_initialized, is_initializing, free_list_head, next, content,
                 observed, next_index, seen, issued, allocs>>

FreeEnter(t, h) ==
  /\ pc[t] = "idle"
  /\ is_initialized
  /\ IF ownership[h[1]] = [allocated |-> TRUE, generation |-> h[2]]
       THEN /\ ownership' = [ownership EXCEPT ![h[1]].allocated = FALSE]
            /\ owned' = [u \in Threads |-> owned[u] \ {h}]
            /\ slot' = [slot EXCEPT ![t] = h[1]]
            /\ Goto(t, "free_zero")
       ELSE UNCHANGED <<ownership, owned, slot, pc>>     \* DoubleFree
  /\ UNCHANGED <<is_initialized, is_initializing, free_list_head, next, content,
                 observed, next_index, seen, issued, allocs>>

(* Fault: the slot is relisted without being cleared. *)
FreeNoZero(t) ==
  /\ pc[t] = "free_zero"
  /\ Goto(t, "free_load")
  /\ UNCHANGED <<shared, locals, ghosts>>

FreeZero(t) ==
  /\ pc[t] = "free_zero"
  /\ Goto(t, "free_load")
  /\ content' = [content EXCEPT ![slot[t]] = "zero"]
  /\ UNCHANGED <<is_initialized, is_initializing, free_list_head, next, ownership,
                 locals, ghosts>>

FreeObserve(t) ==
  /\ observed' = [observed EXCEPT ![t] = free_list_head]
  /\ Goto(t, "free_link")
  /\ UNCHANGED <<shared, next_index, slot, seen, ghosts>>

FreeLoad(t) == pc[t] = "free_load" /\ FreeObserve(t)

FreeLink(t) ==
  /\ pc[t] = "free_link"
  /\ Goto(t, "free_cas")
  /\ next' = [next EXCEPT ![slot[t]] = observed[t].index]
  /\ UNCHANGED <<is_initialized, is_initializing, free_list_head, ownership, content,
                 locals, ghosts>>

FreeCas(t) ==
  /\ pc[t] = "free_cas"
  /\ free_list_head = observed[t]
  /\ free_list_head' = pack_head(slot[t], observed[t].tag + 1)
  /\ Return(t)
  /\ UNCHANGED <<is_initialized, is_initializing, next, ownership, content, ghosts>>

(* Fault: the retry keeps comparing with the stale head. *)
FreeRetryStale(t) ==
  /\ pc[t] = "free_cas"
  /\ Goto(t, "free_link")
  /\ UNCHANGED <<shared, locals, ghosts>>

FreeRetry(t) == pc[t] = "free_cas" /\ FreeObserve(t)

free(t) ==
  \/ \E h \in issued : FreeEnter(t, h)
  \/ FreeZero(t) \/ FreeLoad(t) \/ FreeLink(t) \/ FreeCas(t) \/ FreeRetry(t)

-----------------------------------------------------------------------------
Next ==
  \/ \E t \in Initializers : init(t)
  \/ \E t \in Threads : allocate(t) \/ UseBuffer(t) \/ free(t)

Spec == Init /\ [][Next]_vars

(***************************************************************************)
(* Cores keep running, and compare_exchange_weak does not fail for ever    *)
(* with the expected value in place.  Nobody is obliged to start a call.   *)
(***************************************************************************)
Fairness ==
  \A t \in Threads :
    /\ WF_vars(pc[t] # "idle" /\ (init(t) \/ allocate(t) \/ free(t)))
    /\ SF_vars(AllocCas(t)) /\ SF_vars(FreeCas(t))

FairSpec == Spec /\ Fairness

-----------------------------------------------------------------------------
(* The slots met when following the free list from its head, at most N + 1 links. *)
FreeChain ==
  LET link[k \in 0 .. N] ==
        IF k = 0 THEN free_list_head.index
        ELSE IF link[k - 1] = Empty THEN Empty ELSE next[link[k - 1]]
  IN  link

InFreeList(s) == {k \in 0 .. N : FreeChain[k] = s}
Holders(s)    == {t \in Threads : \E h \in owned[t] : h[1] = s}
Carriers(s)   == {t \in Threads : /\ slot[t] = s
                                  /\ pc[t] \in {"alloc_seen", "alloc_own", "free_zero",
                                                "free_load", "free_link", "free_cas"}}

(***************************************************************************)
(* No buffer is leaked, shared or listed twice: once the pool is           *)
(* initialized, every slot is in exactly one place, which is one position  *)
(* of the free list, one holder of a live handle, or one thread between    *)
(* taking it off the list and returning it (or the reverse).  In           *)
(* particular two callers of allocate never hold the same buffer, and the  *)
(* list has no cycle.  A slot just taken off the list is unowned until the *)
(* claim, so that the DoubleFree branch of allocate ("allocator            *)
(* corruption") is never taken.                                            *)
(***************************************************************************)
SlotsPartitioned ==
  /\ is_initialized =>
       \A s \in Slots :
         Cardinality(InFreeList(s)) + Cardinality(Holders(s)) + Cardinality(Carriers(s)) = 1
  /\ \A t \in Threads :
       /\ pc[t] \in {"alloc_seen", "alloc_own"} => ~ownership[slot[t]].allocated
       /\ pc[t] = "alloc_own" => ownership[slot[t]] = seen[t]

(***************************************************************************)
(* The ownership word of a slot accepts exactly the handle that is live:   *)
(* a stale or repeated free is always refused, a rightful one never.       *)
(***************************************************************************)
OnlyLiveHandlesFree ==
  \A h \in issued :
    ownership[h[1]] = [allocated |-> TRUE, generation |-> h[2]]
      <=> \E t \in Threads : h \in owned[t]

(***************************************************************************)
(* Nothing a previous owner wrote is handed to the next one: a slot in the *)
(* free list, or on its way from the list to a caller, is not dirty.       *)
(***************************************************************************)
HandedOutClean ==
  is_initialized =>
    \A s \in Slots :
      content[s] = "dirty" =>
        /\ InFreeList(s) = {}
        /\ \A t \in Carriers(s) : pc[t] = "free_zero"

(***************************************************************************)
(* Lock-freedom: with finitely many calls competing, every call of init,   *)
(* allocate and free returns.                                              *)
(***************************************************************************)
CallsReturn == \A t \in Threads : pc[t] # "idle" ~> pc[t] = "idle"

(***************************************************************************)
(* init prepares a pool once: its body never runs on a pool that is        *)
(* already initialized.                                                    *)
(***************************************************************************)
InitOneShot ==
  \A t \in Threads : pc[t] \in {"init_slots", "init_head", "init_ready"} => ~is_initialized
=============================================================================
