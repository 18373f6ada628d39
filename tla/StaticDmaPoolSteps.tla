------------------------ MODULE StaticDmaPoolSteps -------------------------
(***************************************************************************)
(* The DMA pool, for any number of buffers, threads and calls within the   *)
(* deployment bounds of PoolAssumption, when one thread calls init.  (With *)
(* two, a late caller prepares a pool that is in use: see InitOneShot.)    *)
(***************************************************************************)
EXTENDS StaticDmaPool, FiniteSetTheorems, TLAPS

OneInitializer == \A t, u \in Initializers : t = u

InitSteps == {"init_claim", "init_slots", "init_head", "init_ready", "init_release"}
Trying    == {"alloc_next", "alloc_cas"}
Claiming  == {"alloc_seen", "alloc_own"}
Freeing   == {"free_zero", "free_load", "free_link", "free_cas"}
Steps     == {"idle"} \cup InitSteps \cup Trying \cup Claiming \cup Freeing

Indices == Slots \cup {Empty}
Heads   == [index : Indices, tag : Nat]
Owners  == [allocated : BOOLEAN, generation : Nat]

TypeInv ==
  /\ is_initialized \in BOOLEAN /\ is_initializing \in BOOLEAN
  /\ free_list_head \in Heads
  /\ next \in [Slots -> Indices]
  /\ ownership \in [Slots -> Owners]
  /\ content \in [Slots -> {"raw", "dirty", "zero"}]
  /\ pc \in [Threads -> Steps]
  /\ observed \in [Threads -> Heads]
  /\ next_index \in [Threads -> Indices]
  /\ slot \in [Threads -> Slots]
  /\ seen \in [Threads -> Owners]
  /\ issued \subseteq Slots \X Nat
  /\ owned \in [Threads -> SUBSET issued]
  /\ allocs \in 0 .. MaxAllocs

Chained == [s \in Slots |-> IF s + 1 < N THEN s + 1 ELSE Empty]

(* Nothing happens before init is over, and init finds the pool untouched. *)
Startup ==
  /\ \A t \in Threads :
       /\ pc[t] \in InitSteps => t \in Initializers
       /\ pc[t] \in InitSteps \ {"init_release"} => ~is_initialized
       /\ pc[t] \in {"init_head", "init_ready"} => next = Chained
       /\ pc[t] = "init_ready" => free_list_head = pack_head(0, 0)
  /\ ~is_initialized =>
       /\ \A t \in Threads : pc[t] \in InitSteps \cup {"idle"}
       /\ issued = {} /\ allocs = 0
       /\ \A s \in Slots : ownership[s] = Unclaimed /\ content[s] # "dirty"

(* A live handle is the newest of its slot, and an allocated slot has one. *)
Handles ==
  /\ \A h \in issued : h[2] <= ownership[h[1]].generation
  /\ \A t \in Threads : \A h \in owned[t] :
       /\ ownership[h[1]] = [allocated |-> TRUE, generation |-> h[2]]
       /\ \A u \in Threads : h \in owned[u] => u = t
  /\ \A s \in Slots : ownership[s].allocated =>
       \E t \in Threads : <<s, ownership[s].generation>> \in owned[t]

(* A thread between the free list and the ownership word has its slot to itself. *)
Carries(t) == pc[t] \in Claiming \cup Freeing

Carried ==
  \A t \in Threads :
    /\ Carries(t) => /\ ~ownership[slot[t]].allocated
                     /\ \A u \in Threads : Carries(u) /\ slot[u] = slot[t] => u = t
                     /\ pc[t] = "free_zero" \/ content[slot[t]] # "dirty"
    /\ pc[t] = "alloc_own" => seen[t] = ownership[slot[t]]
    /\ pc[t] = "free_cas" => next[slot[t]] = observed[t].index

(* The tag tells the heads apart: a thread that finds the tag it observed finds *)
(* the head it observed, and the successor it read is still the successor.      *)
Tagged ==
  \A t \in Threads :
    /\ pc[t] \in Trying \cup {"free_link", "free_cas"} =>
         /\ observed[t].tag <= free_list_head.tag
         /\ observed[t].tag = free_list_head.tag => observed[t] = free_list_head
    /\ pc[t] \in Trying => observed[t].index # Empty
    /\ pc[t] = "alloc_cas" /\ observed[t] = free_list_head =>
         next_index[t] = next[observed[t].index]

(* An allocation raises one generation by one. *)
Calls(steps) == {t \in Threads : pc[t] \in steps}

Counted ==
  /\ IsFiniteSet(Calls(Trying)) /\ IsFiniteSet(Calls(Trying \cup Claiming))
  /\ \A s \in Slots : ownership[s].generation + Cardinality(Calls(Trying \cup Claiming)) <= allocs

(* The free list is the stack c[n], ..., c[1] of the slots that nobody has.  An *)
(* allocation that succeeds changes the tag once, and once more when it is freed. *)
Listed(s) == ~ownership[s].allocated /\ \A t \in Threads : ~(Carries(t) /\ slot[t] = s)

Stack(n, c) ==
  /\ \A i, j \in 1 .. n : c[i] = c[j] => i = j
  /\ free_list_head.index = IF n = 0 THEN Empty ELSE c[n]
  /\ \A i \in 1 .. n : next[c[i]] = IF i = 1 THEN Empty ELSE c[i - 1]
  /\ \A s \in Slots : Listed(s) <=> \E i \in 1 .. n : c[i] = s

Spendable(n) == free_list_head.tag + (N - n) + 2 * Cardinality(Calls(Trying)) <= 2 * allocs

List ==
  is_initialized =>
    /\ \E n \in 0 .. N : Spendable(n) /\ \E c \in [1 .. N -> Slots] : Stack(n, c)
    /\ \A s \in Slots : Listed(s) => content[s] # "dirty"

PoolInv == TypeInv /\ Startup /\ Handles /\ Carried /\ Tagged /\ Counted /\ List

-----------------------------------------------------------------------------
LEMMA Sizes == /\ N \in Nat \ {0} /\ MaxAllocs \in Nat
               /\ TagMod \in Nat /\ TagMod > 2 * MaxAllocs
               /\ GenMod \in Nat /\ GenMod > MaxAllocs
               /\ 0 \in Slots /\ Empty \notin Slots /\ Slots \subseteq Nat
               /\ Initializers \subseteq Threads
BY PoolAssumption DEF Slots, Empty

(* A tag that has not reached the end of its range is packed as it is. *)
LEMMA Packed ==
  ASSUME NEW i \in Indices, NEW g \in Nat
  PROVE  /\ pack_head(i, g) \in Heads /\ pack_head(i, g).index = i
         /\ g < TagMod => pack_head(i, g).tag = g
<1>1. g % TagMod \in Nat /\ (g < TagMod => g % TagMod = g)
  <2>1. TagMod \in Nat \ {0}
    BY Sizes
  <2> QED
    BY <2>1
<1> QED
  BY <1>1 DEF pack_head, Heads

(* The heads and owners of fresh locals. *)
LEMMA Fresh == pack_head(0, 0) \in Heads /\ Unclaimed \in Owners /\ Empty \in Indices /\ 0 \in Indices
<1>1. 0 \in Indices
  BY Sizes DEF Indices
<1> QED
  BY <1>1, Packed DEF Unclaimed, Owners, Indices

(* How many calls are at given steps, after one thread has moved. *)
LEMMA CallsAfter ==
  ASSUME NEW S, NEW t \in Threads, NEW x, pc \in [Threads -> Steps],
         pc' = [pc EXCEPT ![t] = x], IsFiniteSet(Calls(S))
  PROVE  /\ IsFiniteSet(Calls(S)') /\ Cardinality(Calls(S)') \in Nat
         /\ Cardinality(Calls(S)) \in Nat
         /\ Cardinality(Calls(S)') + (IF pc[t] \in S THEN 1 ELSE 0)
              = Cardinality(Calls(S)) + (IF x \in S THEN 1 ELSE 0)
<1> DEFINE C == Calls(S)
           D == Calls(S) \ {t}
<1>1. IsFiniteSet(D) /\ Cardinality(D) = IF t \in C THEN Cardinality(C) - 1 ELSE Cardinality(C)
  BY FS_RemoveElement
<1>2. /\ IsFiniteSet(D \cup {t})
      /\ Cardinality(D \cup {t}) = Cardinality(D) + 1
  BY <1>1, FS_AddElement
<1>3. Calls(S)' = IF x \in S THEN D \cup {t} ELSE D
  BY DEF Calls
<1>4. t \in C <=> pc[t] \in S
  BY DEF Calls
<1>5. Cardinality(C) \in Nat /\ Cardinality(D) \in Nat /\ Cardinality(D \cup {t}) \in Nat
  BY <1>1, <1>2, FS_CardinalityType
<1> HIDE DEF C, D
<1>6. CASE x \in S
  BY <1>1, <1>2, <1>3, <1>4, <1>5, <1>6 DEF C
<1>7. CASE x \notin S
  BY <1>1, <1>2, <1>3, <1>4, <1>5, <1>7 DEF C
<1> QED
  BY <1>6, <1>7

-----------------------------------------------------------------------------
LEMMA ReturnTypes ==
  ASSUME TypeInv, NEW t \in Threads, Return(t)
  PROVE  /\ pc' \in [Threads -> Steps] /\ observed' \in [Threads -> Heads]
         /\ next_index' \in [Threads -> Indices] /\ slot' \in [Threads -> Slots]
         /\ seen' \in [Threads -> Owners]
BY Sizes, Fresh DEF TypeInv, Return, Goto, Steps

LEMMA InitTypes ==
  ASSUME TypeInv, NEW t \in Initializers, init(t)
  PROVE  TypeInv'
<1> t \in Threads
  BY Sizes
<1>1. CASE InitEnter(t)
  BY <1>1 DEF InitEnter, TypeInv, Goto, Steps, InitSteps, shared, locals, ghosts
<1>2. CASE InitClaim(t)
  BY <1>2 DEF InitClaim, TypeInv, Goto, Steps, InitSteps, locals, ghosts
<1>3. CASE InitSlots(t)
  <2>1. next' \in [Slots -> Indices]
    BY <1>3, Sizes DEF InitSlots, Slots, Indices
  <2>2. ownership' \in [Slots -> Owners]
    BY <1>3, Fresh DEF InitSlots
  <2> QED
    BY <1>3, <2>1, <2>2 DEF InitSlots, TypeInv, Goto, Steps, InitSteps, locals, ghosts
<1>4. CASE InitHead(t)
  BY <1>4, Fresh DEF InitHead, TypeInv, Goto, Steps, InitSteps, locals, ghosts
<1>5. CASE InitReady(t)
  BY <1>5 DEF InitReady, TypeInv, Goto, Steps, InitSteps, locals, ghosts
<1>6. CASE InitRelease(t)
  BY <1>6, Zenon DEF InitRelease, TypeInv, Goto, Steps, InitSteps, locals, ghosts
<1> QED
  BY <1>1, <1>2, <1>3, <1>4, <1>5, <1>6 DEF init

LEMMA ObserveTypes ==
  ASSUME TypeInv, NEW t \in Threads, AllocObserve(t)
  PROVE  /\ pc' \in [Threads -> Steps] /\ observed' \in [Threads -> Heads]
         /\ next_index' \in [Threads -> Indices] /\ slot' \in [Threads -> Slots]
         /\ seen' \in [Threads -> Owners]
<1>1. CASE free_list_head.index = Empty
  BY <1>1, ReturnTypes DEF AllocObserve
<1>2. CASE free_list_head.index # Empty
  BY <1>2 DEF AllocObserve, TypeInv, Goto, Steps, Trying
<1> QED
  BY <1>1, <1>2

(* What the slot taken off the list, and the handle made of it, are. *)
LEMMA AllocTypes ==
  ASSUME TypeInv, Tagged, NEW t \in Threads, allocate(t)
  PROVE  TypeInv'
<1> USE Sizes
<1>1. CASE AllocEnter(t)
  <2>1. allocs' \in 0 .. MaxAllocs
    BY <1>1 DEF AllocEnter, TypeInv
  <2> QED
    BY <1>1, <2>1, ObserveTypes DEF AllocEnter, TypeInv, shared
<1>2. CASE AllocNext(t)
  <2>1. observed[t].index \in Slots
    BY <1>2 DEF AllocNext, TypeInv, Tagged, Trying, Heads, Indices
  <2> QED
    BY <1>2, <2>1, Zenon DEF AllocNext, TypeInv, Goto, Steps, Trying, shared, ghosts
<1>3. CASE AllocCas(t)
  <2>1. observed[t].index \in Slots
    BY <1>3 DEF AllocCas, TypeInv, Tagged, Trying, Heads, Indices
  <2>2. observed[t].tag + 1 \in Nat /\ next_index[t] \in Indices
    BY <1>3 DEF AllocCas, TypeInv, Heads
  <2>3. free_list_head' \in Heads
    BY <1>3, <2>2, Packed DEF AllocCas
  <2> QED
    BY <1>3, <2>1, <2>3 DEF AllocCas, TypeInv, Goto, Steps, Claiming, ghosts
<1>4. CASE AllocRetry(t)
  BY <1>4, ObserveTypes DEF AllocRetry, TypeInv, shared, ghosts
<1>5. CASE AllocSeen(t)
  BY <1>5, Zenon DEF AllocSeen, TypeInv, Goto, Steps, Claiming, shared, ghosts
<1>6. CASE AllocOwn(t)
  <2> DEFINE g == (seen[t].generation + 1) % GenMod
  <2>1. g \in Nat
    <3>1. GenMod \in Nat \ {0} /\ seen[t].generation + 1 \in Nat
      BY DEF TypeInv, Owners
    <3> QED
      BY <3>1
  <2>2. slot[t] \in Slots
    BY DEF TypeInv
  <2>3. CASE ownership[slot[t]] = seen[t]
    <3> /\ ownership' = [ownership EXCEPT ![slot[t]] = [allocated |-> TRUE, generation |-> g]]
        /\ issued' = issued \cup {<<slot[t], g>>}
        /\ owned' = [owned EXCEPT ![t] = @ \cup {<<slot[t], g>>}]
      BY <1>6, <2>3 DEF AllocOwn
    <3> HIDE DEF g
    <3>1. [allocated |-> TRUE, generation |-> g] \in Owners
      BY <2>1 DEF Owners
    <3>2. ownership' \in [Slots -> Owners]
      BY <2>2, <3>1 DEF TypeInv
    <3>3. issued' \subseteq Slots \X Nat
      BY <2>1, <2>2 DEF TypeInv
    <3>4. owned' \in [Threads -> SUBSET issued']
      BY DEF TypeInv
    <3> QED
      BY <1>6, <3>2, <3>3, <3>4, ReturnTypes DEF AllocOwn, TypeInv
  <2>4. CASE ownership[slot[t]] # seen[t]
    BY <1>6, <2>4, ReturnTypes DEF AllocOwn, TypeInv
  <2> QED
    BY <2>3, <2>4
<1> QED
  BY <1>1, <1>2, <1>3, <1>4, <1>5, <1>6 DEF allocate

(* Releasing a slot keeps its generation. *)
LEMMA Released ==
  ASSUME NEW h \in Slots \X Nat, ownership \in [Slots -> Owners],
         ownership[h[1]] = [allocated |-> TRUE, generation |-> h[2]]
  PROVE  [ownership EXCEPT ![h[1]].allocated = FALSE]
           = [ownership EXCEPT ![h[1]] = [allocated |-> FALSE, generation |-> h[2]]]
<1>1. PICK r \in Owners : r = ownership[h[1]]
  OBVIOUS
<1>2. r.generation = h[2]
  BY <1>1
<1>3. PICK q : q = [r EXCEPT !.allocated = FALSE]
  BY Zenon
<1>4. q \in Owners /\ q.allocated = FALSE /\ q.generation = r.generation
  BY <1>1, <1>3, Zenon DEF Owners
<1>5. q = [allocated |-> q.allocated, generation |-> q.generation]
  BY <1>4 DEF Owners
<1> QED
  BY <1>1, <1>2, <1>3, <1>4, <1>5, Zenon

LEMMA FreeTypes ==
  ASSUME TypeInv, NEW t \in Threads, free(t)
  PROVE  TypeInv'
<1>1. ASSUME NEW h \in issued, FreeEnter(t, h)
      PROVE  TypeInv'
  <2>1. h[1] \in Slots
    BY DEF TypeInv
  <2>2. CASE ownership[h[1]] = [allocated |-> TRUE, generation |-> h[2]]
    <3>1. ownership' \in [Slots -> Owners]
      <4>1. h \in Slots \X Nat /\ ownership \in [Slots -> Owners]
        BY DEF TypeInv
      <4>2. ownership' = [ownership EXCEPT ![h[1]] = [allocated |-> FALSE, generation |-> h[2]]]
        BY <1>1, <2>2, <4>1, Released DEF FreeEnter
      <4>3. [allocated |-> FALSE, generation |-> h[2]] \in Owners
        BY <4>1 DEF Owners
      <4> QED
        BY <4>1, <4>2, <4>3
    <3>2. owned' \in [Threads -> SUBSET issued']
      BY <1>1, <2>2 DEF FreeEnter, TypeInv
    <3> QED
      BY <1>1, <2>1, <2>2, <3>1, <3>2 DEF FreeEnter, TypeInv, Goto, Steps, Freeing
  <2>3. CASE ownership[h[1]] # [allocated |-> TRUE, generation |-> h[2]]
    BY <1>1, <2>3 DEF FreeEnter, TypeInv
  <2> QED
    BY <2>2, <2>3
<1>2. CASE FreeZero(t)
  BY <1>2 DEF FreeZero, TypeInv, Goto, Steps, Freeing, locals, ghosts
<1>3. CASE FreeLoad(t) \/ FreeRetry(t)
  BY <1>3 DEF FreeLoad, FreeRetry, FreeObserve, TypeInv, Goto, Steps, Freeing, shared, ghosts
<1>4. CASE FreeLink(t)
  <2>1. observed[t].index \in Indices
    BY DEF TypeInv, Heads
  <2> QED
    BY <1>4, <2>1 DEF FreeLink, TypeInv, Goto, Steps, Freeing, locals, ghosts
<1>5. CASE FreeCas(t)
  <2>1. observed[t].tag + 1 \in Nat /\ slot[t] \in Indices
    BY DEF TypeInv, Heads, Indices
  <2>2. free_list_head' \in Heads
    BY <1>5, <2>1, Packed DEF FreeCas
  <2> QED
    BY <1>5, <2>2, ReturnTypes DEF FreeCas, TypeInv, ghosts
<1> QED
  BY <1>1, <1>2, <1>3, <1>4, <1>5 DEF free

LEMMA UseTypes ==
  ASSUME TypeInv, NEW t \in Threads, UseBuffer(t)
  PROVE  TypeInv'
<1>1. PICK h \in owned[t] : content' = [content EXCEPT ![h[1]] = "dirty"]
  BY Zenon DEF UseBuffer
<1>2. h[1] \in Slots
  BY <1>1 DEF TypeInv
<1> QED
  BY <1>1, <1>2 DEF UseBuffer, TypeInv, locals, ghosts

-----------------------------------------------------------------------------
(* A step of thread t leaves the calls of the others where they are. *)
Aside(t) ==
  \A u \in Threads \ {t} :
    /\ pc'[u] = pc[u] /\ observed'[u] = observed[u] /\ next_index'[u] = next_index[u]
    /\ slot'[u] = slot[u] /\ seen'[u] = seen[u]

LEMMA InitAside ==
  ASSUME TypeInv, NEW t \in Threads, init(t)
  PROVE  Aside(t)
BY DEF TypeInv, Aside, Goto, locals, init, InitEnter, InitClaim, InitSlots, InitHead,
       InitReady, InitRelease

LEMMA AllocAside ==
  ASSUME TypeInv, NEW t \in Threads, allocate(t)
  PROVE  Aside(t)
<1>1. ASSUME AllocObserve(t)
      PROVE  Aside(t)
  BY <1>1 DEF TypeInv, Aside, Goto, AllocObserve, Return
<1>2. CASE AllocEnter(t) \/ AllocRetry(t)
  BY <1>1, <1>2 DEF AllocEnter, AllocRetry
<1>3. CASE AllocNext(t) \/ AllocCas(t) \/ AllocSeen(t)
  BY <1>3 DEF TypeInv, Aside, Goto, AllocNext, AllocCas, AllocSeen
<1>4. CASE AllocOwn(t)
  BY <1>4 DEF TypeInv, Aside, Goto, Return, AllocOwn
<1> QED
  BY <1>2, <1>3, <1>4 DEF allocate

LEMMA FreeAside ==
  ASSUME TypeInv, NEW t \in Threads, free(t)
  PROVE  Aside(t)
<1>1. CASE \E h \in issued : FreeEnter(t, h)
  BY <1>1 DEF TypeInv, Aside, Goto, FreeEnter
<1>2. CASE FreeZero(t) \/ FreeLoad(t) \/ FreeLink(t) \/ FreeRetry(t)
  BY <1>2 DEF TypeInv, Aside, Goto, locals, FreeZero, FreeLoad, FreeLink, FreeRetry, FreeObserve
<1>3. CASE FreeCas(t)
  BY <1>3 DEF TypeInv, Aside, Goto, Return, FreeCas
<1> QED
  BY <1>1, <1>2, <1>3 DEF free

(* Calls of allocate and free, and live handles, exist only once init is over. *)
LEMMA Running ==
  ASSUME PoolInv, NEW t \in Threads, allocate(t) \/ UseBuffer(t) \/ free(t)
  PROVE  is_initialized /\ is_initialized'
<1>1. CASE pc[t] \notin InitSteps \cup {"idle"}
  <2>1. is_initialized
    BY <1>1 DEF PoolInv, Startup
  <2> QED
    BY <2>1, Zenon DEF allocate, UseBuffer, free, AllocEnter, AllocNext, AllocCas, AllocRetry,
            AllocSeen, AllocOwn, FreeEnter, FreeZero, FreeLoad, FreeLink, FreeCas, FreeRetry,
            FreeObserve, shared
<1>2. CASE UseBuffer(t)
  <2>1. issued # {}
    BY <1>2 DEF UseBuffer, PoolInv, TypeInv
  <2> QED
    BY <1>2, <2>1 DEF UseBuffer, PoolInv, Startup
<1>3. CASE AllocEnter(t) \/ \E h \in issued : FreeEnter(t, h)
  <2>1. CASE AllocEnter(t)
    BY <2>1, Zenon DEF AllocEnter, shared
  <2>2. ASSUME NEW h \in issued, FreeEnter(t, h)
        PROVE  is_initialized /\ is_initialized'
    BY <2>2, Zenon DEF FreeEnter
  <2> QED
    BY <1>3, <2>1, <2>2
<1>4. CASE ~UseBuffer(t) /\ ~AllocEnter(t) /\ ~(\E h \in issued : FreeEnter(t, h))
  <2>1. pc[t] \in Trying \cup Claiming \cup Freeing
    BY <1>4 DEF allocate, free, AllocNext, AllocCas, AllocRetry, AllocSeen, AllocOwn,
            FreeZero, FreeLoad, FreeLink, FreeCas, FreeRetry, Trying, Claiming, Freeing
  <2>2. pc[t] \notin InitSteps \cup {"idle"}
    BY <2>1 DEF InitSteps, Trying, Claiming, Freeing
  <2> QED
    BY <1>1, <2>2
<1> QED
  BY <1>2, <1>3, <1>4

LEMMA StartupKept ==
  ASSUME PoolInv, NEW t \in Threads, Aside(t), is_initialized, is_initialized',
         pc'[t] \notin InitSteps \/ pc'[t] = pc[t]
  PROVE  Startup'
<1>1. ASSUME NEW u \in Threads, pc'[u] \in InitSteps
      PROVE  u \in Initializers /\ pc'[u] = "init_release"
  <2>1. pc'[u] = pc[u]
    BY <1>1 DEF Aside
  <2>2. /\ pc[u] \in InitSteps => u \in Initializers
        /\ pc[u] \in InitSteps \ {"init_release"} => ~is_initialized
    BY DEF PoolInv, Startup
  <2> QED
    BY <1>1, <2>1, <2>2
<1> QED
  BY <1>1 DEF Startup, InitSteps

LEMMA HandlesKept ==
  ASSUME Handles, UNCHANGED <<ownership, issued, owned>>
  PROVE  Handles'
BY DEF Handles

LEMMA CarriedKept ==
  ASSUME Carried, NEW t \in Threads, Aside(t),
         \A u \in Threads \ {t} : Carries(u) =>
           /\ ownership'[slot[u]] = ownership[slot[u]]
           /\ next'[slot[u]] = next[slot[u]]
           /\ content'[slot[u]] = content[slot[u]]
           /\ Carries(t)' => slot'[t] # slot[u],
         Carries(t)' => /\ ~ownership'[slot'[t]].allocated
                        /\ pc'[t] = "free_zero" \/ content'[slot'[t]] # "dirty",
         pc'[t] = "alloc_own" => seen'[t] = ownership'[slot'[t]],
         pc'[t] = "free_cas" => next'[slot'[t]] = observed'[t].index
  PROVE  Carried'
<1> SUFFICES ASSUME NEW u \in Threads
             PROVE  /\ Carries(u)' => /\ ~ownership'[slot'[u]].allocated
                                      /\ \A v \in Threads : Carries(v)' /\ slot'[v] = slot'[u] => v = u
                                      /\ pc'[u] = "free_zero" \/ content'[slot'[u]] # "dirty"
                    /\ pc'[u] = "alloc_own" => seen'[u] = ownership'[slot'[u]]
                    /\ pc'[u] = "free_cas" => next'[slot'[u]] = observed'[u].index
  BY DEF Carried
<1>1. \A v \in Threads \ {t} : /\ Carries(v)' <=> Carries(v)
                               /\ Carries(v) => slot'[v] = slot[v]
  BY DEF Aside, Carries
<1>2. /\ pc[u] = "alloc_own" => Carries(u)
      /\ pc[u] = "free_cas" => Carries(u)
  BY DEF Carries, Claiming, Freeing
<1>3. CASE u = t
  BY <1>1, <1>3
<1>4. CASE u # t
  <2>1. /\ pc'[u] = pc[u] /\ seen'[u] = seen[u] /\ slot'[u] = slot[u] /\ observed'[u] = observed[u]
    BY <1>4 DEF Aside
  <2>2. /\ Carries(u) => /\ ~ownership[slot[u]].allocated
                         /\ \A v \in Threads : Carries(v) /\ slot[v] = slot[u] => v = u
                         /\ pc[u] = "free_zero" \/ content[slot[u]] # "dirty"
        /\ pc[u] = "alloc_own" => seen[u] = ownership[slot[u]]
        /\ pc[u] = "free_cas" => next[slot[u]] = observed[u].index
    BY DEF Carried
  <2> QED
    BY <1>1, <1>2, <1>4, <2>1, <2>2
<1> QED
  BY <1>3, <1>4

(* The head stands: what the others observed stays true of it. *)
LEMMA TaggedKept ==
  ASSUME Tagged, NEW t \in Threads, Aside(t), free_list_head' = free_list_head,
         free_list_head.index # Empty => next'[free_list_head.index] = next[free_list_head.index],
         pc'[t] \in Trying \cup {"free_link", "free_cas"} =>
           /\ observed'[t].tag <= free_list_head.tag
           /\ observed'[t].tag = free_list_head.tag => observed'[t] = free_list_head,
         pc'[t] \in Trying => observed'[t].index # Empty,
         pc'[t] = "alloc_cas" /\ observed'[t] = free_list_head =>
           next_index'[t] = next'[observed'[t].index]
  PROVE  Tagged'
<1> SUFFICES ASSUME NEW u \in Threads
             PROVE  /\ pc'[u] \in Trying \cup {"free_link", "free_cas"} =>
                         /\ observed'[u].tag <= free_list_head.tag
                         /\ observed'[u].tag = free_list_head.tag => observed'[u] = free_list_head
                    /\ pc'[u] \in Trying => observed'[u].index # Empty
                    /\ pc'[u] = "alloc_cas" /\ observed'[u] = free_list_head =>
                         next_index'[u] = next'[observed'[u].index]
  BY DEF Tagged
<1>1. CASE u = t
  BY <1>1
<1>2. CASE u # t
  <2>1. pc'[u] = pc[u] /\ observed'[u] = observed[u] /\ next_index'[u] = next_index[u]
    BY <1>2 DEF Aside
  <2>2. pc[u] = "alloc_cas" => pc[u] \in Trying
    BY DEF Trying
  <2> QED
    BY <2>1, <2>2 DEF Tagged
<1> QED
  BY <1>1, <1>2

(* The head is replaced under a higher tag: no observation matches it. *)
LEMMA TaggedBump ==
  ASSUME TypeInv, Tagged, NEW t \in Threads, Aside(t),
         free_list_head'.tag = free_list_head.tag + 1,
         pc'[t] \notin Trying \cup {"free_link", "free_cas"}
  PROVE  Tagged'
<1> SUFFICES ASSUME NEW u \in Threads
             PROVE  /\ pc'[u] \in Trying \cup {"free_link", "free_cas"} =>
                         /\ observed'[u].tag <= free_list_head'.tag
                         /\ observed'[u].tag = free_list_head'.tag => observed'[u] = free_list_head'
                    /\ pc'[u] \in Trying => observed'[u].index # Empty
                    /\ pc'[u] = "alloc_cas" /\ observed'[u] = free_list_head' =>
                         next_index'[u] = next'[observed'[u].index]
  BY DEF Tagged
<1>0. pc'[u] = "alloc_cas" => pc'[u] \in Trying
  BY DEF Trying
<1>1. CASE u = t
  BY <1>0, <1>1
<1>2. CASE u # t
  <2>1. pc'[u] = pc[u] /\ observed'[u] = observed[u]
    BY <1>2 DEF Aside
  <2>2. observed[u].tag \in Nat /\ free_list_head.tag \in Nat
    BY DEF TypeInv, Heads
  <2>3. /\ pc[u] \in Trying \cup {"free_link", "free_cas"} => observed[u].tag <= free_list_head.tag
        /\ pc[u] \in Trying => observed[u].index # Empty
    BY DEF Tagged
  <2>4. pc[u] \in Trying \cup {"free_link", "free_cas"} =>
          /\ observed[u].tag <= free_list_head'.tag /\ observed[u].tag # free_list_head'.tag
    BY <2>2, <2>3
  <2> QED
    BY <1>0, <2>1, <2>3, <2>4
<1> QED
  BY <1>1, <1>2

LEMMA CountedKept ==
  ASSUME PoolInv, NEW t \in Threads, NEW x, Goto(t, x),
         \A s \in Slots : ownership'[s].generation = ownership[s].generation,
         \/ allocs' = allocs /\ (x \in Trying \cup Claiming => pc[t] \in Trying \cup Claiming)
         \/ allocs' = allocs + 1
  PROVE  Counted'
<1> DEFINE A == Calls(Trying \cup Claiming)
<1>0. pc \in [Threads -> Steps] /\ allocs \in Nat
  BY Sizes DEF PoolInv, TypeInv
<1>1. IsFiniteSet(Calls(Trying)')
  BY <1>0, CallsAfter, Zenon DEF PoolInv, Counted, Goto
<1>2. /\ IsFiniteSet(A') /\ Cardinality(A') \in Nat /\ Cardinality(A) \in Nat
      /\ Cardinality(A') + (IF pc[t] \in Trying \cup Claiming THEN 1 ELSE 0)
           = Cardinality(A) + (IF x \in Trying \cup Claiming THEN 1 ELSE 0)
  BY <1>0, CallsAfter, Zenon DEF PoolInv, Counted, Goto
<1>3. \A s \in Slots : /\ ownership[s].generation \in Nat
                       /\ ownership[s].generation + Cardinality(A) <= allocs
  BY Zenon DEF PoolInv, TypeInv, Owners, Counted
<1> HIDE DEF A
<1>4. Cardinality(A') - allocs' <= Cardinality(A) - allocs
  BY <1>0, <1>2
<1>5. \A s \in Slots : ownership'[s].generation + Cardinality(A') <= allocs'
  BY <1>0, <1>2, <1>3, <1>4
<1> QED
  BY <1>1, <1>2, <1>5, Zenon DEF Counted, A

(* Nothing is taken from the list or put on it. *)
LEMMA ListStands ==
  ASSUME PoolInv, NEW t \in Threads, NEW x, Goto(t, x), is_initialized,
         free_list_head' = free_list_head,
         \A s \in Slots : Listed(s)' <=> Listed(s),
         \A s \in Slots : Listed(s) => next'[s] = next[s] /\ content'[s] = content[s],
         \/ allocs' = allocs /\ (x \in Trying => pc[t] \in Trying)
         \/ allocs' = allocs + 1
  PROVE  List'
<1>1. \A s \in Slots : Listed(s)' => content'[s] # "dirty"
  BY DEF PoolInv, List
<1>2. PICK n \in 0 .. N : Spendable(n) /\ \E c \in [1 .. N -> Slots] : Stack(n, c)
  BY DEF PoolInv, List
<1>3. Spendable(n)'
  <2> DEFINE A == Calls(Trying)
  <2>1. /\ pc \in [Threads -> Steps] /\ allocs \in Nat /\ free_list_head.tag \in Nat
        /\ N \in Nat /\ n \in Nat
    BY Sizes DEF PoolInv, TypeInv, Heads
  <2>2. /\ Cardinality(A) \in Nat /\ Cardinality(A') \in Nat
        /\ Cardinality(A') + (IF pc[t] \in Trying THEN 1 ELSE 0) = Cardinality(A) + (IF x \in Trying THEN 1 ELSE 0)
    BY <2>1, CallsAfter, Zenon DEF PoolInv, Counted, Goto
  <2>3. free_list_head.tag + (N - n) + 2 * Cardinality(A) <= 2 * allocs
    BY <1>2 DEF Spendable
  <2> HIDE DEF A
  <2>4. /\ allocs' \in Nat
        /\ (Cardinality(A') <= Cardinality(A) /\ allocs' = allocs) \/ (Cardinality(A') <= Cardinality(A) + 1 /\ allocs' = allocs + 1)
    <3>1. CASE allocs' = allocs + 1
      BY <2>1, <2>2, <3>1
    <3>2. CASE allocs' = allocs /\ (x \in Trying => pc[t] \in Trying)
      BY <2>1, <2>2, <3>2
    <3> QED
      BY <3>1, <3>2
  <2>5. free_list_head'.tag + (N - n) + 2 * Cardinality(A') <= 2 * allocs'
    <3>1. free_list_head'.tag = free_list_head.tag
      OBVIOUS
    <3> QED
      BY <2>1, <2>2, <2>3, <2>4, <3>1
  <2> QED
    BY <2>5 DEF Spendable, A
<1>4. PICK c \in [1 .. N -> Slots] : Stack(n, c)
  BY <1>2
<1>5. Stack(n, c)'
  <2>1. \A i \in 1 .. n : c[i] \in Slots
    <3>1. N \in Int /\ n \in Int /\ n <= N
      BY Sizes
    <3>2. \A i \in 1 .. n : i \in 1 .. N
      BY <3>1
    <3> QED
      BY <3>2
  <2>2. \A i \in 1 .. n : Listed(c[i])
    BY <1>4, <2>1 DEF Stack
  <2>3. \A i \in 1 .. n : next'[c[i]] = next[c[i]]
    BY <2>1, <2>2
  <2> QED
    BY <1>4, <2>3 DEF Stack
<1> QED
  BY <1>1, <1>3, <1>5 DEF List

LEMMA ListKept ==
  ASSUME PoolInv, NEW t \in Threads, NEW x, Goto(t, x), Aside(t), is_initialized,
         free_list_head' = free_list_head,
         \A s \in Slots : ownership'[s] = ownership[s],
         Carries(t)' <=> Carries(t), Carries(t) => slot'[t] = slot[t],
         \A s \in Slots : Listed(s) => next'[s] = next[s] /\ content'[s] = content[s],
         \/ allocs' = allocs /\ (x \in Trying => pc[t] \in Trying)
         \/ allocs' = allocs + 1
  PROVE  List'
<1>1. \A u \in Threads : /\ Carries(u)' <=> Carries(u)
                         /\ Carries(u) => slot'[u] = slot[u]
  BY DEF Aside, Carries
<1>2. ASSUME NEW s \in Slots
      PROVE  Listed(s)' <=> Listed(s)
  <2>1. ownership'[s].allocated = ownership[s].allocated
    OBVIOUS
  <2>2. (\A u \in Threads : ~(Carries(u)' /\ slot'[u] = s))
          <=> (\A u \in Threads : ~(Carries(u) /\ slot[u] = s))
    BY <1>1
  <2> QED
    BY <2>1, <2>2, Zenon DEF Listed
<1> QED
  BY <1>2, ListStands

-----------------------------------------------------------------------------
(* The steps of allocate and free that change nothing but the caller's locals. *)
LEMMA QuietKeeps ==
  ASSUME PoolInv, TypeInv', NEW t \in Threads, NEW x, Goto(t, x), Aside(t), is_initialized,
         UNCHANGED <<is_initialized, free_list_head, next, ownership, content, issued, owned>>,
         x \notin InitSteps \cup {"free_zero", "free_cas"}, pc[t] # "free_zero",
         Carries(t)' <=> Carries(t), Carries(t) => slot'[t] = slot[t],
         x = "alloc_own" => seen'[t] = ownership[slot'[t]],
         x \in Trying \cup {"free_link"} =>
           \/ observed'[t] = free_list_head
           \/ pc[t] = "alloc_next" /\ observed'[t] = observed[t],
         x \in Trying => observed'[t].index # Empty,
         x = "alloc_cas" => next_index'[t] = next[observed'[t].index],
         \/ /\ allocs' = allocs
            /\ x \in Trying => pc[t] \in Trying
            /\ x \in Trying \cup Claiming => pc[t] \in Trying \cup Claiming
         \/ allocs' = allocs + 1
  PROVE  PoolInv'
<1>1. pc'[t] = x
  BY DEF PoolInv, TypeInv, Goto
<1>2. Startup'
  BY <1>1, StartupKept, Zenon
<1>3. Handles'
  BY HandlesKept DEF PoolInv
<1>4. Carried'
  <2>1. Carries(t)' => /\ ~ownership[slot'[t]].allocated
                       /\ content[slot'[t]] # "dirty"
    BY DEF PoolInv, Carried
  <2>2. \A u \in Threads \ {t} : Carries(u) /\ Carries(t)' => slot'[t] # slot[u]
    BY DEF PoolInv, Carried
  <2> QED
    BY <1>1, <2>1, <2>2, CarriedKept DEF PoolInv
<1>5. Tagged'
  <2>1. x \in Trying \cup {"free_link"} =>
          /\ observed'[t].tag <= free_list_head.tag
          /\ observed'[t].tag = free_list_head.tag => observed'[t] = free_list_head
    <3>1. free_list_head.tag \in Nat
      BY DEF PoolInv, TypeInv, Heads
    <3>2. CASE observed'[t] = free_list_head
      BY <3>1, <3>2
    <3>3. CASE pc[t] = "alloc_next" /\ observed'[t] = observed[t]
      BY <3>3 DEF PoolInv, Tagged, Trying
    <3> QED
      BY <3>2, <3>3
  <2>2. x \in Trying \cup {"free_link", "free_cas"} => x \in Trying \cup {"free_link"}
    OBVIOUS
  <2> QED
    BY <1>1, <2>1, <2>2, TaggedKept DEF PoolInv
<1>6. Counted'
  BY CountedKept
<1>7. List'
  BY ListKept
<1> QED
  BY <1>2, <1>3, <1>4, <1>5, <1>6, <1>7 DEF PoolInv

LEMMA AllocObserveKeeps ==
  ASSUME PoolInv, TypeInv', NEW t \in Threads, AllocObserve(t), Aside(t), is_initialized,
         UNCHANGED <<shared, issued, owned>>,
         \/ pc[t] = "idle" /\ allocs' = allocs + 1
         \/ pc[t] = "alloc_cas" /\ allocs' = allocs
  PROVE  PoolInv'
<1>0. /\ UNCHANGED <<is_initialized, free_list_head, next, ownership, content, issued, owned>>
      /\ pc[t] # "free_zero" /\ ~Carries(t) /\ (pc[t] = "alloc_cas" => pc[t] \in Trying)
  BY DEF shared, Carries, Claiming, Freeing, Trying
<1>1. CASE free_list_head.index = Empty
  <2>1. Goto(t, "idle") /\ pc'[t] = "idle"
    BY <1>1 DEF AllocObserve, Return, Goto, PoolInv, TypeInv
  <2>2. ~Carries(t)' /\ "idle" \notin InitSteps \cup Trying \cup Claiming \cup {"free_zero", "free_cas", "free_link"}
    BY <2>1 DEF Carries, InitSteps, Trying, Claiming, Freeing
  <2> QED
    BY <1>0, <2>1, <2>2, QuietKeeps
<1>2. CASE free_list_head.index # Empty
  <2>1. /\ Goto(t, "alloc_next") /\ pc'[t] = "alloc_next" /\ observed'[t] = free_list_head
    BY <1>2 DEF AllocObserve, Goto, PoolInv, TypeInv
  <2>2. ~Carries(t)' /\ "alloc_next" \notin InitSteps \cup Claiming \cup {"free_zero", "free_cas", "free_link"}
    BY <2>1 DEF Carries, InitSteps, Claiming, Freeing
  <2>3. \/ /\ allocs' = allocs
           /\ "alloc_next" \in Trying => pc[t] \in Trying
           /\ "alloc_next" \in Trying \cup Claiming => pc[t] \in Trying \cup Claiming
        \/ allocs' = allocs + 1
    BY <1>0
  <2> QED
    BY <1>0, <1>2, <2>1, <2>2, <2>3, QuietKeeps
<1> QED
  BY <1>1, <1>2

LEMMA AllocNextKeeps ==
  ASSUME PoolInv, TypeInv', NEW t \in Threads, AllocNext(t), Aside(t), is_initialized
  PROVE  PoolInv'
<1>1. /\ UNCHANGED <<is_initialized, free_list_head, next, ownership, content, issued, owned>>
      /\ pc[t] = "alloc_next" /\ Goto(t, "alloc_cas") /\ allocs' = allocs
      /\ observed'[t] = observed[t]
  BY DEF AllocNext, shared, ghosts
<1>2. pc'[t] = "alloc_cas" /\ next_index'[t] = next[observed[t].index]
  BY DEF AllocNext, Goto, PoolInv, TypeInv
<1>3. /\ ~Carries(t) /\ ~Carries(t)'
      /\ "alloc_cas" \notin InitSteps \cup {"free_zero", "free_cas"} /\ pc[t] \in Trying
  BY <1>1, <1>2 DEF Carries, InitSteps, Claiming, Freeing, Trying
<1>4. observed'[t].index # Empty
  BY <1>1, <1>3 DEF PoolInv, Tagged
<1> QED
  BY <1>1, <1>2, <1>3, <1>4, QuietKeeps, Zenon

LEMMA AllocSeenKeeps ==
  ASSUME PoolInv, TypeInv', NEW t \in Threads, AllocSeen(t), Aside(t), is_initialized
  PROVE  PoolInv'
<1>1. /\ UNCHANGED <<is_initialized, free_list_head, next, ownership, content, issued, owned>>
      /\ pc[t] = "alloc_seen" /\ Goto(t, "alloc_own") /\ allocs' = allocs /\ slot' = slot
  BY DEF AllocSeen, shared, ghosts
<1>2. pc'[t] = "alloc_own" /\ seen'[t] = ownership[slot[t]]
  BY DEF AllocSeen, Goto, PoolInv, TypeInv
<1>3. /\ Carries(t) /\ Carries(t)' /\ pc[t] \in Claiming
      /\ "alloc_own" \notin InitSteps \cup Trying \cup {"free_zero", "free_cas", "free_link"}
  BY <1>1, <1>2 DEF Carries, InitSteps, Claiming, Freeing, Trying
<1> QED
  BY <1>1, <1>2, <1>3, QuietKeeps

LEMMA FreeObserveKeeps ==
  ASSUME PoolInv, TypeInv', NEW t \in Threads, FreeObserve(t), Aside(t), is_initialized,
         pc[t] \in {"free_load", "free_cas"}
  PROVE  PoolInv'
<1>1. /\ UNCHANGED <<is_initialized, free_list_head, next, ownership, content, issued, owned>>
      /\ Goto(t, "free_link") /\ allocs' = allocs /\ slot' = slot
  BY DEF FreeObserve, shared, ghosts
<1>2. pc'[t] = "free_link" /\ observed'[t] = free_list_head
  BY DEF FreeObserve, Goto, PoolInv, TypeInv
<1>3. /\ Carries(t) /\ Carries(t)' /\ pc[t] # "free_zero"
      /\ "free_link" \notin InitSteps \cup Trying \cup Claiming \cup {"free_zero", "free_cas"}
  BY <1>1, <1>2 DEF Carries, InitSteps, Claiming, Freeing, Trying
<1> QED
  BY <1>1, <1>2, <1>3, QuietKeeps

LEMMA ReleaseKeeps ==
  ASSUME PoolInv, TypeInv', NEW t \in Threads, InitRelease(t), Aside(t), is_initialized
  PROVE  PoolInv'
<1>1. /\ UNCHANGED <<is_initialized, free_list_head, next, ownership, content, issued, owned>>
      /\ pc[t] = "init_release" /\ Goto(t, "idle") /\ allocs' = allocs /\ slot' = slot
  BY DEF InitRelease, locals, ghosts
<1>2. pc'[t] = "idle"
  BY <1>1 DEF Goto, PoolInv, TypeInv
<1>3. /\ ~Carries(t) /\ ~Carries(t)'
      /\ "idle" \notin InitSteps \cup Trying \cup Claiming \cup {"free_zero", "free_cas", "free_link"}
  BY <1>1, <1>2 DEF Carries, InitSteps, Claiming, Freeing, Trying
<1> QED
  BY <1>1, <1>2, <1>3, QuietKeeps

(* Clearing a freed slot, or writing to a live buffer, touches no other slot. *)
LEMMA FreeZeroKeeps ==
  ASSUME PoolInv, TypeInv', NEW t \in Threads, FreeZero(t), Aside(t), is_initialized
  PROVE  PoolInv'
<1>1. /\ UNCHANGED <<is_initialized, free_list_head, next, ownership, issued, owned>>
      /\ pc[t] = "free_zero" /\ Goto(t, "free_load") /\ allocs' = allocs /\ slot' = slot
  BY DEF FreeZero, locals, ghosts
<1>2. pc'[t] = "free_load" /\ slot[t] \in Slots
  BY <1>1 DEF Goto, PoolInv, TypeInv
<1>3. /\ Carries(t) /\ Carries(t)'
      /\ "free_load" \notin InitSteps \cup Trying \cup Claiming \cup {"free_cas", "free_link", "alloc_own", "alloc_cas"}
  BY <1>1, <1>2 DEF Carries, InitSteps, Claiming, Freeing, Trying
<1>4. /\ content'[slot[t]] = "zero"
      /\ \A s \in Slots : s # slot[t] => content'[s] = content[s]
  BY <1>2 DEF FreeZero, PoolInv, TypeInv
<1>5. Startup'
  BY <1>1, <1>2, <1>3, StartupKept
<1>6. Handles'
  BY <1>1, HandlesKept DEF PoolInv
<1>7. Carried'
  <2>1. \A u \in Threads \ {t} : Carries(u) => slot[u] # slot[t] /\ slot[u] \in Slots
    BY <1>3 DEF PoolInv, TypeInv, Carried
  <2>2. ~ownership'[slot'[t]].allocated
    BY <1>1, <1>3 DEF PoolInv, Carried
  <2> QED
    BY <1>1, <1>2, <1>3, <1>4, <2>1, <2>2, CarriedKept DEF PoolInv
<1>8. Tagged'
  BY <1>1, <1>2, <1>3, TaggedKept DEF PoolInv
<1>9. Counted'
  BY <1>1, <1>3, CountedKept
<1>10. List'
  <2>1. \A s \in Slots : Listed(s) => content'[s] = content[s]
    BY <1>3, <1>4 DEF Listed
  <2> QED
    BY <1>1, <1>3, <2>1, ListKept
<1> QED
  BY <1>5, <1>6, <1>7, <1>8, <1>9, <1>10 DEF PoolInv

LEMMA UseKeeps ==
  ASSUME PoolInv, TypeInv', NEW t \in Threads, UseBuffer(t), is_initialized
  PROVE  PoolInv'
<1>1. PICK h \in owned[t] : content' = [content EXCEPT ![h[1]] = "dirty"]
  BY Zenon DEF UseBuffer
<1>2. /\ UNCHANGED <<is_initialized, free_list_head, next, ownership, issued, owned, pc,
                     observed, next_index, slot, seen, allocs>>
  BY DEF UseBuffer, locals, ghosts
<1>3. h[1] \in Slots /\ ownership[h[1]].allocated
  <2>1. h \in issued
    BY <1>1 DEF PoolInv, TypeInv
  <2>2. h[1] \in Slots
    BY <2>1 DEF PoolInv, TypeInv
  <2>3. ownership[h[1]] = [allocated |-> TRUE, generation |-> h[2]]
    BY <1>1 DEF PoolInv, Handles
  <2> QED
    BY <2>2, <2>3
<1>4. \A s \in Slots : s # h[1] => content'[s] = content[s]
  BY <1>1, <1>3 DEF PoolInv, TypeInv
<1>5. Goto(t, pc[t]) /\ Aside(t) /\ (Carries(t)' <=> Carries(t))
  BY <1>2 DEF Goto, Aside, Carries, PoolInv, TypeInv
<1>6. Startup'
  BY <1>2, <1>5, StartupKept, Zenon
<1>7. Handles'
  BY <1>2, HandlesKept DEF PoolInv
<1>8. Carried'
  <2>1. \A u \in Threads : Carries(u) => content'[slot[u]] = content[slot[u]]
    BY <1>3, <1>4 DEF PoolInv, TypeInv, Carried
  <2>2. /\ Carries(t) => /\ ~ownership[slot[t]].allocated
                         /\ \A u \in Threads : Carries(u) /\ slot[u] = slot[t] => u = t
                         /\ pc[t] = "free_zero" \/ content[slot[t]] # "dirty"
        /\ pc[t] = "alloc_own" => seen[t] = ownership[slot[t]]
        /\ pc[t] = "free_cas" => next[slot[t]] = observed[t].index
    BY DEF PoolInv, Carried
  <2> QED
    BY <1>2, <1>5, <2>1, <2>2, CarriedKept, Zenon DEF PoolInv
<1>9. Tagged'
  BY <1>2 DEF PoolInv, Tagged
<1>10. Counted'
  BY <1>2, <1>5, CountedKept
<1>11. List'
  <2>1. \A s \in Slots : Listed(s) => content'[s] = content[s]
    BY <1>3, <1>4 DEF Listed
  <2> QED
    BY <1>2, <1>5, <2>1, ListKept
<1> QED
  BY <1>6, <1>7, <1>8, <1>9, <1>10, <1>11 DEF PoolInv

-----------------------------------------------------------------------------
(* The head of a list that is not empty is listed. *)
LEMMA HeadListed ==
  ASSUME PoolInv, is_initialized, free_list_head.index # Empty
  PROVE  free_list_head.index \in Slots /\ Listed(free_list_head.index)
<1>1. free_list_head.index \in Slots
  BY DEF PoolInv, TypeInv, Heads, Indices
<1>2. PICK n \in 0 .. N, c \in [1 .. N -> Slots] : Stack(n, c)
  BY DEF PoolInv, List
<1>3. n # 0 /\ free_list_head.index = c[n]
  BY <1>2, Zenon DEF Stack
<1>4. n \in 1 .. n
  BY <1>3, Sizes
<1> QED
  BY <1>1, <1>2, <1>3, <1>4, Zenon DEF Stack

LEMMA FreeLinkKeeps ==
  ASSUME PoolInv, TypeInv', NEW t \in Threads, FreeLink(t), Aside(t), is_initialized
  PROVE  PoolInv'
<1>1. /\ UNCHANGED <<is_initialized, free_list_head, ownership, content, issued, owned>>
      /\ pc[t] = "free_link" /\ Goto(t, "free_cas") /\ allocs' = allocs
      /\ slot' = slot /\ observed' = observed
  BY DEF FreeLink, locals, ghosts
<1>2. pc'[t] = "free_cas" /\ slot[t] \in Slots
  BY <1>1 DEF Goto, PoolInv, TypeInv
<1>3. /\ Carries(t) /\ Carries(t)'
      /\ "free_cas" \notin InitSteps \cup Trying \cup Claiming \cup {"alloc_own", "alloc_cas"}
  BY <1>1, <1>2 DEF Carries, InitSteps, Claiming, Freeing, Trying
<1>4. /\ next'[slot[t]] = observed[t].index
      /\ \A s \in Slots : s # slot[t] => next'[s] = next[s]
  BY <1>2 DEF FreeLink, PoolInv, TypeInv
<1>5. \A s \in Slots : Listed(s) => next'[s] = next[s]
  BY <1>3, <1>4 DEF Listed
<1>6. Startup'
  BY <1>1, <1>2, <1>3, StartupKept
<1>7. Handles'
  BY <1>1, HandlesKept DEF PoolInv
<1>8. Carried'
  <2>1. \A u \in Threads \ {t} : Carries(u) => slot[u] # slot[t] /\ slot[u] \in Slots
    BY <1>3 DEF PoolInv, TypeInv, Carried
  <2>2. ~ownership[slot[t]].allocated /\ content[slot[t]] # "dirty"
    BY <1>1, <1>3 DEF PoolInv, Carried
  <2> QED
    BY <1>1, <1>2, <1>3, <1>4, <2>1, <2>2, CarriedKept DEF PoolInv
<1>9. Tagged'
  <2>1. /\ observed[t].tag <= free_list_head.tag
        /\ observed[t].tag = free_list_head.tag => observed[t] = free_list_head
    BY <1>1, Zenon DEF PoolInv, Tagged
  <2>2. free_list_head.index # Empty => next'[free_list_head.index] = next[free_list_head.index]
    BY <1>5, HeadListed
  <2> QED
    BY <1>1, <1>2, <1>3, <2>1, <2>2, TaggedKept DEF PoolInv
<1>10. Counted'
  BY <1>1, <1>3, CountedKept
<1>11. List'
  BY <1>1, <1>3, <1>5, ListKept
<1> QED
  BY <1>6, <1>7, <1>8, <1>9, <1>10, <1>11 DEF PoolInv

(* Who carries what, after a step of t. *)
LEMMA ListedAfter ==
  ASSUME NEW t \in Threads, Aside(t), NEW s \in Slots
  PROVE  Listed(s)' <=> /\ ~ownership'[s].allocated /\ ~(Carries(t)' /\ slot'[t] = s)
                        /\ \A u \in Threads \ {t} : ~(Carries(u) /\ slot[u] = s)
<1>1. \A u \in Threads \ {t} : (Carries(u)' <=> Carries(u)) /\ slot'[u] = slot[u]
  BY DEF Aside, Carries
<1>2. (\A u \in Threads : ~(Carries(u)' /\ slot'[u] = s))
        <=> /\ ~(Carries(t)' /\ slot'[t] = s)
            /\ \A u \in Threads \ {t} : ~(Carries(u) /\ slot[u] = s)
  BY <1>1
<1> QED
  BY <1>2, Zenon DEF Listed

(* The handle is spent, and its slot is the freeing thread's. *)
LEMMA FreeEnterKeeps ==
  ASSUME PoolInv, TypeInv', NEW t \in Threads, NEW h \in issued, FreeEnter(t, h), Aside(t),
         is_initialized
  PROVE  PoolInv'
<1>1. CASE ownership[h[1]] # [allocated |-> TRUE, generation |-> h[2]]
  <2>1. UNCHANGED <<is_initialized, free_list_head, next, ownership, content, pc, observed,
                    next_index, slot, seen, issued, owned, allocs>>
    BY <1>1 DEF FreeEnter
  <2>2. Startup' /\ Handles' /\ Carried' /\ Tagged'
    BY <2>1, Zenon DEF PoolInv, Startup, Handles, Carried, Carries, Tagged
  <2>3. Goto(t, pc[t]) /\ (Carries(t)' <=> Carries(t))
    BY <2>1 DEF Goto, Carries, PoolInv, TypeInv
  <2>4. Counted'
    BY <2>1, <2>3, CountedKept
  <2>5. List'
    BY <2>1, <2>3, ListKept, Zenon
  <2> QED
    BY <2>2, <2>4, <2>5 DEF PoolInv
<1>2. CASE ownership[h[1]] = [allocated |-> TRUE, generation |-> h[2]]
  <2>1. /\ UNCHANGED <<is_initialized, free_list_head, next, content, observed, next_index, seen,
                       issued, allocs>>
        /\ pc[t] = "idle" /\ Goto(t, "free_zero")
        /\ slot' = [slot EXCEPT ![t] = h[1]]
        /\ owned' = [u \in Threads |-> owned[u] \ {h}]
    BY <1>2, Zenon DEF FreeEnter
  <2>2. h \in Slots \X Nat /\ h[1] \in Slots /\ ownership \in [Slots -> Owners]
    BY DEF PoolInv, TypeInv
  <2>3. ownership' = [ownership EXCEPT ![h[1]] = [allocated |-> FALSE, generation |-> h[2]]]
    BY <1>2, <2>2, Released DEF FreeEnter
  <2>4. /\ ~ownership'[h[1]].allocated /\ ownership[h[1]].allocated
        /\ \A s \in Slots : /\ s # h[1] => ownership'[s] = ownership[s]
                            /\ ownership'[s].generation = ownership[s].generation
    BY <1>2, <2>2, <2>3
  <2>5. pc'[t] = "free_zero" /\ slot'[t] = h[1]
    BY <2>1, Zenon DEF Goto, PoolInv, TypeInv
  <2>6. /\ ~Carries(t) /\ Carries(t)'
        /\ "free_zero" \notin InitSteps \cup Trying \cup Claiming \cup {"free_link", "free_cas", "alloc_own", "alloc_cas"}
    BY <2>1, <2>5 DEF Carries, InitSteps, Claiming, Freeing, Trying
  <2>7. \A u \in Threads : Carries(u) => slot[u] # h[1] /\ slot[u] \in Slots
    BY <2>4 DEF PoolInv, TypeInv, Carried
  <2>8. Startup'
    BY <2>1, <2>5, <2>6, StartupKept
  <2>9. Handles'
    <3>1. \A g \in issued' : g[2] <= ownership'[g[1]].generation
      BY <2>1, <2>4 DEF PoolInv, TypeInv, Handles
    <3>2. ASSUME NEW u \in Threads, NEW g \in owned'[u]
          PROVE  /\ ownership'[g[1]] = [allocated |-> TRUE, generation |-> g[2]]
                 /\ \A v \in Threads : g \in owned'[v] => v = u
      <4>1. g \in owned[u] /\ g # h /\ g \in Slots \X Nat
        BY <2>1, <3>2 DEF PoolInv, TypeInv
      <4>2. /\ ownership[g[1]] = [allocated |-> TRUE, generation |-> g[2]]
            /\ \A v \in Threads : g \in owned[v] => v = u
        BY <4>1 DEF PoolInv, Handles
      <4>3. g[1] # h[1]
        BY <1>2, <2>2, <4>1, <4>2
      <4> QED
        BY <2>1, <2>4, <4>1, <4>2, <4>3
    <3>3. ASSUME NEW s \in Slots, ownership'[s].allocated
          PROVE  \E u \in Threads : <<s, ownership'[s].generation>> \in owned'[u]
      <4>1. s # h[1]
        BY <2>4, <3>3
      <4>2. ownership'[s] = ownership[s]
        BY <2>4, <4>1
      <4>3. PICK u \in Threads : <<s, ownership[s].generation>> \in owned[u]
        BY <3>3, <4>2 DEF PoolInv, Handles
      <4>4. <<s, ownership[s].generation>> # h
        BY <4>1
      <4> QED
        BY <2>1, <4>2, <4>3, <4>4
    <3> QED
      BY <3>1, <3>2, <3>3 DEF Handles
  <2>10. Carried'
    BY <2>1, <2>4, <2>5, <2>6, <2>7, CarriedKept DEF PoolInv
  <2>11. Tagged'
    BY <2>1, <2>5, <2>6, TaggedKept DEF PoolInv
  <2>12. Counted'
    BY <2>1, <2>4, <2>6, CountedKept
  <2>13. List'
    <3>1. ASSUME NEW s \in Slots
          PROVE  Listed(s)' <=> Listed(s)
      <4>1. CASE s = h[1]
        BY <2>4, <2>5, <2>6, <4>1, ListedAfter DEF Listed
      <4>2. CASE s # h[1]
        BY <2>4, <2>5, <2>6, <4>2, ListedAfter DEF Listed
      <4> QED
        BY <4>1, <4>2
    <3> QED
      BY <2>1, <2>6, <3>1, ListStands
  <2> QED
    BY <2>8, <2>9, <2>10, <2>11, <2>12, <2>13 DEF PoolInv
<1> QED
  BY <1>1, <1>2
=============================================================================
