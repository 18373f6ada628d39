------------------------ MODULE StaticDmaPoolProofs ------------------------
(***************************************************************************)
(* What the invariant of StaticDmaPoolSteps gives: the steps that move a   *)
(* slot to or from the free list, init, and the theorems about the pool.   *)
(***************************************************************************)
EXTENDS StaticDmaPoolSteps, WellFoundedInduction

(* The slot taken off the list gets a generation it never had. *)
LEMMA AllocOwnKeeps ==
  ASSUME PoolInv, TypeInv', NEW t \in Threads, AllocOwn(t), Aside(t), is_initialized
  PROVE  PoolInv'
<1> DEFINE s == slot[t]
           A == Calls(Trying \cup Claiming)
<1>1. /\ UNCHANGED <<is_initialized, free_list_head, next, content, allocs>>
      /\ pc[t] = "alloc_own" /\ Return(t)
  BY Zenon DEF AllocOwn
<1>2. Goto(t, "idle") /\ pc'[t] = "idle" /\ s \in Slots
  BY <1>1 DEF Return, Goto, PoolInv, TypeInv
<1>3. /\ Carries(t) /\ ~Carries(t)' /\ pc[t] \in Trying \cup Claiming
      /\ "idle" \notin InitSteps \cup Trying \cup Claiming \cup {"free_link", "free_cas", "alloc_own", "alloc_cas"}
  BY <1>1, <1>2 DEF Carries, InitSteps, Claiming, Freeing, Trying
<1>4. seen[t] = ownership[s] /\ ~ownership[s].allocated
  BY <1>1, <1>3 DEF PoolInv, Carried
<1>5. /\ Cardinality(A) \in Nat /\ Cardinality(A') \in Nat /\ IsFiniteSet(A')
      /\ Cardinality(A') + 1 = Cardinality(A)
  <2>1. pc \in [Threads -> Steps] /\ IsFiniteSet(A)
    BY DEF PoolInv, TypeInv, Counted
  <2>2. /\ Cardinality(A) \in Nat /\ Cardinality(A') \in Nat /\ IsFiniteSet(A')
        /\ Cardinality(A') + (IF pc[t] \in Trying \cup Claiming THEN 1 ELSE 0)
             = Cardinality(A) + (IF "idle" \in Trying \cup Claiming THEN 1 ELSE 0)
    BY <1>2, <2>1, CallsAfter, Zenon DEF Goto
  <2> QED
    BY <1>3, <2>2
<1>6. \A r \in Slots : /\ ownership[r].generation \in Nat
                       /\ ownership[r].generation + Cardinality(A) <= allocs
  BY Zenon DEF PoolInv, TypeInv, Owners, Counted
<1>7. allocs \in Nat /\ allocs < GenMod /\ GenMod \in Nat
  BY Sizes DEF PoolInv, TypeInv
<1>8. PICK g \in Nat : g = ownership[s].generation + 1
  BY <1>2, <1>6
<1> HIDE DEF A, s
<1>9. (seen[t].generation + 1) % GenMod = g
  <2>1. g < GenMod
    BY <1>2, <1>5, <1>6, <1>7, <1>8
  <2>2. g % GenMod = g
    BY <1>7, <2>1
  <2> QED
    BY <1>4, <1>8, <2>2
<1>10. /\ ownership' = [ownership EXCEPT ![s] = [allocated |-> TRUE, generation |-> g]]
       /\ issued' = issued \cup {<<s, g>>}
       /\ owned' = [owned EXCEPT ![t] = @ \cup {<<s, g>>}]
  BY <1>4, <1>9, Zenon DEF AllocOwn, s
<1>11. /\ ownership'[s] = [allocated |-> TRUE, generation |-> g]
       /\ \A r \in Slots : r # s => ownership'[r] = ownership[r]
  BY <1>2, <1>10 DEF PoolInv, TypeInv
<1>12. \A u \in Threads : owned'[u] = IF u = t THEN owned[t] \cup {<<s, g>>} ELSE owned[u]
  BY <1>10 DEF PoolInv, TypeInv
<1>13. ASSUME NEW u \in Threads, NEW h \in owned[u]
       PROVE  h \in Slots \X Nat /\ h[1] # s
  <2>1. h \in Slots \X Nat
    BY DEF PoolInv, TypeInv
  <2>2. ownership[h[1]] = [allocated |-> TRUE, generation |-> h[2]]
    BY DEF PoolInv, Handles
  <2> QED
    BY <1>4, <2>1, <2>2
<1>14. \A u \in Threads \ {t} : Carries(u) => slot[u] # s /\ slot[u] \in Slots
  BY <1>3 DEF PoolInv, TypeInv, Carried, s
<1>15. Startup'
  BY <1>1, <1>2, <1>3, StartupKept
<1>16. Handles'
  <2>1. ASSUME NEW h \in issued'
        PROVE  h[2] <= ownership'[h[1]].generation
    <3>1. CASE h = <<s, g>>
      BY <1>8, <1>11, <3>1
    <3>2. CASE h \in issued
      <4>1. h \in Slots \X Nat /\ h[2] <= ownership[h[1]].generation
        BY <3>2 DEF PoolInv, TypeInv, Handles
      <4>2. CASE h[1] = s
        <5>1. ownership'[h[1]].generation = ownership[h[1]].generation + 1
          BY <1>8, <1>11, <4>2
        <5>2. ownership[h[1]].generation \in Nat /\ h[2] \in Nat
          BY <1>6, <4>1
        <5> QED
          BY <4>1, <5>1, <5>2
      <4>3. CASE h[1] # s
        BY <1>11, <4>1, <4>3
      <4> QED
        BY <4>2, <4>3
    <3> QED
      BY <1>10, <3>1, <3>2
  <2>2. ASSUME NEW u \in Threads, NEW h \in owned'[u]
        PROVE  /\ ownership'[h[1]] = [allocated |-> TRUE, generation |-> h[2]]
               /\ \A v \in Threads : h \in owned'[v] => v = u
    <3>1. CASE h = <<s, g>>
      <4>1. h[1] = s /\ h[2] = g
        BY <3>1
      <4>2. \A v \in Threads : h \notin owned[v]
        BY <1>13, <4>1
      <4> QED
        BY <1>11, <1>12, <4>1, <4>2
    <3>2. CASE h # <<s, g>>
      <4>1. h \in owned[u]
        BY <1>12, <2>2, <3>2
      <4>2. /\ ownership[h[1]] = [allocated |-> TRUE, generation |-> h[2]]
            /\ \A v \in Threads : h \in owned[v] => v = u
        BY <4>1 DEF PoolInv, Handles
      <4>3. h[1] \in Slots /\ h[1] # s
        BY <1>13, <4>1
      <4> QED
        BY <1>11, <1>12, <3>2, <4>2, <4>3
    <3> QED
      BY <3>1, <3>2
  <2>3. ASSUME NEW r \in Slots, ownership'[r].allocated
        PROVE  \E u \in Threads : <<r, ownership'[r].generation>> \in owned'[u]
    <3>1. CASE r = s
      BY <1>11, <1>12, <3>1
    <3>2. CASE r # s
      <4>1. ownership'[r] = ownership[r]
        BY <1>11, <3>2
      <4>2. PICK u \in Threads : <<r, ownership[r].generation>> \in owned[u]
        BY <2>3, <4>1 DEF PoolInv, Handles
      <4> QED
        BY <1>12, <4>1, <4>2
    <3> QED
      BY <3>1, <3>2
  <2> QED
    BY <2>1, <2>2, <2>3 DEF Handles
<1>17. Carried'
  BY <1>1, <1>2, <1>3, <1>11, <1>14, CarriedKept DEF PoolInv
<1>18. Tagged'
  BY <1>1, <1>2, <1>3, TaggedKept DEF PoolInv
<1>19. Counted'
  <2>1. IsFiniteSet(Calls(Trying)')
    BY <1>2, CallsAfter, Zenon DEF PoolInv, TypeInv, Counted, Goto
  <2>2. ASSUME NEW r \in Slots
        PROVE  ownership'[r].generation + Cardinality(A') <= allocs'
    <3>1. /\ ownership[r].generation \in Nat
          /\ ownership[r].generation + Cardinality(A) <= allocs
      BY <1>6
    <3>2. \/ ownership'[r].generation = ownership[r].generation
          \/ ownership'[r].generation = ownership[r].generation + 1
      BY <1>8, <1>11
    <3>3. allocs' = allocs
      BY <1>1
    <3> QED
      BY <1>5, <1>7, <3>1, <3>2, <3>3
  <2> QED
    BY <1>5, <2>1, <2>2, Zenon DEF Counted, A
<1>20. List'
  <2>1. ASSUME NEW r \in Slots
        PROVE  Listed(r)' <=> Listed(r)
    <3>1. CASE r = s
      BY <1>3, <1>11, <3>1, ListedAfter DEF Listed, s
    <3>2. CASE r # s
      BY <1>3, <1>11, <3>2, ListedAfter DEF Listed, s
    <3> QED
      BY <3>1, <3>2
  <2> QED
    BY <1>1, <1>2, <1>3, <2>1, ListStands
<1> QED
  BY <1>15, <1>16, <1>17, <1>18, <1>19, <1>20 DEF PoolInv

(* Taking the head off the list. *)
LEMMA AllocCasKeeps ==
  ASSUME PoolInv, TypeInv', NEW t \in Threads, AllocCas(t), Aside(t), is_initialized
  PROVE  PoolInv'
<1> DEFINE s == free_list_head.index
           A == Calls(Trying)
<1>1. /\ UNCHANGED <<is_initialized, next, ownership, content, issued, owned, allocs>>
      /\ pc[t] = "alloc_cas" /\ Goto(t, "alloc_seen") /\ free_list_head = observed[t]
      /\ free_list_head' = pack_head(next_index[t], free_list_head.tag + 1)
      /\ slot' = [slot EXCEPT ![t] = s]
  BY Zenon DEF AllocCas, ghosts
<1>2. pc'[t] = "alloc_seen" /\ slot'[t] = s
  BY <1>1 DEF Goto, PoolInv, TypeInv
<1>3. /\ ~Carries(t) /\ Carries(t)' /\ pc[t] \in Trying
      /\ "alloc_seen" \notin InitSteps \cup Trying \cup {"free_link", "free_cas", "alloc_own", "free_zero"}
  BY <1>1, <1>2 DEF Carries, InitSteps, Claiming, Freeing, Trying
<1>4. s # Empty /\ next_index[t] = next[s]
  BY <1>1, <1>3 DEF PoolInv, Tagged
<1>5. s \in Slots /\ Listed(s) /\ ~ownership[s].allocated /\ content[s] # "dirty"
  <2>1. s \in Slots /\ Listed(s)
    BY <1>4, HeadListed
  <2> QED
    BY <2>1 DEF Listed, PoolInv, List
<1>6. PICK n \in 0 .. N : Spendable(n) /\ \E c \in [1 .. N -> Slots] : Stack(n, c)
  BY DEF PoolInv, List
<1>7. PICK c \in [1 .. N -> Slots] : Stack(n, c)
  BY <1>6
<1>8. /\ Cardinality(A) \in Nat /\ Cardinality(A') \in Nat /\ Cardinality(A') + 1 = Cardinality(A)
  <2>1. pc \in [Threads -> Steps] /\ IsFiniteSet(A)
    BY DEF PoolInv, TypeInv, Counted
  <2>2. /\ Cardinality(A) \in Nat /\ Cardinality(A') \in Nat
        /\ Cardinality(A') + (IF pc[t] \in Trying THEN 1 ELSE 0)
             = Cardinality(A) + (IF "alloc_seen" \in Trying THEN 1 ELSE 0)
    BY <1>1, <2>1, CallsAfter, Zenon DEF Goto
  <2> QED
    BY <1>3, <2>2
<1>9. free_list_head.tag + (N - n) + 2 * Cardinality(A) <= 2 * allocs
  BY <1>6 DEF Spendable
<1>10. /\ free_list_head.tag \in Nat /\ N \in Nat /\ n \in Nat /\ n <= N
       /\ allocs \in Nat /\ allocs <= MaxAllocs /\ next_index[t] \in Indices
  BY Sizes DEF PoolInv, TypeInv, Heads
<1>11. n # 0 /\ c[n] = s /\ next[s] = IF n = 1 THEN Empty ELSE c[n - 1]
  <2>1. n # 0 /\ c[n] = s
    BY <1>4, <1>7, Zenon DEF Stack
  <2>2. n \in 1 .. n
    BY <1>10, <2>1
  <2> QED
    BY <1>7, <2>1, <2>2 DEF Stack
<1> HIDE DEF A, s
<1>12. free_list_head'.tag = free_list_head.tag + 1 /\ free_list_head'.index = next[s]
  <2>1. free_list_head.tag + 1 \in Nat /\ free_list_head.tag + 1 < TagMod
    BY <1>8, <1>9, <1>10, Sizes
  <2> QED
    BY <1>1, <1>4, <1>10, <2>1, Packed
<1>13. Startup'
  BY <1>1, <1>2, <1>3, StartupKept
<1>14. Handles'
  BY <1>1, HandlesKept DEF PoolInv
<1>15. Carried'
  <2>1. \A u \in Threads \ {t} : Carries(u) => slot[u] # s
    BY <1>5 DEF Listed
  <2> QED
    BY <1>1, <1>2, <1>3, <1>5, <2>1, CarriedKept DEF PoolInv
<1>16. Tagged'
  BY <1>2, <1>3, <1>12, TaggedBump DEF PoolInv
<1>17. Counted'
  BY <1>1, <1>3, CountedKept
<1>18. List'
  <2>1. ASSUME NEW r \in Slots
        PROVE  Listed(r)' <=> (Listed(r) /\ r # s)
    BY <1>1, <1>2, <1>3, ListedAfter DEF Listed
  <2>2. \A r \in Slots : Listed(r)' => content'[r] # "dirty"
    BY <1>1, <2>1 DEF PoolInv, List
  <2>3. Spendable(n - 1)'
    <3>1. free_list_head'.tag + (N - (n - 1)) + 2 * Cardinality(A') <= 2 * allocs'
      <4>1. allocs' = allocs
        BY <1>1
      <4> QED
        BY <1>8, <1>9, <1>10, <1>12, <4>1
    <3> QED
      BY <3>1 DEF Spendable, A
  <2>4. n - 1 \in 0 .. N /\ n - 1 \in Nat /\ \A i \in 1 .. n - 1 : i \in 1 .. n /\ i # n
    BY <1>10, <1>11
  <2>5. Stack(n - 1, c)'
    <3>1. \A i, j \in 1 .. n - 1 : c[i] = c[j] => i = j
      BY <1>7, <2>4 DEF Stack
    <3>2. free_list_head'.index = IF n - 1 = 0 THEN Empty ELSE c[n - 1]
      BY <1>10, <1>11, <1>12
    <3>3. \A i \in 1 .. n - 1 : next'[c[i]] = IF i = 1 THEN Empty ELSE c[i - 1]
      BY <1>1, <1>7, <2>4 DEF Stack
    <3>4. ASSUME NEW r \in Slots
          PROVE  Listed(r)' <=> \E i \in 1 .. n - 1 : c[i] = r
      <4>1. Listed(r) <=> \E i \in 1 .. n : c[i] = r
        BY <1>7 DEF Stack
      <4>2. \A i \in 1 .. n : i = n \/ i \in 1 .. n - 1
        BY <1>10
      <4>3. n \in 1 .. n
        BY <1>10, <1>11
      <4>4. \A i \in 1 .. n : c[i] = s => i = n
        BY <1>7, <1>11, <4>3 DEF Stack
      <4> QED
        BY <1>11, <2>1, <2>4, <4>1, <4>2, <4>4
    <3> QED
      BY <3>1, <3>2, <3>3, <3>4 DEF Stack
  <2> QED
    BY <2>2, <2>3, <2>4, <2>5 DEF List
<1> QED
  BY <1>13, <1>14, <1>15, <1>16, <1>17, <1>18 DEF PoolInv

(* A list that does not hold slot s has room for it. *)
LEMMA Room ==
  ASSUME NEW n \in 0 .. N, NEW c \in [1 .. N -> Slots], NEW s \in Slots,
         \A i, j \in 1 .. n : c[i] = c[j] => i = j, \A i \in 1 .. n : c[i] # s
  PROVE  n < N
<1>0. N \in Nat \ {0} /\ n \in Nat /\ n <= N
  BY Sizes
<1> SUFFICES ASSUME n = N
             PROVE  FALSE
  BY <1>0
<1> DEFINE d == [i \in 1 .. N + 1 |-> IF i = N + 1 THEN s ELSE c[i]]
<1>1. d \in [1 .. N + 1 -> Slots]
  BY <1>0
<1>2. /\ IsFiniteSet(1 .. N + 1) /\ Cardinality(1 .. N + 1) = N + 1
      /\ IsFiniteSet(Slots) /\ Cardinality(Slots) = N
  <2>1. /\ IsFiniteSet(1 .. N + 1)
        /\ Cardinality(1 .. N + 1) = IF 1 > N + 1 THEN 0 ELSE (N + 1) - 1 + 1
    BY <1>0, FS_Interval
  <2>2. /\ IsFiniteSet(0 .. N - 1)
        /\ Cardinality(0 .. N - 1) = IF 0 > N - 1 THEN 0 ELSE (N - 1) - 0 + 1
    BY <1>0, FS_Interval
  <2> QED
    BY <1>0, <2>1, <2>2 DEF Slots
<1>3. Cardinality(Slots) < Cardinality(1 .. N + 1)
  BY <1>0, <1>2
<1>4. PICK i, j \in 1 .. N + 1 : i # j /\ d[i] = d[j]
  <2> HIDE DEF d
  <2>1. \E i, j \in 1 .. N + 1 : i # j /\ d[i] = d[j]
    BY <1>1, <1>2, <1>3, FS_PigeonHole
  <2> QED
    BY <2>1
<1>5. \A k \in 1 .. N + 1 : k # N + 1 => k \in 1 .. n
  BY <1>0
<1> QED
  BY <1>4, <1>5

(* Putting the freed slot on the list. *)
LEMMA FreeCasKeeps ==
  ASSUME PoolInv, TypeInv', NEW t \in Threads, FreeCas(t), Aside(t), is_initialized
  PROVE  PoolInv'
<1> DEFINE s == slot[t]
           A == Calls(Trying)
<1>1. /\ UNCHANGED <<is_initialized, next, ownership, content, issued, owned, allocs>>
      /\ pc[t] = "free_cas" /\ Return(t) /\ free_list_head = observed[t]
      /\ free_list_head' = pack_head(s, free_list_head.tag + 1)
  BY Zenon DEF FreeCas, ghosts
<1>2. Goto(t, "idle") /\ pc'[t] = "idle" /\ s \in Slots
  BY <1>1 DEF Return, Goto, PoolInv, TypeInv
<1>3. /\ Carries(t) /\ ~Carries(t)' /\ pc[t] \notin Trying
      /\ "idle" \notin InitSteps \cup Trying \cup Claiming \cup {"free_link", "free_cas", "alloc_own", "free_zero"}
  BY <1>1, <1>2 DEF Carries, InitSteps, Claiming, Freeing, Trying
<1>4. /\ next[s] = free_list_head.index /\ ~ownership[s].allocated /\ content[s] # "dirty"
      /\ \A u \in Threads \ {t} : Carries(u) => slot[u] # s
  BY <1>1, <1>3 DEF PoolInv, Carried
<1>5. PICK n \in 0 .. N : Spendable(n) /\ \E c \in [1 .. N -> Slots] : Stack(n, c)
  BY DEF PoolInv, List
<1>6. PICK c \in [1 .. N -> Slots] : Stack(n, c)
  BY <1>5
<1>7. Cardinality(A) \in Nat /\ Cardinality(A') = Cardinality(A)
  <2>1. pc \in [Threads -> Steps] /\ IsFiniteSet(A)
    BY DEF PoolInv, TypeInv, Counted
  <2>2. /\ Cardinality(A) \in Nat /\ Cardinality(A') \in Nat
        /\ Cardinality(A') + (IF pc[t] \in Trying THEN 1 ELSE 0)
             = Cardinality(A) + (IF "idle" \in Trying THEN 1 ELSE 0)
    BY <1>2, <2>1, CallsAfter, Zenon DEF Goto
  <2> QED
    BY <1>3, <2>2
<1>8. free_list_head.tag + (N - n) + 2 * Cardinality(A) <= 2 * allocs
  BY <1>5 DEF Spendable
<1>9. /\ free_list_head.tag \in Nat /\ N \in Nat /\ n \in Nat /\ n <= N
      /\ allocs \in Nat /\ allocs <= MaxAllocs /\ s \in Indices
  BY <1>2, Sizes DEF PoolInv, TypeInv, Heads, Indices
<1>10. \A i \in 1 .. n : c[i] # s
  <2>1. ~Listed(s)
    BY <1>3 DEF Listed
  <2> QED
    BY <1>2, <1>6, <2>1 DEF Stack
<1> HIDE DEF A, s
<1>11. n < N
  <2>1. \A i, j \in 1 .. n : c[i] = c[j] => i = j
    BY <1>6 DEF Stack
  <2> QED
    BY <1>2, <1>10, <2>1, Room, Zenon
<1>12. free_list_head'.tag = free_list_head.tag + 1 /\ free_list_head'.index = s
  <2>1. free_list_head.tag + 1 \in Nat /\ free_list_head.tag + 1 < TagMod
    BY <1>7, <1>8, <1>9, <1>11, Sizes
  <2> QED
    BY <1>1, <1>9, <2>1, Packed
<1>13. Startup'
  BY <1>1, <1>2, <1>3, StartupKept
<1>14. Handles'
  BY <1>1, HandlesKept DEF PoolInv
<1>15. Carried'
  BY <1>1, <1>2, <1>3, CarriedKept DEF PoolInv
<1>16. Tagged'
  BY <1>2, <1>3, <1>12, TaggedBump DEF PoolInv
<1>17. Counted'
  BY <1>1, <1>2, <1>3, CountedKept
<1>18. List'
  <2>1. ASSUME NEW r \in Slots
        PROVE  Listed(r)' <=> (Listed(r) \/ r = s)
    <3>1. Listed(r)' <=> /\ ~ownership[r].allocated
                         /\ \A u \in Threads \ {t} : ~(Carries(u) /\ slot[u] = r)
      BY <1>1, <1>3, ListedAfter
    <3>2. CASE r = s
      BY <1>4, <3>1, <3>2
    <3>3. CASE r # s
      BY <3>1, <3>3 DEF Listed, s
    <3> QED
      BY <3>2, <3>3
  <2>2. \A r \in Slots : Listed(r)' => content'[r] # "dirty"
    BY <1>1, <1>4, <2>1 DEF PoolInv, List
  <2>3. Spendable(n + 1)'
    <3>1. free_list_head'.tag + (N - (n + 1)) + 2 * Cardinality(A') <= 2 * allocs'
      <4>1. allocs' = allocs
        BY <1>1
      <4> QED
        BY <1>7, <1>8, <1>9, <1>12, <4>1
    <3> QED
      BY <3>1 DEF Spendable, A
  <2>4. /\ n + 1 \in 0 .. N /\ n + 1 \in 1 .. N
        /\ \A i \in 1 .. n + 1 : i \in 1 .. N /\ (i = n + 1 \/ (i \in 1 .. n /\ i # n + 1))
    BY <1>9, <1>11
  <2>5. PICK d : d = [c EXCEPT ![n + 1] = s]
    BY Zenon
  <2>6. d \in [1 .. N -> Slots] /\ d[n + 1] = s /\ \A i \in 1 .. n : d[i] = c[i]
    BY <1>2, <1>9, <2>4, <2>5
  <2>7. Stack(n + 1, d)'
    <3>1. \A i, j \in 1 .. n + 1 : d[i] = d[j] => i = j
      BY <1>6, <1>10, <2>4, <2>6 DEF Stack
    <3>2. free_list_head'.index = IF n + 1 = 0 THEN Empty ELSE d[n + 1]
      BY <1>9, <1>12, <2>6
    <3>3. ASSUME NEW i \in 1 .. n + 1
          PROVE  next'[d[i]] = IF i = 1 THEN Empty ELSE d[i - 1]
      <4>1. CASE i = n + 1
        <5>1. next'[d[i]] = IF n = 0 THEN Empty ELSE c[n]
          BY <1>1, <1>4, <1>6, <2>6, <4>1, Zenon DEF Stack
        <5>2. n # 0 => n \in 1 .. n /\ i - 1 = n /\ i # 1
          BY <1>9, <4>1
        <5>3. n = 0 => i = 1
          BY <4>1
        <5> QED
          BY <2>6, <5>1, <5>2, <5>3
      <4>2. CASE i \in 1 .. n
        <5>1. next'[d[i]] = IF i = 1 THEN Empty ELSE c[i - 1]
          BY <1>1, <1>6, <2>6, <4>2 DEF Stack
        <5>2. i # 1 => i - 1 \in 1 .. n
          BY <1>9, <4>2
        <5> QED
          BY <2>6, <5>1, <5>2
      <4> QED
        BY <2>4, <4>1, <4>2
    <3>4. ASSUME NEW r \in Slots
          PROVE  Listed(r)' <=> \E i \in 1 .. n + 1 : d[i] = r
      <4>1. Listed(r) <=> \E i \in 1 .. n : c[i] = r
        BY <1>6 DEF Stack
      <4>2. n + 1 \in 1 .. n + 1 /\ \A i \in 1 .. n : i \in 1 .. n + 1
        BY <1>9
      <4> QED
        BY <2>1, <2>4, <2>6, <4>1, <4>2
    <3> QED
      BY <3>1, <3>2, <3>3, <3>4 DEF Stack
  <2> QED
    BY <2>2, <2>3, <2>4, <2>6, <2>7 DEF List
<1> QED
  BY <1>13, <1>14, <1>15, <1>16, <1>17, <1>18, Zenon DEF PoolInv

-----------------------------------------------------------------------------
(* Before the pool is initialized no other thread is in a call. *)
LEMMA Alone ==
  ASSUME PoolInv, OneInitializer, NEW t \in Initializers, ~is_initialized
  PROVE  \A u \in Threads \ {t} : pc[u] = "idle"
<1> SUFFICES ASSUME NEW u \in Threads \ {t}
             PROVE  pc[u] = "idle"
  OBVIOUS
<1>1. pc[u] \in InitSteps \cup {"idle"} /\ (pc[u] \in InitSteps => u \in Initializers)
  BY DEF PoolInv, Startup
<1> QED
  BY <1>1 DEF OneInitializer

LEMMA EarlyKeeps ==
  ASSUME PoolInv, NEW t \in Threads, NEW x, Goto(t, x), ~is_initialized,
         x \in InitSteps \cup {"idle"},
         UNCHANGED <<ownership, issued, owned, allocs>>
  PROVE  /\ \A u \in Threads : pc'[u] \in InitSteps \cup {"idle"}
         /\ Handles' /\ Carried' /\ Tagged' /\ Counted'
<1>1. ASSUME NEW u \in Threads
      PROVE  pc'[u] \in InitSteps \cup {"idle"}
  BY DEF PoolInv, Startup, TypeInv, Goto
<1>2. \A u \in Threads : pc'[u] \notin Trying \cup Claiming \cup Freeing
  BY <1>1 DEF InitSteps, Trying, Claiming, Freeing
<1>3. Handles'
  BY HandlesKept DEF PoolInv
<1>4. Carried'
  BY <1>2 DEF Carried, Carries, Claiming, Freeing
<1>5. Tagged'
  BY <1>2 DEF Tagged, Trying, Freeing
<1>6. Counted'
  <2>1. x \notin Trying \cup Claiming
    BY DEF InitSteps, Trying, Claiming
  <2> QED
    BY <2>1, CountedKept
<1> QED
  BY <1>1, <1>3, <1>4, <1>5, <1>6

(* The list init leaves behind holds every slot, in order. *)
LEMMA Filled ==
  ASSUME PoolInv, ~is_initialized, next = Chained, free_list_head = pack_head(0, 0),
         NEW t \in Threads, Goto(t, "init_release"),
         \A u \in Threads : pc'[u] \in InitSteps \cup {"idle"},
         UNCHANGED <<free_list_head, next, ownership, content, allocs>>
  PROVE  List'
<1> DEFINE c == [i \in 1 .. N |-> N - i]
<1>0. N \in Nat \ {0}
  BY Sizes
<1>1. c \in [1 .. N -> Slots]
  BY <1>0 DEF Slots
<1>2. \A u \in Threads : ~Carries(u)'
  BY DEF Carries, InitSteps, Claiming, Freeing
<1>3. \A s \in Slots : ownership[s] = Unclaimed /\ content[s] # "dirty" /\ ~ownership[s].allocated
  BY DEF PoolInv, Startup, Unclaimed
<1>4. \A s \in Slots : Listed(s)'
  BY <1>2, <1>3 DEF Listed
<1>5. free_list_head.index = 0 /\ free_list_head.tag = 0
  <2>1. 0 \in Indices /\ 0 < TagMod
    BY Sizes DEF Indices
  <2> QED
    BY <2>1, Packed
<1>6. Spendable(N)'
  <2>1. \A u \in Threads : pc'[u] \notin Trying
    BY DEF InitSteps, Trying
  <2>2. Calls(Trying)' = {}
    BY <2>1 DEF Calls
  <2>3. Cardinality(Calls(Trying)') = 0
    BY <2>2, FS_EmptySet
  <2>4. allocs' = 0
    BY DEF PoolInv, Startup
  <2> QED
    BY <1>0, <1>5, <2>3, <2>4 DEF Spendable
<1>7. Stack(N, c)'
  <2>1. \A i, j \in 1 .. N : c[i] = c[j] => i = j
    BY <1>0
  <2>2. free_list_head'.index = IF N = 0 THEN Empty ELSE c[N]
    BY <1>0, <1>5
  <2>3. ASSUME NEW i \in 1 .. N
        PROVE  next'[c[i]] = IF i = 1 THEN Empty ELSE c[i - 1]
    <3>1. next'[c[i]] = IF c[i] + 1 < N THEN c[i] + 1 ELSE Empty
      BY <1>1 DEF Chained
    <3>2. CASE i = 1
      BY <1>0, <3>1, <3>2
    <3>3. CASE i # 1
      BY <1>0, <3>1, <3>3
    <3> QED
      BY <3>2, <3>3
  <2>4. \A s \in Slots : \E i \in 1 .. N : c[i] = s
    <3> TAKE s \in Slots
    <3>1. N - s \in 1 .. N /\ N - (N - s) = s
      BY <1>0 DEF Slots
    <3>2. c[N - s] = s
      BY <3>1
    <3> QED
      BY <3>1, <3>2
  <2> HIDE DEF c
  <2> QED
    BY <1>4, <2>1, <2>2, <2>3, <2>4 DEF Stack
<1>8. N \in 0 .. N
  BY <1>0
<1> HIDE DEF c
<1> QED
  BY <1>1, <1>3, <1>6, <1>7, <1>8 DEF List

LEMMA InitKeeps ==
  ASSUME PoolInv, TypeInv', OneInitializer, NEW t \in Initializers, init(t)
  PROVE  PoolInv'
<1> t \in Threads
  BY Sizes
<1>0. pc[t] \in InitSteps \ {"init_release"} => ~is_initialized
  BY DEF PoolInv, Startup
<1>1. CASE InitRelease(t) /\ is_initialized
  BY <1>1, InitAside, ReleaseKeeps DEF PoolInv
<1>2. CASE ~is_initialized
  <2> DEFINE x == pc'[t]
  <2>1. /\ UNCHANGED <<content, issued, owned, allocs>>
        /\ is_initialized' # is_initialized => InitReady(t)
        /\ next' # next => InitSlots(t)
    BY DEF init, InitEnter, InitClaim, InitSlots, InitHead, InitReady, InitRelease, shared, ghosts
  <2>2. UNCHANGED ownership
    <3>1. CASE InitSlots(t)
      <4>1. ownership = [s \in Slots |-> Unclaimed]
        BY <1>2 DEF PoolInv, TypeInv, Startup
      <4> QED
        BY <3>1, <4>1 DEF InitSlots
    <3>2. CASE ~InitSlots(t)
      BY <3>2 DEF init, InitEnter, InitClaim, InitHead, InitReady, InitRelease, shared
    <3> QED
      BY <3>1, <3>2
  <2>3. Goto(t, x) /\ x \in InitSteps \cup {"idle"}
    BY DEF init, InitEnter, InitClaim, InitSlots, InitHead, InitReady, InitRelease, Goto,
           InitSteps, PoolInv, TypeInv
  <2>4. /\ \A u \in Threads : pc'[u] \in InitSteps \cup {"idle"}
        /\ Handles' /\ Carried' /\ Tagged' /\ Counted'
    BY <1>2, <2>1, <2>2, <2>3, EarlyKeeps
  <2>5. \A u \in Threads \ {t} : pc'[u] = "idle"
    BY <1>2, Alone, InitAside DEF Aside, PoolInv
  <2>6. \A s \in Slots : ownership'[s] = Unclaimed /\ content'[s] # "dirty"
    BY <1>2, <2>1, <2>2 DEF PoolInv, Startup
  <2>7. issued' = {} /\ allocs' = 0
    BY <1>2, <2>1 DEF PoolInv, Startup
  <2>8. /\ x \in {"init_head", "init_ready"} => next' = Chained
        /\ x = "init_ready" => free_list_head' = pack_head(0, 0)
        /\ is_initialized' => x = "init_release"
    <3>1. CASE InitEnter(t) \/ InitClaim(t) \/ InitRelease(t)
      <4>1. x \in {"init_claim", "init_slots", "idle"}
        BY <3>1 DEF InitEnter, InitClaim, InitRelease, Goto, PoolInv, TypeInv
      <4>2. is_initialized' = is_initialized
        BY <3>1 DEF InitEnter, InitClaim, InitRelease, shared
      <4> QED
        BY <1>2, <4>1, <4>2
    <3>2. CASE InitSlots(t)
      BY <1>2, <3>2 DEF InitSlots, Goto, PoolInv, TypeInv, Chained
    <3>3. CASE InitHead(t)
      BY <1>2, <3>3 DEF InitHead, Goto, PoolInv, TypeInv, Startup
    <3>4. CASE InitReady(t)
      BY <3>4 DEF InitReady, Goto, PoolInv, TypeInv
    <3> QED
      BY <3>1, <3>2, <3>3, <3>4 DEF init
  <2>9. Startup'
    <3>1. \A u \in Threads : pc'[u] \in InitSteps => u = t
      BY <2>5 DEF InitSteps
    <3>2. x = "init_release" => x \notin {"init_head", "init_ready"}
      OBVIOUS
    <3> HIDE DEF x
    <3>3. ASSUME NEW u \in Threads
          PROVE  /\ pc'[u] \in InitSteps => u \in Initializers
                 /\ pc'[u] \in InitSteps \ {"init_release"} => ~is_initialized'
                 /\ pc'[u] \in {"init_head", "init_ready"} => next' = Chained
                 /\ pc'[u] = "init_ready" => free_list_head' = pack_head(0, 0)
      BY <2>8, <3>1 DEF x, InitSteps
    <3> QED
      BY <2>4, <2>6, <2>7, <3>3 DEF Startup
  <2>10. List'
    <3>1. CASE InitReady(t)
      <4>1. next = Chained /\ free_list_head = pack_head(0, 0)
        BY <3>1 DEF InitReady, PoolInv, Startup
      <4>2. UNCHANGED <<free_list_head, next, allocs>> /\ Goto(t, "init_release")
        BY <3>1 DEF InitReady, ghosts
      <4> QED
        BY <1>2, <2>1, <2>2, <2>4, <4>1, <4>2, Filled
    <3>2. CASE ~InitReady(t)
      BY <1>2, <2>1, <3>2, Zenon DEF List
    <3> QED
      BY <3>1, <3>2
  <2> QED
    BY <2>4, <2>9, <2>10 DEF PoolInv
<1>3. CASE ~InitRelease(t)
  <2>1. ~is_initialized
    BY <1>0, <1>3 DEF init, InitEnter, InitClaim, InitSlots, InitHead, InitReady, InitSteps
  <2> QED
    BY <1>2, <2>1
<1> QED
  BY <1>1, <1>2, <1>3

-----------------------------------------------------------------------------
LEMMA InitHolds == Init => PoolInv
<1> SUFFICES ASSUME Init
             PROVE  PoolInv
  OBVIOUS
<1>1. TypeInv
  <2>1. /\ free_list_head \in Heads /\ next \in [Slots -> Indices] /\ ownership \in [Slots -> Owners]
        /\ content \in [Slots -> {"raw", "dirty", "zero"}]
    BY Fresh DEF Init
  <2>2. /\ pc \in [Threads -> Steps] /\ observed \in [Threads -> Heads]
        /\ next_index \in [Threads -> Indices] /\ slot \in [Threads -> Slots]
        /\ seen \in [Threads -> Owners]
    BY Sizes, Fresh DEF Init, Steps
  <2>3. /\ issued \subseteq Slots \X Nat /\ owned \in [Threads -> SUBSET issued]
        /\ allocs \in 0 .. MaxAllocs /\ is_initialized \in BOOLEAN /\ is_initializing \in BOOLEAN
    <3>1. issued = {} /\ allocs = 0 /\ is_initialized = FALSE /\ is_initializing = FALSE
      BY DEF Init
    <3>2. owned \in [Threads -> SUBSET issued]
      BY DEF Init
    <3>3. 0 \in 0 .. MaxAllocs
      BY Sizes
    <3> QED
      BY <3>1, <3>2, <3>3, Zenon
  <2> QED
    BY <2>1, <2>2, <2>3 DEF TypeInv
<1>2. \A t \in Threads : pc[t] = "idle"
  BY DEF Init
<1>3. Startup
  BY <1>2 DEF Init, Startup, InitSteps
<1>4. Handles
  BY DEF Init, Handles, Unclaimed
<1>5. Carried /\ Tagged
  BY <1>2 DEF Carried, Carries, Tagged, Trying, Claiming, Freeing
<1>6. Counted
  <2>1. Calls(Trying) = {} /\ Calls(Trying \cup Claiming) = {}
    BY <1>2 DEF Calls, Trying, Claiming
  <2>2. \A s \in Slots : ownership[s].generation = 0
    BY DEF Init, Unclaimed
  <2>3. /\ IsFiniteSet(Calls(Trying)) /\ IsFiniteSet(Calls(Trying \cup Claiming))
        /\ Cardinality(Calls(Trying \cup Claiming)) = 0
    BY <2>1, FS_EmptySet
  <2>4. allocs = 0
    BY DEF Init
  <2>5. \A s \in Slots :
          ownership[s].generation + Cardinality(Calls(Trying \cup Claiming)) <= allocs
    <3>1. 0 + 0 <= 0
      OBVIOUS
    <3> QED
      BY <2>2, <2>3, <2>4, <3>1, Zenon
  <2> QED
    BY <2>3, <2>5, Zenon DEF Counted
<1>7. List
  BY DEF Init, List
<1> QED
  BY <1>1, <1>3, <1>4, <1>5, <1>6, <1>7 DEF PoolInv

LEMMA StepKeeps ==
  ASSUME OneInitializer, PoolInv, [Next]_vars
  PROVE  PoolInv'
<1>0. TypeInv /\ Tagged
  BY DEF PoolInv
<1>1. ASSUME NEW t \in Initializers, init(t)
      PROVE  PoolInv'
  BY <1>0, <1>1, InitTypes, InitKeeps
<1>2. ASSUME NEW t \in Threads, allocate(t)
      PROVE  PoolInv'
  <2>1. TypeInv' /\ Aside(t) /\ is_initialized
    BY <1>0, <1>2, AllocTypes, AllocAside, Running
  <2>2. CASE AllocEnter(t) \/ AllocRetry(t)
    BY <2>1, <2>2, AllocObserveKeeps DEF AllocEnter, AllocRetry, ghosts
  <2> QED
    BY <1>2, <2>1, <2>2, AllocNextKeeps, AllocCasKeeps, AllocSeenKeeps, AllocOwnKeeps DEF allocate
<1>3. ASSUME NEW t \in Threads, UseBuffer(t)
      PROVE  PoolInv'
  BY <1>0, <1>3, UseTypes, Running, UseKeeps
<1>4. ASSUME NEW t \in Threads, free(t)
      PROVE  PoolInv'
  <2>1. TypeInv' /\ Aside(t) /\ is_initialized
    BY <1>0, <1>4, FreeTypes, FreeAside, Running
  <2>2. CASE FreeLoad(t) \/ FreeRetry(t)
    BY <2>1, <2>2, FreeObserveKeeps DEF FreeLoad, FreeRetry
  <2> QED
    BY <1>4, <2>1, <2>2, FreeEnterKeeps, FreeZeroKeeps, FreeLinkKeeps, FreeCasKeeps DEF free
<1>5. CASE UNCHANGED vars
  <2>1. UNCHANGED <<is_initialized, is_initializing, free_list_head, next, ownership, content, pc,
                    observed, next_index, slot, seen, issued, owned, allocs>>
    BY <1>5 DEF vars, shared, locals, ghosts
  <2>2. TypeInv' /\ Startup' /\ Handles'
    BY <2>1, Zenon DEF PoolInv, TypeInv, Startup, Handles
  <2>3. Carried' /\ Tagged'
    BY <2>1, Zenon DEF PoolInv, Carried, Carries, Tagged
  <2>4. Counted'
    BY <2>1, Zenon DEF PoolInv, Counted, Calls
  <2>5. List'
    <3>1. CASE is_initialized
      <4>1. \A s \in Slots : Listed(s)' <=> Listed(s)
        BY <2>1 DEF Listed, Carries
      <4>2. \A n \in 0 .. N : Spendable(n) => Spendable(n)'
        BY <2>1 DEF Spendable, Calls
      <4>3. \A n \in 0 .. N : \A c \in [1 .. N -> Slots] : Stack(n, c) => Stack(n, c)'
        BY <2>1, <4>1 DEF Stack
      <4> QED
        BY <2>1, <3>1, <4>1, <4>2, <4>3 DEF PoolInv, List
    <3>2. CASE ~is_initialized
      BY <2>1, <3>2 DEF List
    <3> QED
      BY <3>1, <3>2
  <2> QED
    BY <2>2, <2>3, <2>4, <2>5 DEF PoolInv
<1> QED
  BY <1>1, <1>2, <1>3, <1>4, <1>5 DEF Next

(* What every step of the pool keeps, when one thread calls init. *)
THEOREM PoolInvariant ==
  ASSUME OneInitializer
  PROVE  Spec => []PoolInv
<1>1. PoolInv /\ [Next]_vars => PoolInv'
  BY StepKeeps
<1> QED
  BY <1>1, InitHolds, PTL DEF Spec

-----------------------------------------------------------------------------
LEMMA Least ==
  ASSUME NEW T \in SUBSET Nat, T # {}
  PROVE  \E x \in T : \A y \in T : x <= y
<1>1. PICK x \in T : \A y \in T : ~(<<y, x>> \in OpToRel(<, Nat))
  BY NatLessThanWellFounded, WFMin, Zenon
<1>2. \A y \in T : ~(y < x)
  BY <1>1, Zenon DEF OpToRel
<1> QED
  BY <1>2

(* One more link of the free list, at every position. *)
LinksFrom(f) ==
  [k \in 0 .. N |-> IF k = 0 THEN free_list_head.index
                    ELSE IF f[k - 1] = Empty THEN Empty ELSE next[f[k - 1]]]

LEMMA ChainUnfolds ==
  ASSUME NEW g, g = LinksFrom(g)
  PROVE  FreeChain = LinksFrom(FreeChain)
BY Zenon DEF FreeChain, LinksFrom

(* Following the links visits the stack from its top. *)
LEMMA Walk ==
  ASSUME NEW n \in 0 .. N, NEW c \in [1 .. N -> Slots], Stack(n, c)
  PROVE  \A k \in 0 .. N : FreeChain[k] = IF k < n THEN c[n - k] ELSE Empty
<1>0. N \in Nat /\ n \in Nat /\ n <= N /\ Empty \notin Slots
  BY Sizes
<1> DEFINE g == [k \in 0 .. N |-> IF k < n THEN c[n - k] ELSE Empty]
<1>1. ASSUME NEW k \in 0 .. N
      PROVE  g[k] = LinksFrom(g)[k]
  <2>1. CASE k = 0
    BY <1>0, <2>1 DEF LinksFrom, Stack
  <2>2. CASE k # 0
    <3>1. k - 1 \in 0 .. N
      BY <1>0, <2>2
    <3>2. LinksFrom(g)[k] = IF g[k - 1] = Empty THEN Empty ELSE next[g[k - 1]]
      BY <2>2 DEF LinksFrom
    <3>3. CASE k - 1 < n
      <4>1. PICK i : i = n - (k - 1)
        OBVIOUS
      <4>2. i \in 1 .. n /\ i \in 1 .. N /\ (i = 1 <=> k = n) /\ i - 1 = n - k /\ (i # 1 <=> k < n)
        BY <1>0, <2>2, <3>3, <4>1
      <4>3. g[k - 1] = c[i] /\ c[i] # Empty
        BY <1>0, <3>1, <3>3, <4>1, <4>2
      <4>4. next[c[i]] = IF i = 1 THEN Empty ELSE c[i - 1]
        BY <4>2 DEF Stack
      <4>5. g[k] = IF i = 1 THEN Empty ELSE c[i - 1]
        BY <4>2
      <4> QED
        BY <3>2, <4>3, <4>4, <4>5
    <3>4. CASE ~(k - 1 < n)
      <4>1. g[k - 1] = Empty /\ g[k] = Empty
        BY <1>0, <3>1, <3>4
      <4> QED
        BY <3>2, <4>1
    <3> QED
      BY <3>3, <3>4
  <2> QED
    BY <2>1, <2>2
<1>2. g = LinksFrom(g)
  <2>1. DOMAIN LinksFrom(g) = 0 .. N /\ LinksFrom(g) = [k \in 0 .. N |-> LinksFrom(g)[k]]
    BY DEF LinksFrom
  <2> QED
    BY <1>1, <2>1, Zenon
<1> HIDE DEF g
<1>3. PICK f : f = FreeChain
  OBVIOUS
<1>4. f = LinksFrom(f)
  BY <1>2, <1>3, ChainUnfolds
<1> DEFINE T == {k \in 0 .. N : f[k] # g[k]}
<1>5. T = {}
  <2> SUFFICES ASSUME T # {}
               PROVE  FALSE
    OBVIOUS
  <2>1. T \in SUBSET Nat
    BY <1>0
  <2>2. PICK x \in T : \A y \in T : x <= y
    BY <2>1, Least, Zenon
  <2>3. x \in 0 .. N /\ f[x] # g[x]
    BY <2>2
  <2>4. f[x] = LinksFrom(f)[x] /\ g[x] = LinksFrom(g)[x]
    <3>1. \A r, q : r = q => r[x] = q[x]
      OBVIOUS
    <3> QED
      BY <1>2, <1>4, <3>1, Zenon
  <2>5. LinksFrom(f)[x] = LinksFrom(g)[x]
    <3>1. CASE x = 0
      BY <2>3, <3>1 DEF LinksFrom
    <3>2. CASE x # 0
      <4>1. x - 1 \in 0 .. N /\ ~(x <= x - 1)
        BY <1>0, <2>3, <3>2
      <4>2. f[x - 1] = g[x - 1]
        BY <2>2, <4>1
      <4> QED
        BY <2>3, <3>2, <4>2 DEF LinksFrom
    <3> QED
      BY <3>1, <3>2
  <2> QED
    BY <2>3, <2>4, <2>5
<1> QED
  BY <1>3, <1>5, Zenon DEF g

(* A slot is at most once in the free list, in one pair of hands, in one call. *)
LEMMA ListedOnce ==
  ASSUME PoolInv, is_initialized, NEW s \in Slots
  PROVE  /\ Listed(s) => Cardinality(InFreeList(s)) = 1
         /\ ~Listed(s) => InFreeList(s) = {}
<1>1. PICK n \in 0 .. N, c \in [1 .. N -> Slots] : Stack(n, c)
  BY DEF PoolInv, List
<1>2. \A k \in 0 .. N : FreeChain[k] = IF k < n THEN c[n - k] ELSE Empty
  BY <1>1, Walk, Zenon
<1>3. N \in Nat /\ n \in Nat /\ n <= N /\ s # Empty
  BY Sizes
<1>4. Listed(s) <=> \E i \in 1 .. n : c[i] = s
  BY <1>1 DEF Stack
<1>5. \A k \in 0 .. N : k < n => n - k \in 1 .. n
  BY <1>3
<1>6. ASSUME Listed(s)
      PROVE  Cardinality(InFreeList(s)) = 1
  <2>1. PICK i \in 1 .. n : c[i] = s
    BY <1>4, <1>6
  <2>2. \A j \in 1 .. n : c[j] = s => j = i
    BY <1>1, <2>1 DEF Stack
  <2>3. ASSUME NEW k \in 0 .. N
        PROVE  FreeChain[k] = s <=> k = n - i
    <3>1. CASE k < n
      <4>1. c[n - k] = s <=> n - k = i
        BY <1>5, <2>1, <2>2, <3>1
      <4> QED
        BY <1>2, <1>3, <3>1, <4>1
    <3>2. CASE ~(k < n)
      BY <1>2, <1>3, <3>2
    <3> QED
      BY <3>1, <3>2
  <2>4. n - i \in 0 .. N
    BY <1>3
  <2>5. InFreeList(s) = {n - i}
    BY <2>3, <2>4 DEF InFreeList
  <2> QED
    BY <2>5, FS_Singleton, Zenon
<1>7. ASSUME ~Listed(s)
      PROVE  InFreeList(s) = {}
  BY <1>2, <1>3, <1>4, <1>5, <1>7 DEF InFreeList
<1> QED
  BY <1>6, <1>7

LEMMA HeldOnce ==
  ASSUME PoolInv, NEW s \in Slots
  PROVE  Cardinality(Holders(s)) = IF ownership[s].allocated THEN 1 ELSE 0
<1>1. ASSUME NEW t \in Threads, NEW h \in owned[t], h[1] = s
      PROVE  /\ ownership[s].allocated /\ h = <<s, ownership[s].generation>>
             /\ \A u \in Threads : h \in owned[u] => u = t
  <2>1. /\ ownership[h[1]] = [allocated |-> TRUE, generation |-> h[2]]
        /\ \A u \in Threads : h \in owned[u] => u = t
    BY DEF PoolInv, Handles
  <2>2. h \in Slots \X Nat
    BY DEF PoolInv, TypeInv
  <2> QED
    BY <1>1, <2>1, <2>2
<1>2. CASE ownership[s].allocated
  <2>1. PICK t \in Threads : <<s, ownership[s].generation>> \in owned[t]
    BY <1>2 DEF PoolInv, Handles
  <2>2. Holders(s) = {t}
    BY <1>1, <2>1 DEF Holders
  <2> QED
    BY <1>2, <2>2, FS_Singleton, Zenon
<1>3. CASE ~ownership[s].allocated
  <2>1. Holders(s) = {}
    BY <1>1, <1>3 DEF Holders
  <2> QED
    BY <1>3, <2>1, FS_EmptySet
<1> QED
  BY <1>2, <1>3

LEMMA CarriedOnce ==
  ASSUME PoolInv, NEW s \in Slots
  PROVE  /\ Carriers(s) = {t \in Threads : Carries(t) /\ slot[t] = s}
         /\ Cardinality(Carriers(s))
              = IF \E t \in Threads : Carries(t) /\ slot[t] = s THEN 1 ELSE 0
<1>1. Carriers(s) = {t \in Threads : Carries(t) /\ slot[t] = s}
  BY DEF Carriers, Carries, Claiming, Freeing
<1>2. ASSUME NEW t \in Threads, Carries(t) /\ slot[t] = s
      PROVE  Carriers(s) = {t}
  BY <1>1, <1>2 DEF PoolInv, Carried
<1>3. CASE \E t \in Threads : Carries(t) /\ slot[t] = s
  BY <1>1, <1>2, <1>3, FS_Singleton, Zenon
<1>4. CASE ~(\E t \in Threads : Carries(t) /\ slot[t] = s)
  <2>1. Carriers(s) = {}
    BY <1>1, <1>4
  <2> QED
    BY <1>1, <1>4, <2>1, FS_EmptySet
<1> QED
  BY <1>1, <1>3, <1>4

LEMMA Partitioned == PoolInv => SlotsPartitioned
<1> SUFFICES ASSUME PoolInv
             PROVE  SlotsPartitioned
  OBVIOUS
<1>1. ASSUME is_initialized, NEW s \in Slots
      PROVE  Cardinality(InFreeList(s)) + Cardinality(Holders(s)) + Cardinality(Carriers(s)) = 1
  <2>1. CASE ownership[s].allocated
    <3>1. ~Listed(s) /\ ~(\E t \in Threads : Carries(t) /\ slot[t] = s)
      BY <2>1 DEF Listed, PoolInv, Carried
    <3>2. Cardinality(InFreeList(s)) = 0
      BY <1>1, <3>1, ListedOnce, FS_EmptySet
    <3>3. Cardinality(Holders(s)) = 1 /\ Cardinality(Carriers(s)) = 0
      BY <2>1, <3>1, HeldOnce, CarriedOnce
    <3> QED
      BY <3>2, <3>3
  <2>2. CASE ~ownership[s].allocated /\ \E t \in Threads : Carries(t) /\ slot[t] = s
    <3>1. ~Listed(s)
      BY <2>2 DEF Listed
    <3>2. Cardinality(InFreeList(s)) = 0
      BY <1>1, <3>1, ListedOnce, FS_EmptySet
    <3>3. Cardinality(Holders(s)) = 0 /\ Cardinality(Carriers(s)) = 1
      BY <2>2, HeldOnce, CarriedOnce
    <3> QED
      BY <3>2, <3>3
  <2>3. CASE ~ownership[s].allocated /\ ~(\E t \in Threads : Carries(t) /\ slot[t] = s)
    <3>1. Listed(s)
      BY <2>3 DEF Listed
    <3>2. Cardinality(InFreeList(s)) = 1
      BY <1>1, <3>1, ListedOnce
    <3>3. Cardinality(Holders(s)) = 0 /\ Cardinality(Carriers(s)) = 0
      BY <2>3, HeldOnce, CarriedOnce
    <3> QED
      BY <3>2, <3>3
  <2> QED
    BY <2>1, <2>2, <2>3
<1>2. ASSUME NEW t \in Threads
      PROVE  /\ pc[t] \in {"alloc_seen", "alloc_own"} => ~ownership[slot[t]].allocated
             /\ pc[t] = "alloc_own" => ownership[slot[t]] = seen[t]
  BY DEF PoolInv, Carried, Carries, Claiming
<1> QED
  BY <1>1, <1>2 DEF SlotsPartitioned

LEMMA LiveHandles == PoolInv => OnlyLiveHandlesFree
<1> SUFFICES ASSUME PoolInv, NEW h \in issued
             PROVE  ownership[h[1]] = [allocated |-> TRUE, generation |-> h[2]]
                      <=> \E t \in Threads : h \in owned[t]
  BY Zenon DEF OnlyLiveHandlesFree
<1>1. h \in Slots \X Nat
  BY DEF PoolInv, TypeInv
<1>2. ASSUME ownership[h[1]] = [allocated |-> TRUE, generation |-> h[2]]
      PROVE  \E t \in Threads : h \in owned[t]
  <2>1. h[1] \in Slots /\ ownership[h[1]].allocated /\ h = <<h[1], ownership[h[1]].generation>>
    BY <1>1, <1>2
  <2> QED
    BY <2>1 DEF PoolInv, Handles
<1>3. ASSUME NEW t \in Threads, h \in owned[t]
      PROVE  ownership[h[1]] = [allocated |-> TRUE, generation |-> h[2]]
  BY <1>3 DEF PoolInv, Handles
<1> QED
  BY <1>2, <1>3, Zenon

LEMMA CleanOut == PoolInv => HandedOutClean
<1> SUFFICES ASSUME PoolInv, is_initialized, NEW s \in Slots, content[s] = "dirty"
             PROVE  /\ InFreeList(s) = {}
                    /\ \A t \in Carriers(s) : pc[t] = "free_zero"
  BY DEF HandedOutClean
<1>1. ~Listed(s)
  BY DEF PoolInv, List
<1>2. ASSUME NEW t \in Carriers(s)
      PROVE  pc[t] = "free_zero"
  <2>1. t \in Threads /\ Carries(t) /\ slot[t] = s
    BY CarriedOnce
  <2> QED
    BY <2>1 DEF PoolInv, Carried
<1> QED
  BY <1>1, <1>2, ListedOnce

(* No buffer is leaked, shared or listed twice, however calls of allocate and *)
(* free interleave, and the claim of a slot taken off the list never fails.   *)
THEOREM BuffersPartitioned ==
  ASSUME OneInitializer
  PROVE  Spec => []SlotsPartitioned
BY PoolInvariant, Partitioned, PTL

(* free accepts a handle exactly while it is live: once, from whoever has it. *)
THEOREM HandlesSpentOnce ==
  ASSUME OneInitializer
  PROVE  Spec => []OnlyLiveHandlesFree
BY PoolInvariant, LiveHandles, PTL

(* free clears a buffer before it can be handed out again. *)
THEOREM BuffersClean ==
  ASSUME OneInitializer
  PROVE  Spec => []HandedOutClean
BY PoolInvariant, CleanOut, PTL

(* With one initializer the body of init runs once, on an untouched pool. *)
THEOREM PreparedOnce ==
  ASSUME OneInitializer
  PROVE  Spec => []InitOneShot
<1>1. PoolInv => InitOneShot
  BY DEF PoolInv, Startup, InitOneShot, InitSteps
<1> QED
  BY <1>1, PoolInvariant, PTL
=============================================================================
