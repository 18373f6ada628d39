------------------------------ MODULE FfiProofs ------------------------------
(***************************************************************************)
(* The checks of both C interfaces, for every size of address space, every *)
(* size of the objects and every argument: a call that is let through has  *)
(* no region it writes in common with another argument.                    *)
(***************************************************************************)
EXTENDS FfiCall, TLAPS

\* A region that is written, and another argument that must not share a byte with it.
Conflict(f, w, r) == w \in Writes(f) /\ r \in Args(f) \ ({w} \cup Copied)

\* The pairs a wrapper compares are those in which one region is written, and the other
\* lists of its description are about its arguments.
Covers(f) ==
    /\ Writes(f) \subseteq Args(f)
    /\ \A w, r \in Args(f) :
           Conflict(f, w, r) => <<w, r>> \in f.compared \/ <<r, w>> \in f.compared
    /\ \A p \in f.compared :
           /\ p[1] \in Args(f) /\ p[2] \in Args(f)
           /\ Conflict(f, p[1], p[2]) \/ Conflict(f, p[2], p[1])
    /\ f.aligned \subseteq Args(f)
    /\ f.nonnull \cap Ranges \subseteq {"out", "bytes", "memory_base"}
    /\ "value" \in f.nonnull => "out" \in f.nonnull

-----------------------------------------------------------------------------
\* The functions that call one method, of shawncore-pq-crypto and of shawncore-rtos-sync.
CryptoMethods ==
    {session_manager_init, session_manager_destroy, session_manager_zeroize,
     session_manager_initiate_handshake, session_manager_finalize_handshake,
     session_manager_encapsulate_for_peer, session_manager_encapsulate_authenticated_v2,
     session_manager_finalize_authenticated_v2, session_manager_confirm_peer_v2,
     ml_kem_keygen, ml_kem_encapsulate, ml_kem_decapsulate, ml_kem_decapskey_destroy,
     ml_kem_sharedkey_destroy, ml_dsa_keygen, ml_dsa_sign, ml_dsa_verify,
     ml_dsa_signingkey_destroy, x25519_keygen, x25519_diffie_hellman, x25519_secret_destroy,
     x25519_sharedsecret_destroy, wire_to_bytes, wire_from_bytes, hmac_sha384, entropy_push}

RtosMethods ==
    {scheduler_init, scheduler_destroy, scheduler_create_task, scheduler_tick,
     scheduler_set_critical_task_mask, scheduler_task_check_in, tcb_new, tcb_get_rsp,
     tcb_set_rsp, dmapool2k_destroy, dmapool2k_allocate, dmapool2k_free,
     spsc_telemetry_destroy, spsc_telemetry_push, spsc_telemetry_pop, ringbuffer_ew_destroy,
     ringbuffer_ew_push, ringbuffer_ew_pop, ringbuffer_ew_peek, spsc_fft_destroy,
     spsc_fft_push, spsc_fft_pop, state_machine_init, state_machine_destroy,
     state_machine_try_advance, latency_tracker_init, latency_tracker_destroy,
     latency_tracker_mark_start, latency_tracker_mark_end}

\* All functions of the two crates.
CryptoFunctions ==
    CryptoMethods \cup {session_manager_encrypt_packet, session_manager_decrypt_packet,
                        aead_encrypt, aead_decrypt, hkdf_expand_sha384}

RtosFunctions ==
    RtosMethods \cup {dmapool2k_init, spsc_telemetry_init, ringbuffer_ew_init, spsc_fft_init}

\* There are no others.
LEMMA AllListed ==
    ASSUME NEW e \in Entries
    PROVE  Functions[e] \in CryptoFunctions \cup RtosFunctions
  BY DEF Entries, Functions, CryptoFunctions, RtosFunctions, CryptoMethods, RtosMethods

\* The functions with steps of their own: packets, inits with a region and HKDF-Expand.
Packets == {"session_manager_encrypt_packet", "session_manager_decrypt_packet",
            "aead_encrypt", "aead_decrypt"}
Backed == {"dmapool2k_init", "spsc_telemetry_init", "ringbuffer_ew_init", "spsc_fft_init"}
Special == Packets \cup Backed \cup {"hkdf_expand_sha384"}

\* A function whose body has no steps of its own is in one of the two lists of methods.
LEMMA MethodsListed ==
    ASSUME NEW e \in Entries \ Special
    PROVE  Functions[e] \in CryptoMethods \cup RtosMethods
  <1>1. /\ "session_manager_encrypt_packet" \in Special /\ "session_manager_decrypt_packet" \in Special
        /\ "aead_encrypt" \in Special /\ "aead_decrypt" \in Special
        /\ "hkdf_expand_sha384" \in Special
        /\ "dmapool2k_init" \in Special /\ "spsc_telemetry_init" \in Special
        /\ "ringbuffer_ew_init" \in Special /\ "spsc_fft_init" \in Special
    BY DEF Special, Packets, Backed
  <1>2. Functions[e] \in CryptoMethods \cup RtosMethods
    BY <1>1 DEF Entries, Functions, CryptoMethods, RtosMethods
  <1> QED  BY <1>2

-----------------------------------------------------------------------------
\* Functions with nothing to compare: those of one argument, and those that copy the other.
LEMMA UncomparedCovers ==
    ASSUME NEW f, f.compared = {}, f.slices = {}, f.aligned = f.nonnull,
           Writes(f) \subseteq f.nonnull, f.nonnull \cap Ranges = {}, "value" \notin f.nonnull,
           \A w \in Writes(f) : f.nonnull \subseteq {w} \cup Copied
    PROVE  Covers(f)
  BY DEF Covers, Conflict, Args

\* writable_regions_overlap compares what has to be compared.
LEMMA WritableCovers ==
    ASSUME NEW f, f.compared = writable_regions_overlap(Args(f), Writes(f)),
           Writes(f) \subseteq Args(f), f.aligned \subseteq Args(f), Args(f) \cap Copied = {},
           f.nonnull \cap Ranges = {}, "value" \notin f.nonnull
    PROVE  Covers(f)
  <1>1. \A w, r \in Args(f) : Conflict(f, w, r) => <<w, r>> \in f.compared
    BY DEF Conflict, writable_regions_overlap
  <1>2. ASSUME NEW p \in f.compared
        PROVE  /\ p[1] \in Args(f) /\ p[2] \in Args(f)
               /\ Conflict(f, p[1], p[2]) \/ Conflict(f, p[2], p[1])
    BY DEF Conflict, writable_regions_overlap
  <1> QED  BY <1>1, <1>2 DEF Covers

\* The lists of the functions of shawncore-pq-crypto are complete, and have no more
\* than they need.
LEMMA CryptoCovers ==
    \A f \in CryptoFunctions : Covers(f)
  <1>0. \A role : role \notin Ranges /\ role # "value" => Covers(OfObject(role))
    BY UncomparedCovers DEF OfObject, Function, Writes
  <1>1. /\ Covers(session_manager_init)
        /\ Covers(session_manager_destroy)
        /\ Covers(session_manager_zeroize)
        /\ Covers(ml_kem_decapskey_destroy)
        /\ Covers(ml_kem_sharedkey_destroy)
        /\ Covers(ml_dsa_signingkey_destroy)
        /\ Covers(x25519_secret_destroy)
        /\ Covers(x25519_sharedsecret_destroy)
    BY <1>0 DEF Ranges, session_manager_init,
           session_manager_destroy, session_manager_zeroize, ml_kem_decapskey_destroy,
           ml_kem_sharedkey_destroy, ml_dsa_signingkey_destroy, x25519_secret_destroy,
           x25519_sharedsecret_destroy
  <1>2. Covers(session_manager_encapsulate_authenticated_v2)
    BY WritableCovers DEF session_manager_encapsulate_authenticated_v2, Function, Args, Writes,
           Ranges, Copied
  <1>3. Covers(session_manager_finalize_authenticated_v2)
    BY WritableCovers DEF session_manager_finalize_authenticated_v2, Function, Args, Writes,
           Ranges, Copied
  <1>4. Covers(session_manager_confirm_peer_v2)
    BY WritableCovers DEF session_manager_confirm_peer_v2, Function, Args, Writes,
           Ranges, Copied
  <1> USE DEF Covers, Conflict, Ranges, Writes, Args, Function, With, Copied
  <1>5. Covers(session_manager_initiate_handshake)
    BY DEF session_manager_initiate_handshake
  <1>6. Covers(session_manager_finalize_handshake)
    BY DEF session_manager_finalize_handshake
  <1>7. Covers(session_manager_encapsulate_for_peer)
    BY DEF session_manager_encapsulate_for_peer
  <1>8. Covers(session_manager_encrypt_packet)
    BY DEF session_manager_encrypt_packet,
           session_encrypt_buffers_overlap
  <1>9. Covers(session_manager_decrypt_packet)
    BY DEF session_manager_decrypt_packet,
           session_decrypt_buffers_overlap
  <1>10. Covers(aead_encrypt)
    BY DEF aead_encrypt,
           aead_encrypt_buffers_overlap
  <1>11. Covers(aead_decrypt)
    BY DEF aead_decrypt,
           aead_decrypt_buffers_overlap
  <1>12. Covers(ml_kem_keygen)
    BY DEF ml_kem_keygen
  <1>13. Covers(ml_kem_encapsulate)
    BY DEF ml_kem_encapsulate
  <1>14. Covers(ml_kem_decapsulate)
    BY DEF ml_kem_decapsulate
  <1>15. Covers(ml_dsa_keygen)
    BY DEF ml_dsa_keygen
  <1>16. Covers(ml_dsa_sign)
    BY DEF ml_dsa_sign
  <1>17. Covers(ml_dsa_verify)
    BY DEF ml_dsa_verify
  <1>18. Covers(x25519_keygen)
    BY DEF x25519_keygen
  <1>19. Covers(x25519_diffie_hellman)
    BY DEF x25519_diffie_hellman
  <1>20. Covers(wire_to_bytes)
    BY DEF wire_to_bytes
  <1>21. Covers(wire_from_bytes)
    BY DEF wire_from_bytes
  <1>22. Covers(hmac_sha384)
    BY DEF hmac_sha384
  <1>23. Covers(hkdf_expand_sha384)
    BY DEF hkdf_expand_sha384
  <1>24. Covers(entropy_push)
    BY DEF entropy_push
  <1> HIDE DEF Covers, Conflict, Ranges, Writes, Args, Function, With, Copied
  <1> QED  BY <1>1, <1>2, <1>3, <1>4, <1>5, <1>6, <1>7, <1>8, <1>9, <1>10, <1>11, <1>12,
           <1>13, <1>14, <1>15, <1>16, <1>17, <1>18, <1>19, <1>20, <1>21, <1>22, <1>23,
           <1>24 DEF CryptoFunctions, CryptoMethods

\* So are those of shawncore-rtos-sync.
LEMMA RtosCovers ==
    \A f \in RtosFunctions : Covers(f)
  <1>0. /\ \A role : role \notin Ranges /\ role # "value" =>
               Covers(Changing(role)) /\ Covers(Reading(role))
        /\ \A role, item :
               {role, item} \cap Ranges = {} /\ "value" \notin {role, item} /\ item \in Copied
               => Covers(Pushing(role, item))
    BY UncomparedCovers, Zenon DEF Changing, Reading, Pushing, Function, Writes
  <1>1. /\ Covers(scheduler_init)
        /\ Covers(scheduler_tick)
        /\ Covers(scheduler_set_critical_task_mask)
        /\ Covers(scheduler_task_check_in)
        /\ Covers(tcb_set_rsp)
        /\ Covers(dmapool2k_free)
        /\ Covers(state_machine_init)
        /\ Covers(state_machine_try_advance)
        /\ Covers(latency_tracker_init)
        /\ Covers(latency_tracker_mark_start)
        /\ Covers(latency_tracker_mark_end)
    BY <1>0 DEF Ranges, scheduler_init,
           scheduler_tick, scheduler_set_critical_task_mask, scheduler_task_check_in,
           tcb_set_rsp, dmapool2k_free, state_machine_init, state_machine_try_advance,
           latency_tracker_init, latency_tracker_mark_start, latency_tracker_mark_end
  <1>2. /\ Covers(scheduler_destroy)
        /\ Covers(tcb_get_rsp)
        /\ Covers(dmapool2k_destroy)
        /\ Covers(spsc_telemetry_destroy)
        /\ Covers(ringbuffer_ew_destroy)
        /\ Covers(spsc_fft_destroy)
        /\ Covers(state_machine_destroy)
        /\ Covers(latency_tracker_destroy)
    BY <1>0 DEF Ranges, scheduler_destroy,
           tcb_get_rsp, dmapool2k_destroy, spsc_telemetry_destroy,
           ringbuffer_ew_destroy, spsc_fft_destroy, state_machine_destroy,
           latency_tracker_destroy
  <1>3. /\ Covers(scheduler_create_task)
        /\ Covers(spsc_telemetry_push)
        /\ Covers(ringbuffer_ew_push)
        /\ Covers(spsc_fft_push)
    BY <1>0 DEF Ranges, Copied, scheduler_create_task,
           spsc_telemetry_push, ringbuffer_ew_push, spsc_fft_push
  <1> USE DEF Covers, Conflict, Ranges, Writes, Args, Function, With, Copied
  <1>4. Covers(tcb_new)
    BY DEF tcb_new
  <1>5. /\ Covers(dmapool2k_init)
        /\ Covers(spsc_telemetry_init)
        /\ Covers(ringbuffer_ew_init)
        /\ Covers(spsc_fft_init)
    BY DEF WithBacking, dmapool2k_init,
           spsc_telemetry_init, ringbuffer_ew_init, spsc_fft_init
  <1>6. Covers(dmapool2k_allocate)
    BY DEF dmapool2k_allocate
  <1>7. /\ Covers(spsc_telemetry_pop)
        /\ Covers(ringbuffer_ew_pop)
        /\ Covers(spsc_fft_pop)
    BY DEF Popping, spsc_telemetry_pop,
           ringbuffer_ew_pop, spsc_fft_pop
  <1>8. Covers(ringbuffer_ew_peek)
    BY DEF ringbuffer_ew_peek
  <1> HIDE DEF Covers, Conflict, Ranges, Writes, Args, Function, With, Copied
  <1> QED  BY <1>1, <1>2, <1>3, <1>4, <1>5, <1>6, <1>7, <1>8 DEF RtosFunctions, RtosMethods


\* The body runs only for calls its wrapper accepted, and only those it refused stop.
IInv ==
    /\ call \in Calls /\ IsCall(call)
    /\ Accepted => ~Refused(call, F)
    /\ pc = "refused" => Refused(call, F)

-----------------------------------------------------------------------------
\* Pointers are addresses, lengths natural numbers.
LEMMA ArgumentType ==
    ASSUME NEW c, IsCall(c), NEW r \in Args(Functions[c.entry])
    PROVE  c.ptr[r] \in Int /\ Length(c, r) \in Nat
  <1>1. c.ptr[r] \in Address
    BY DEF IsCall
  <1>2. CASE r \in Ranges
    <2> DEFINE lens == {LengthArg(q) : q \in Args(Functions[c.entry]) \cap Ranges}
    <2>1. LengthArg(r) \in lens
      BY <1>2
    <2>2. c.len \in [lens -> Address]
      BY DEF IsCall
    <2>3. c.len[LengthArg(r)] \in Address
      BY <2>1, <2>2
    <2> QED  BY <1>1, <1>2, <2>3 DEF Length, Address
  <1>3. CASE r \notin Ranges
    <2>1. r \in Roles
      BY DEF Roles, IsCall
    <2> QED  BY <1>1, <1>3, <2>1, CallAssumption DEF Length, Address
  <1> QED  BY <1>2, <1>3

\* ranges_overlap is complete: when it says no, the two ranges share no byte.
LEMMA OverlapComplete ==
    ASSUME NEW c, IsCall(c),
           NEW r \in Args(Functions[c.entry]), NEW s \in Args(Functions[c.entry]),
           ~ranges_overlap(c.ptr[r], Length(c, r), c.ptr[s], Length(c, s))
    PROVE  Bytes(c, r) \cap Bytes(c, s) = {}
  <1>1. /\ c.ptr[r] \in Int /\ Length(c, r) \in Nat
        /\ c.ptr[s] \in Int /\ Length(c, s) \in Nat
    BY ArgumentType
  <1>2. ASSUME NEW a \in Bytes(c, r), a \in Bytes(c, s)
        PROVE  FALSE
    <2>1. /\ a \in Int
          /\ c.ptr[r] <= a /\ a < c.ptr[r] + Length(c, r)
          /\ c.ptr[s] <= a /\ a < c.ptr[s] + Length(c, s)
      BY <1>1, <1>2 DEF Bytes
    <2> QED  BY <1>1, <2>1 DEF ranges_overlap
  <1> QED  BY <1>2

\* The description of every function is complete.
LEMMA AllCover ==
    ASSUME NEW e \in Entries
    PROVE  Covers(Functions[e])
  BY AllListed, CryptoCovers, RtosCovers

\* A call that is not refused is disjoint where it writes.
LEMMA AcceptedIsDisjoint ==
    ASSUME NEW c, IsCall(c), ~Refused(c, Functions[c.entry])
    PROVE  Disjoint(c, Functions[c.entry])
  <1> DEFINE f == Functions[c.entry]
  <1>1. Covers(f)
    BY AllCover DEF IsCall
  <1>2. SUFFICES ASSUME NEW w \in Writes(f), NEW r \in Args(f) \ ({w} \cup Copied)
                 PROVE  Bytes(c, w) \cap Bytes(c, r) = {}
    BY DEF Disjoint
  <1>3. w \in Args(f) /\ (<<w, r>> \in f.compared \/ <<r, w>> \in f.compared)
    BY <1>1 DEF Covers, Conflict
  <1>4. ~Overlap(c, f)
    BY DEF Refused
  <1>5. CASE <<w, r>> \in f.compared
    <2>1. ~ranges_overlap(c.ptr[w], Length(c, w), c.ptr[r], Length(c, r))
      BY <1>4, <1>5 DEF Overlap
    <2> QED  BY <1>3, <2>1, OverlapComplete
  <1>6. CASE <<r, w>> \in f.compared
    <2>1. ~ranges_overlap(c.ptr[r], Length(c, r), c.ptr[w], Length(c, w))
      BY <1>4, <1>6 DEF Overlap
    <2>2. Bytes(c, r) \cap Bytes(c, w) = {}
      BY <1>3, <2>1, OverlapComplete
    <2> QED  BY <2>2
  <1> QED  BY <1>3, <1>5, <1>6

\* Two intervals that cross have a point in common.
LEMMA IntervalsMeet ==
    ASSUME NEW p \in Int, NEW m \in Nat, p >= 0, p + m < AddressSpace,
           NEW q \in Int, NEW n \in Nat, q >= 0, q + n < AddressSpace,
           m > 0, n > 0, p < q + n, q < p + m
    PROVE  (p .. p + m - 1) \cap Address \cap ((q .. q + n - 1) \cap Address) # {}
  <1>1. CASE p < q
    <2>1. q \in p .. p + m - 1 /\ q \in q .. q + n - 1 /\ q \in Address
      BY <1>1, CheckAssumption DEF Address
    <2> QED  BY <2>1
  <1>2. CASE ~(p < q)
    <2>1. p \in p .. p + m - 1 /\ p \in q .. q + n - 1 /\ p \in Address
      BY <1>2, CheckAssumption DEF Address
    <2> QED  BY <2>1
  <1> QED  BY <1>1, <1>2

\* ranges_overlap says nothing but the truth of ranges within the address space.
LEMMA OverlapReal ==
    ASSUME NEW c, IsCall(c),
           NEW r \in Args(Functions[c.entry]), NEW s \in Args(Functions[c.entry]),
           Length(c, r) > 0 => c.ptr[r] + Length(c, r) < AddressSpace,
           Length(c, s) > 0 => c.ptr[s] + Length(c, s) < AddressSpace,
           ranges_overlap(c.ptr[r], Length(c, r), c.ptr[s], Length(c, s))
    PROVE  Bytes(c, r) \cap Bytes(c, s) # {}
  <1>0. c.ptr[r] \in Address /\ c.ptr[s] \in Address
    BY DEF IsCall
  <1>1. /\ c.ptr[r] \in Int /\ Length(c, r) \in Nat /\ c.ptr[r] >= 0
        /\ c.ptr[s] \in Int /\ Length(c, s) \in Nat /\ c.ptr[s] >= 0
    BY <1>0, ArgumentType DEF Address
  <1>2. /\ c.ptr[r] < c.ptr[s] + Length(c, s) /\ c.ptr[s] < c.ptr[r] + Length(c, r)
        /\ c.ptr[r] + Length(c, r) < AddressSpace /\ c.ptr[s] + Length(c, s) < AddressSpace
        /\ Length(c, r) > 0 /\ Length(c, s) > 0
    BY <1>1, CheckAssumption DEF ranges_overlap, Overflows
  <1>3. (c.ptr[r] .. c.ptr[r] + Length(c, r) - 1) \cap Address
             \cap ((c.ptr[s] .. c.ptr[s] + Length(c, s) - 1) \cap Address) # {}
    BY <1>1, <1>2, IntervalsMeet
  <1> QED  BY <1>3 DEF Bytes

\* A valid call is not refused: each reason for a refusal contradicts it.
LEMMA ValidNotRefused ==
    ASSUME NEW c, IsCall(c), ValidCall(c, Functions[c.entry])
    PROVE  ~Refused(c, Functions[c.entry])
  <1> DEFINE f == Functions[c.entry]
  <1>1. Covers(f)
    BY AllCover DEF IsCall
  <1>2. \A r \in Args(f) : /\ c.ptr[r] \in Int /\ Length(c, r) \in Nat
                           /\ Length(c, r) > 0 => c.ptr[r] + Length(c, r) < AddressSpace
                           /\ Length(c, r) > 0 => c.ptr[r] # 0
    BY ArgumentType DEF ValidCall
  <1>3. \A r \in f.nonnull : Length(c, r) > 0
    <2>1. SUFFICES ASSUME NEW r \in f.nonnull PROVE Length(c, r) > 0
      OBVIOUS
    <2>2. CASE r \in Ranges
      <3>1. r \in {"out", "bytes", "memory_base"}
        BY <1>1, <2>2 DEF Covers
      <3>2. CASE r \in {"out", "bytes"}
        BY <3>2, CheckAssumption DEF ValidCall
      <3>3. CASE r = "memory_base"
        <4>1. Length(c, r) >= Slots * SlotSize /\ Length(c, r) \in Nat
          BY <1>2, <3>3 DEF ValidCall, Args
        <4>2. Slots * SlotSize > 0 /\ Slots * SlotSize \in Nat
          BY CheckAssumption
        <4> QED  BY <4>1, <4>2
      <3> QED  BY <3>1, <3>2, <3>3
    <2>3. CASE r \notin Ranges
      <3>1. r \in Roles
        BY DEF Roles, IsCall, Args
      <3> QED  BY <2>3, <3>1, CallAssumption DEF Length
    <2> QED  BY <2>2, <2>3
  <1>4. ~NullArgument(c, f)
    BY <1>2, <1>3 DEF NullArgument, is_null, Args
  <1>5. \A r \in f.aligned : ptr_is_aligned(c, r)
    BY DEF ValidCall, ptr_is_aligned
  <1>6. ~Overlap(c, f)
    <2>1. SUFFICES ASSUME NEW p \in f.compared,
                          ranges_overlap(c.ptr[p[1]], Length(c, p[1]), c.ptr[p[2]], Length(c, p[2]))
                   PROVE  FALSE
      BY DEF Overlap
    <2>2. /\ p[1] \in Args(f) /\ p[2] \in Args(f)
          /\ Conflict(f, p[1], p[2]) \/ Conflict(f, p[2], p[1])
      BY <1>1 DEF Covers
    <2>3. Bytes(c, p[1]) \cap Bytes(c, p[2]) # {}
      BY <1>2, <2>1, <2>2, OverlapReal
    <2>4. Bytes(c, p[1]) \cap Bytes(c, p[2]) = {} \/ Bytes(c, p[2]) \cap Bytes(c, p[1]) = {}
      BY <2>2 DEF ValidCall, Disjoint, Conflict
    <2> QED  BY <2>3, <2>4
  <1>7. "memory_base" \in f.nonnull => valid_dma_region(c)
    <2>1. SUFFICES ASSUME "memory_base" \in f.nonnull PROVE valid_dma_region(c)
      OBVIOUS
    <2>2. /\ Length(c, "memory_base") >= Required
          /\ c.ptr["memory_base"] % Page = 0 /\ ptr_is_aligned(c, "memory_base")
      BY <2>1 DEF ValidCall, Required, ptr_is_aligned
    <2>3. Required \in Nat
      BY CheckAssumption DEF Required
    <2>4. /\ Length(c, "memory_base") > 0 /\ Length(c, "memory_base") \in Nat
          /\ c.ptr["memory_base"] \in Int /\ c.ptr["memory_base"] # 0
          /\ c.ptr["memory_base"] + Length(c, "memory_base") < AddressSpace
      BY <1>2, <1>3, <2>1 DEF Args
    <2>5. ~Overflows(c.ptr["memory_base"], Required)
      BY <2>2, <2>3, <2>4, CheckAssumption DEF Overflows
    <2> QED  BY <2>2, <2>4, <2>5 DEF valid_dma_region, is_null
  <1>8. \A r \in f.slices : range_ok(c.ptr[r], Length(c, r))
    <2>1. SUFFICES ASSUME NEW r \in f.slices PROVE range_ok(c.ptr[r], Length(c, r))
      OBVIOUS
    <2>2. /\ c.ptr[r] \in Int /\ Length(c, r) \in Nat /\ Length(c, r) <= MaxSlice
          /\ Length(c, r) > 0 => c.ptr[r] + Length(c, r) < AddressSpace
      BY <1>2 DEF Args, ValidCall
    <2> QED  BY <2>2, CheckAssumption DEF range_ok, slice_len_valid, Overflows
  <1>9. "plaintext" \in f.slices => packet_len_valid(Length(c, "plaintext"))
    BY DEF ValidCall, packet_len_valid, slice_len_valid
  <1>10. "app_info" \in f.slices => ~(Length(c, "app_info") > MaxAppInfo)
    <2>1. "app_info" \in f.slices => Length(c, "app_info") \in Nat
      BY <1>2 DEF Args
    <2> QED  BY <2>1, CheckAssumption DEF ValidCall
  <1>11. /\ "value" \in f.nonnull => Length(c, "out") = WireLen
         /\ "bytes" \in f.nonnull => Length(c, "bytes") = WireLen
    BY <1>1 DEF ValidCall, Covers
  <1>12. ~BadLength(c, f)
    BY <1>7, <1>8, <1>9, <1>10, <1>11 DEF BadLength
  <1> QED  BY <1>4, <1>5, <1>6, <1>12 DEF Refused

-----------------------------------------------------------------------------
\* A step leaves the arguments alone, and only Check enters the body.
LEMMA NextPreserves ==
    ASSUME IInv, [Next]_vars
    PROVE  IInv'
  <1> USE DEF IInv, Accepted, F, Goto, Return
  <1>1. CASE Check
    BY <1>1 DEF Check, Body
  <1>2. CASE Method \/ MethodFails \/ Write
    BY <1>2 DEF Method, MethodFails, Write
  <1>3. CASE WriteNew \/ InitRegion
    BY <1>3 DEF WriteNew, InitRegion
  <1>4. CASE Expand \/ ExpandBlock
    BY <1>4 DEF Expand, ExpandBlock
  <1>5. CASE Session \/ Verify \/ Copy
    BY <1>5, Zenon DEF Session, Verify, Copy
  <1>6. CASE ApplyKeystream \/ ComputeMac \/ Commit
    BY <1>6 DEF ApplyKeystream, ComputeMac, Commit
  <1>7. CASE UNCHANGED vars
    BY <1>7 DEF vars
  <1> QED  BY <1>1, <1>2, <1>3, <1>4, <1>5, <1>6, <1>7 DEF Next

\* The checks of every function of both C interfaces are complete: a call whose body
\* runs has no region that is written in common with any other argument, for every
\* address space, size of the objects, and pointers and lengths a host may pass.
THEOREM AllDisjoint == Spec => []AcceptedDisjoint
  <1>1. Init => IInv
    BY CallAssumption DEF Init, IInv, Accepted
  <1>2. IInv /\ [Next]_vars => IInv'
    BY NextPreserves
  <1>3. IInv => AcceptedDisjoint
    BY AcceptedIsDisjoint DEF IInv, AcceptedDisjoint, F
  <1> QED  BY <1>1, <1>2, <1>3, PTL DEF Spec

\* The checks refuse nothing they should accept: for every address space, size of the
\* objects, pointers and lengths, a refused call is not a valid one.
THEOREM ValidCallsAccepted == Spec => []ValidAccepted
  <1>1. Init => IInv
    BY CallAssumption DEF Init, IInv, Accepted
  <1>2. IInv /\ [Next]_vars => IInv'
    BY NextPreserves
  <1>3. IInv => ValidAccepted
    BY ValidNotRefused DEF IInv, ValidAccepted, F
  <1> QED  BY <1>1, <1>2, <1>3, PTL DEF Spec

-----------------------------------------------------------------------------
\* What a call leaves in the host's memory.  The operators of FfiCall for a call c, so that
\* a step is seen to leave them alone.
SliceOf(c, m, role) ==
    [i \in 0 .. Length(c, role) - 1 |-> At(m, (c.ptr[role] + i) % AddressSpace)]

PutOf(c, m, role, f) ==
    [a \in DOMAIN m \cup Bytes(c, role) |->
        IF a \in Bytes(c, role) THEN f[a - c.ptr[role]] ELSE m[a]]

SameOf(c, role, byte) == [i \in 0 .. Length(c, role) - 1 |-> byte]

Sessions == {"session_manager_encrypt_packet", "session_manager_decrypt_packet"}
Encrypts == {"session_manager_encrypt_packet", "aead_encrypt"}

InputOf(c) == IF c.entry \in Encrypts THEN "plaintext" ELSE "ciphertext"
OutputOf(c) == IF c.entry \in Encrypts THEN "ciphertext" ELSE "plaintext"

KeyFor(c, m, h, role) ==
    IF c.entry \in Sessions THEN [i \in {0} |-> <<role, h>>] ELSE SliceOf(c, m, role)

NonceFor(c, m, h) ==
    IF c.entry = "session_manager_encrypt_packet" THEN PendingNonce(h)
    ELSE SliceOf(c, m, "nonce")

\* The text and the tag of a packet, made from the memory before the call.
TextFor(c, h) ==
    [i \in 0 .. Length(c, InputOf(c)) - 1 |->
        Keystream(KeyFor(c, Host, h, "enc_key"), NonceFor(c, Host, h), i, SliceOf(c, Host, InputOf(c))[i])]

TagFor(c, h) ==
    [i \in 0 .. Size["tag"] - 1 |->
        HmacTag(KeyFor(c, Host, h, "mac_key"), NonceFor(c, Host, h), SliceOf(c, Host, "aad"),
                TextFor(c, h), i)]

ContentOf(c, role, i) ==
    CASE c.entry \in Fresh -> <<"new", i>>
      [] c.entry \in Wiping -> Zero
      [] OTHER -> <<"made", role, i>>

MadeOf(c, role) == [i \in 0 .. Length(c, role) - 1 |-> ContentOf(c, role, i)]

ReadOf(c) == [r \in Inputs(Functions[c.entry]) |-> SliceOf(c, Host, r)]

\* The arguments of call c other than those in S are as they were.
Kept(c, w, S) ==
    \A r \in Args(Functions[c.entry]) \ S : SliceOf(c, w, r) = SliceOf(c, Host, r)

\* The steps of each kind of function.
Labels(c, p) ==
    /\ p \in {"method", "write"} => c.entry \in Entries \ Special
    /\ p \in {"new", "init"} => c.entry \in Backed
    /\ p \in {"expand", "block"} => c.entry = "hkdf_expand_sha384"
    /\ p \in {"session", "commit"} => c.entry \in Sessions
    /\ p \in {"verify", "copy", "keystream", "mac"} => c.entry \in Packets
    /\ p = "verify" => c.entry \notin Encrypts
    /\ p = "mac" => c.entry \in Encrypts

\* Nothing is written before the body copies, fills or makes something.
Untouched(w, p) ==
    p \in {"check", "refused", "method", "new", "expand", "session", "verify", "copy"} => w = Host

\* Packets, step by step.
PacketSteps(c, w, h, p) ==
    /\ p \in {"verify", "copy", "keystream", "mac", "commit"} /\ c.entry \in Sessions =>
           h = At(Host, c.ptr["manager"])
    /\ p = "keystream" =>
           Kept(c, w, {OutputOf(c)}) /\ SliceOf(c, w, OutputOf(c)) = SliceOf(c, Host, InputOf(c))
    /\ p = "mac" => Kept(c, w, {OutputOf(c)}) /\ SliceOf(c, w, OutputOf(c)) = TextFor(c, h)
    /\ p = "commit" =>
           /\ Kept(c, w, {OutputOf(c)} \cup (IF c.entry \in Encrypts THEN {"tag"} ELSE {}))
           /\ SliceOf(c, w, OutputOf(c)) = TextFor(c, h)
           /\ c.entry \in Encrypts => SliceOf(c, w, "tag") = TagFor(c, h)

\* HKDF-Expand after k blocks.
ExpandSteps(c, w, h, t, p) ==
    p = "block" =>
        \E k \in 0 .. Length(c, "out") - 1 :
            /\ t = k .. Length(c, "out") - 1
            /\ h = SliceOf(c, Host, "prk")
            /\ SliceOf(c, w, "info") = SliceOf(c, Host, "info")
            /\ \A i \in 0 .. k - 1 :
                   At(w, c.ptr["out"] + i)
                       = Okm(SliceOf(c, Host, "prk"), SliceOf(c, Host, "info"), i)

\* The outputs written so far.
WriteSteps(c, w, h, t, p) ==
    p = "write" =>
        /\ t \subseteq Functions[c.entry].outs /\ t # {}
        /\ h = ReadOf(c)
        /\ \A r \in Writes(Functions[c.entry]) \ t : SliceOf(c, w, r) = MadeOf(c, r)

\* A successful call.
Right(c, w, h) ==
    /\ c.entry \in Packets =>
         /\ SliceOf(c, w, OutputOf(c)) = TextFor(c, h)
         /\ c.entry \in Encrypts => SliceOf(c, w, "tag") = TagFor(c, h)
         /\ c.entry = "session_manager_encrypt_packet" =>
                SliceOf(c, w, "nonce") = NonceFor(c, Host, h)
         /\ c.entry \in Sessions =>
                /\ h = At(Host, c.ptr["manager"])
                /\ SliceOf(c, w, "manager") = SameOf(c, "manager", Advanced(h, NonceFor(c, Host, h)))
    /\ c.entry = "hkdf_expand_sha384" =>
         SliceOf(c, w, "out") = [i \in 0 .. Length(c, "out") - 1 |->
                                 Okm(SliceOf(c, Host, "prk"), SliceOf(c, Host, "info"), i)]
    /\ c.entry \in Backed =>
         /\ \A o \in Functions[c.entry].object : SliceOf(c, w, o) = SameOf(c, o, <<"ready">>)
         /\ "pool" \notin Functions[c.entry].object =>
                \A n \in 0 .. Slots - 1 :
                    w[c.ptr["memory_base"] + n * SlotSize] = <<"counter">>
    /\ c.entry \notin Special =>
         h = ReadOf(c) /\ \A r \in Writes(Functions[c.entry]) : SliceOf(c, w, r) = MadeOf(c, r)

\* A call that fails has written nothing, or has wiped one region.
Failed(c, w, p, res) ==
    p \in {"refused", "done"} /\ ~(p = "done" /\ res = "success") =>
        \/ w = Host /\ res # "wrong tag"
        \/ /\ res = "wrong tag" /\ c.entry \in Packets
           /\ w = PutOf(c, Host, "plaintext", SameOf(c, "plaintext", Zero))
        \/ /\ res = "failed" /\ c.entry = "hkdf_expand_sha384"
           /\ w = PutOf(c, Host, "out", SameOf(c, "out", Zero))
        \/ /\ res = "failed" /\ c.entry \in EndsSession
           /\ w = PutOf(c, Host, "manager", SameOf(c, "manager", Zero))

Memory(c, w, h, t, p, res) ==
    /\ Labels(c, p) /\ Untouched(w, p)
    /\ PacketSteps(c, w, h, p) /\ ExpandSteps(c, w, h, t, p) /\ WriteSteps(c, w, h, t, p)
    /\ p = "done" /\ res = "success" => Right(c, w, h)
    /\ Failed(c, w, p, res)

MemoryInv == Memory(call, written, held, todo, pc, result)

-----------------------------------------------------------------------------
\* Reading what was written.

\* A region that ends within the address space.
Fits(c, r) == Length(c, r) = 0 \/ c.ptr[r] + Length(c, r) <= AddressSpace

\* No byte of argument r is written when w is.
Misses(c, w, r) ==
    \A i \in 0 .. Length(c, r) - 1 : (c.ptr[r] + i) % AddressSpace \notin Bytes(c, w)

\* An address that does not wrap.
LEMMA NoWrap ==
    ASSUME NEW a \in Nat, a < AddressSpace
    PROVE  a % AddressSpace = a /\ a \in Address
  BY CheckAssumption DEF Address

\* A byte of a region that fits.
LEMMA ByteOf ==
    ASSUME NEW c, IsCall(c), NEW r \in Args(Functions[c.entry]), Fits(c, r),
           NEW i \in 0 .. Length(c, r) - 1
    PROVE  /\ (c.ptr[r] + i) % AddressSpace = c.ptr[r] + i
           /\ c.ptr[r] + i \in Bytes(c, r) /\ (c.ptr[r] + i) - c.ptr[r] = i
  <1>1. c.ptr[r] \in Nat /\ Length(c, r) \in Nat
    <2>1. c.ptr[r] \in Address
      BY DEF IsCall
    <2>2. Length(c, r) \in Nat
      BY ArgumentType
    <2> QED  BY <2>1, <2>2, CheckAssumption DEF Address
  <1> DEFINE a == c.ptr[r] + i
  <1>2. a \in Nat /\ a < AddressSpace /\ a - c.ptr[r] = i
    BY <1>1, CheckAssumption DEF Fits
  <1>3. a % AddressSpace = a /\ a \in Address
    <2> HIDE DEF a
    <2> QED  BY <1>2, NoWrap
  <1>4. a \in c.ptr[r] .. c.ptr[r] + Length(c, r) - 1
    BY <1>1
  <1> QED  BY <1>2, <1>3, <1>4 DEF Bytes

\* As much of f as argument r has room for.
Cut(c, r, f) == [i \in 0 .. Length(c, r) - 1 |-> f[i]]

\* A region that fits holds what was put there.
LEMMA PutThere ==
    ASSUME NEW c, IsCall(c), NEW r \in Args(Functions[c.entry]), Fits(c, r)
    PROVE  \A m, f : SliceOf(c, PutOf(c, m, r, f), r) = Cut(c, r, f)
  <1> TAKE m, f
  <1>1. ASSUME NEW i \in 0 .. Length(c, r) - 1
        PROVE  At(PutOf(c, m, r, f), (c.ptr[r] + i) % AddressSpace) = f[i]
    <2> DEFINE a == c.ptr[r] + i
    <2>1. a % AddressSpace = a /\ a \in Bytes(c, r) /\ a - c.ptr[r] = i
      BY ByteOf
    <2> HIDE DEF a
    <2>2. At(PutOf(c, m, r, f), a) = f[i]
      BY <2>1 DEF At, PutOf
    <2> QED  BY <2>1, <2>2 DEF a
  <1> QED  BY <1>1 DEF SliceOf, Cut

\* A region that is missed holds what it held.
LEMMA PutElsewhere ==
    ASSUME NEW c, NEW w, NEW r, Misses(c, w, r)
    PROVE  \A m, f : SliceOf(c, PutOf(c, m, w, f), r) = SliceOf(c, m, r)
  <1> TAKE m, f
  <1>1. ASSUME NEW a, a \notin Bytes(c, w)
        PROVE  At(PutOf(c, m, w, f), a) = At(m, a)
    BY <1>1 DEF At, PutOf
  <1>2. \A i \in 0 .. Length(c, r) - 1 :
            At(PutOf(c, m, w, f), (c.ptr[r] + i) % AddressSpace)
                = At(m, (c.ptr[r] + i) % AddressSpace)
    BY <1>1 DEF Misses
  <1> QED  BY <1>2, Zenon DEF SliceOf

\* The comparisons of the wrapper keep what is written away from all other arguments.
LEMMA AcceptedMisses ==
    ASSUME NEW c, IsCall(c), ~Refused(c, Functions[c.entry]),
           NEW w \in Writes(Functions[c.entry]),
           NEW r \in Args(Functions[c.entry]) \ ({w} \cup Copied)
    PROVE  Misses(c, w, r)
  <1> DEFINE f == Functions[c.entry]
  <1>1. Covers(f)
    BY AllCover DEF IsCall
  <1>2. w \in Args(f) /\ (<<w, r>> \in f.compared \/ <<r, w>> \in f.compared)
    BY <1>1 DEF Covers, Conflict
  <1>3. ~ranges_overlap(c.ptr[w], Length(c, w), c.ptr[r], Length(c, r))
        \/ ~ranges_overlap(c.ptr[r], Length(c, r), c.ptr[w], Length(c, w))
    BY <1>2 DEF Refused, Overlap
  <1>4. /\ c.ptr[r] \in Int /\ Length(c, r) \in Nat
        /\ c.ptr[w] \in Int /\ Length(c, w) \in Nat
    BY <1>2, ArgumentType
  <1>5. Bytes(c, w) \cap Bytes(c, r) = {}
    BY AcceptedIsDisjoint DEF Disjoint
  <1>6. CASE Length(c, w) = 0
    <2>1. Bytes(c, w) = {}
      BY <1>4, <1>6 DEF Bytes
    <2> QED  BY <2>1 DEF Misses
  <1>7. CASE Length(c, w) # 0 /\ Length(c, r) # 0
    <2>1. Fits(c, r)
      BY <1>3, <1>4, <1>7, CheckAssumption DEF ranges_overlap, Overflows, Fits
    <2>2. ASSUME NEW i \in 0 .. Length(c, r) - 1
          PROVE  (c.ptr[r] + i) % AddressSpace \in Bytes(c, r)
      BY <2>1, ByteOf
    <2> QED  BY <1>5, <2>2 DEF Misses
  <1>8. CASE Length(c, r) = 0
    BY <1>8 DEF Misses
  <1> QED  BY <1>6, <1>7, <1>8

\* What the functions that call one method have in common.
Simple(f) ==
    /\ "plaintext" \notin f.slices /\ "prk" \notin f.nonnull /\ "memory_base" \notin f.nonnull
    /\ f.object = {} \/ \E o : f.object = {o}
    /\ f.object \cap f.outs = {}
    /\ \A w, r \in Writes(f) : w # r => r \notin Copied
    /\ \A w \in Writes(f) \cap Ranges : <<"value", w>> \in f.compared /\ "value" \in f.nonnull

\* What the methods of the cryptographic crate write ...
LEMMA CryptoSimple == \A f \in CryptoMethods : Simple(f)
  <1> USE DEF Simple, Writes, Function, Ranges, Copied
  <1>1. \A role : role \notin Ranges \cup {"prk", "memory_base"} => Simple(OfObject(role))
    BY DEF OfObject
  <1>2. /\ Simple(session_manager_init) /\ Simple(session_manager_destroy)
        /\ Simple(session_manager_zeroize) /\ Simple(ml_kem_decapskey_destroy)
        /\ Simple(ml_kem_sharedkey_destroy) /\ Simple(ml_dsa_signingkey_destroy)
        /\ Simple(x25519_secret_destroy) /\ Simple(x25519_sharedsecret_destroy)
    <2> HIDE DEF Simple
    <2> QED  BY <1>1 DEF session_manager_init, session_manager_destroy, session_manager_zeroize,
           ml_kem_decapskey_destroy, ml_kem_sharedkey_destroy, ml_dsa_signingkey_destroy,
           x25519_secret_destroy, x25519_sharedsecret_destroy
  <1>3. Simple(session_manager_initiate_handshake)
    BY DEF session_manager_initiate_handshake
  <1>4. Simple(session_manager_finalize_handshake)
    BY DEF session_manager_finalize_handshake
  <1>5. Simple(session_manager_encapsulate_for_peer)
    BY DEF session_manager_encapsulate_for_peer
  <1>6. Simple(session_manager_encapsulate_authenticated_v2)
    BY DEF session_manager_encapsulate_authenticated_v2
  <1>7. Simple(session_manager_finalize_authenticated_v2)
    BY DEF session_manager_finalize_authenticated_v2
  <1>8. Simple(session_manager_confirm_peer_v2)
    BY DEF session_manager_confirm_peer_v2
  <1>9. Simple(ml_kem_keygen) /\ Simple(ml_kem_encapsulate) /\ Simple(ml_kem_decapsulate)
    BY DEF ml_kem_keygen, ml_kem_encapsulate, ml_kem_decapsulate
  <1>10. Simple(ml_dsa_keygen) /\ Simple(ml_dsa_sign) /\ Simple(ml_dsa_verify)
    BY DEF ml_dsa_keygen, ml_dsa_sign, ml_dsa_verify
  <1>11. Simple(x25519_keygen) /\ Simple(x25519_diffie_hellman)
    BY DEF x25519_keygen, x25519_diffie_hellman
  <1>12. Simple(wire_to_bytes) /\ Simple(wire_from_bytes)
    BY DEF wire_to_bytes, wire_from_bytes, With
  <1>13. Simple(hmac_sha384) /\ Simple(entropy_push)
    BY DEF hmac_sha384, entropy_push
  <1> HIDE DEF Simple, Writes, Function, Ranges, Copied
  <1> QED  BY <1>2, <1>3, <1>4, <1>5, <1>6, <1>7, <1>8, <1>9, <1>10, <1>11, <1>12, <1>13
           DEF CryptoMethods

\* ... and those of the RTOS crate.
LEMMA RtosSimple == \A f \in RtosMethods : Simple(f)
  <1> USE DEF Simple, Writes, Function, Ranges, Copied
  <1>0. ASSUME NEW f, NEW role, f.slices = {}, f.object = {role}, f.outs = {}, role \notin Ranges,
               "prk" \notin f.nonnull, "memory_base" \notin f.nonnull
        PROVE  Simple(f)
    BY <1>0
  <1>1. \A role : role \notin Ranges \cup {"prk", "memory_base"} =>
            Simple(Changing(role)) /\ Simple(Reading(role))
    <2>1. \A role : role \notin Ranges \cup {"prk", "memory_base"} => Simple(Reading(role))
      BY DEF Reading
    <2> HIDE DEF Simple
    <2> QED  BY <1>0, <2>1 DEF Changing
  <1>2. \A role, item : {role, item} \cap (Ranges \cup {"prk", "memory_base"}) = {} =>
            Simple(Pushing(role, item))
    <2> HIDE DEF Simple
    <2> QED  BY <1>0, Zenon DEF Pushing
  <1>3. \A role, out :
            role # out /\ {role, out} \cap (Ranges \cup Copied \cup {"prk", "memory_base"}) = {}
            => Simple(Popping(role, out))
    <2>1. SUFFICES ASSUME NEW role, NEW out, role # out,
                          {role, out} \cap (Ranges \cup Copied \cup {"prk", "memory_base"}) = {}
                   PROVE  Simple(Popping(role, out))
      OBVIOUS
    <2> DEFINE f == Popping(role, out)
    <2>2. f.slices = {} /\ f.nonnull = {role, out} /\ f.object = {role} /\ f.outs = {out}
      BY Zenon DEF Popping
    <2>3. Writes(f) \cap Ranges = {} /\ Writes(f) \cap Copied = {}
      BY <2>1, <2>2
    <2> HIDE DEF f
    <2>4. Simple(f)
      <3>1. /\ f.object \cap f.outs = {} /\ "plaintext" \notin f.slices
            /\ "prk" \notin f.nonnull /\ "memory_base" \notin f.nonnull
        <4>1. \A x \in {"prk", "memory_base"} : x # role /\ x # out
          BY <2>1, Zenon
        <4>2. "prk" \notin {role, out} /\ "memory_base" \notin {role, out}
          BY <4>1
        <4>3. {role} \cap {out} = {}
          BY <2>1
        <4> QED  BY <2>2, <4>2, <4>3
      <3> HIDE DEF Writes, Ranges, Copied
      <3> QED  BY <2>2, <2>3, <3>1
    <2> QED  BY <2>4, Zenon DEF f
  <1>4. Simple(tcb_new) /\ Simple(dmapool2k_allocate) /\ Simple(ringbuffer_ew_peek)
    BY DEF tcb_new, dmapool2k_allocate, ringbuffer_ew_peek
  <1> HIDE DEF Simple, Writes, Function
  <1>5. /\ Simple(scheduler_init) /\ Simple(scheduler_tick)
        /\ Simple(scheduler_set_critical_task_mask) /\ Simple(scheduler_task_check_in)
        /\ Simple(tcb_set_rsp) /\ Simple(dmapool2k_free) /\ Simple(state_machine_init)
        /\ Simple(state_machine_try_advance) /\ Simple(latency_tracker_init)
        /\ Simple(latency_tracker_mark_start) /\ Simple(latency_tracker_mark_end)
    BY <1>1 DEF scheduler_init, scheduler_tick, scheduler_set_critical_task_mask,
           scheduler_task_check_in, tcb_set_rsp, dmapool2k_free, state_machine_init,
           state_machine_try_advance, latency_tracker_init, latency_tracker_mark_start,
           latency_tracker_mark_end
  <1>6. /\ Simple(scheduler_destroy) /\ Simple(tcb_get_rsp) /\ Simple(dmapool2k_destroy)
        /\ Simple(spsc_telemetry_destroy) /\ Simple(ringbuffer_ew_destroy)
        /\ Simple(spsc_fft_destroy) /\ Simple(state_machine_destroy)
        /\ Simple(latency_tracker_destroy)
    BY <1>1 DEF scheduler_destroy, tcb_get_rsp, dmapool2k_destroy, spsc_telemetry_destroy,
           ringbuffer_ew_destroy, spsc_fft_destroy, state_machine_destroy,
           latency_tracker_destroy
  <1>7. /\ Simple(scheduler_create_task) /\ Simple(spsc_telemetry_push)
        /\ Simple(ringbuffer_ew_push) /\ Simple(spsc_fft_push)
    BY <1>2 DEF scheduler_create_task, spsc_telemetry_push, ringbuffer_ew_push, spsc_fft_push
  <1>8. Simple(spsc_telemetry_pop) /\ Simple(ringbuffer_ew_pop) /\ Simple(spsc_fft_pop)
    BY <1>3 DEF spsc_telemetry_pop, ringbuffer_ew_pop, spsc_fft_pop
  <1> QED  BY <1>4, <1>5, <1>6, <1>7, <1>8 DEF RtosMethods

\* The functions that are not packet functions, inits with a region or HKDF-Expand.
LEMMA MethodsSimple ==
    ASSUME NEW e \in Entries \ Special
    PROVE  Simple(Functions[e])
  BY MethodsListed, CryptoSimple, RtosSimple

\* What a method function writes ends within the address space.
LEMMA MethodFits ==
    ASSUME NEW c \in Calls, IsCall(c), ~Refused(c, Functions[c.entry]), c.entry \notin Special,
           NEW w \in Writes(Functions[c.entry])
    PROVE  Fits(c, w)
  <1> DEFINE f == Functions[c.entry]
  <1>1. Simple(f) /\ Covers(f) /\ w \in Args(f)
    BY MethodsSimple, AllCover, Zenon DEF IsCall, Covers
  <1>2. CASE w \notin Ranges
    BY <1>2, ObjectAssumption DEF Fits, Length
  <1>3. CASE w \in Ranges
    <2>1. <<"value", w>> \in f.compared /\ "value" \in Args(f)
      BY <1>1, <1>3 DEF Simple, Args
    <2>2. ~ranges_overlap(c.ptr["value"], Length(c, "value"), c.ptr[w], Length(c, w))
      BY <2>1 DEF Refused, Overlap
    <2>3. /\ c.ptr["value"] \in Int /\ Length(c, "value") \in Nat
          /\ c.ptr[w] \in Int /\ Length(c, w) \in Nat
      BY <1>1, <2>1, ArgumentType
    <2>4. Length(c, "value") # 0
      <3>1. "value" \in Roles \ Ranges
        BY <2>1 DEF Roles, IsCall, Ranges
      <3> QED  BY <3>1, CallAssumption DEF Length
    <2> QED  BY <2>2, <2>3, <2>4, CheckAssumption DEF ranges_overlap, Overflows, Fits
  <1> QED  BY <1>2, <1>3

-----------------------------------------------------------------------------
\* The operators of FfiCall, for its call.
LEMMA ForTheCall ==
    /\ \A m, r : Slice(m, r) = SliceOf(call, m, r)
    /\ \A m, r, f : Put(m, r, f) = PutOf(call, m, r, f)
    /\ \A r, b : Same(r, b) = SameOf(call, r, b)
    /\ \A m, r, b : Fill(m, r, b) = PutOf(call, m, r, SameOf(call, r, b))
    /\ \A r : Made(r) = MadeOf(call, r)
  BY DEF Slice, SliceOf, Put, PutOf, Same, SameOf, Fill, Made, MadeOf, Content, ContentOf

\* The operators of FfiCall, with the call as a parameter.
LEMMA ForThePacket ==
    /\ IsSession <=> call.entry \in Sessions
    /\ IsEncrypt <=> call.entry \in Encrypts
    /\ Input = InputOf(call) /\ Output = OutputOf(call)
    /\ \A m, h, r : KeyOf(m, h, r) = KeyFor(call, m, h, r)
    /\ \A m, h : NonceOf(m, h) = NonceFor(call, m, h)
  <1>1. \A m, r : Slice(m, r) = SliceOf(call, m, r)
    BY ForTheCall
  <1> QED  BY <1>1 DEF IsSession, Sessions, IsEncrypt, Encrypts, Input, InputOf, Output, OutputOf,
           KeyOf, KeyFor, NonceOf, NonceFor

\* What is to be shown on the way to each step.
LEMMA OnTheWay ==
    ASSUME NEW c, NEW w, NEW h, NEW t, NEW res
    PROVE  /\ w = Host => Memory(c, w, h, t, "check", res)
           /\ w = Host /\ c.entry \in Entries \ Special => Memory(c, w, h, t, "method", res)
           /\ c.entry \in Entries \ Special /\ WriteSteps(c, w, h, t, "write") =>
                  Memory(c, w, h, t, "write", res)
           /\ w = Host /\ c.entry \in Backed => Memory(c, w, h, t, "new", res)
           /\ c.entry \in Backed => Memory(c, w, h, t, "init", res)
           /\ w = Host /\ c.entry = "hkdf_expand_sha384" => Memory(c, w, h, t, "expand", res)
           /\ c.entry = "hkdf_expand_sha384" /\ ExpandSteps(c, w, h, t, "block") =>
                  Memory(c, w, h, t, "block", res)
           /\ w = Host /\ c.entry \in Sessions => Memory(c, w, h, t, "session", res)
  BY Zenon DEF Memory, Labels, Untouched, PacketSteps, ExpandSteps, WriteSteps, Failed

\* The same for the steps of the packet functions.
LEMMA OnTheWayOfPackets ==
    ASSUME NEW c, NEW w, NEW h, NEW t, NEW res, c.entry \in Packets,
           c.entry \in Sessions => h = At(Host, c.ptr["manager"])
    PROVE  /\ w = Host => Memory(c, w, h, t, "copy", res)
           /\ w = Host /\ c.entry \notin Encrypts => Memory(c, w, h, t, "verify", res)
           /\ PacketSteps(c, w, h, "keystream") => Memory(c, w, h, t, "keystream", res)
           /\ PacketSteps(c, w, h, "mac") /\ c.entry \in Encrypts => Memory(c, w, h, t, "mac", res)
           /\ PacketSteps(c, w, h, "commit") /\ c.entry \in Sessions =>
                  Memory(c, w, h, t, "commit", res)
  BY Zenon DEF Memory, Labels, Untouched, PacketSteps, ExpandSteps, WriteSteps, Failed

\* And at the end.
LEMMA AtTheEnd ==
    ASSUME NEW c, NEW w, NEW h, NEW t
    PROVE  /\ Right(c, w, h) => Memory(c, w, h, t, "done", "success")
           /\ Failed(c, w, "done", "failed") => Memory(c, w, h, t, "done", "failed")
           /\ Failed(c, w, "done", "wrong tag") => Memory(c, w, h, t, "done", "wrong tag")
           /\ w = Host => Memory(c, w, h, t, "refused", "refused")
  BY Zenon DEF Memory, Labels, Untouched, PacketSteps, ExpandSteps, WriteSteps, Failed

\* The descriptions of the functions with steps of their own.
LEMMA SpecialFunctions ==
    /\ Functions["session_manager_encrypt_packet"] = session_manager_encrypt_packet
    /\ Functions["session_manager_decrypt_packet"] = session_manager_decrypt_packet
    /\ Functions["aead_encrypt"] = aead_encrypt
    /\ Functions["aead_decrypt"] = aead_decrypt
    /\ Functions["hkdf_expand_sha384"] = hkdf_expand_sha384
    /\ Functions["dmapool2k_init"] = WithBacking("pool")
    /\ Functions["spsc_telemetry_init"] = WithBacking("queue")
    /\ Functions["ringbuffer_ew_init"] = WithBacking("rb")
    /\ Functions["spsc_fft_init"] = WithBacking("queue")
  BY Zenon DEF Functions, dmapool2k_init, spsc_telemetry_init, ringbuffer_ew_init, spsc_fft_init

\* Where a body begins.
LEMMA Bodies ==
    ASSUME IInv
    PROVE  \/ Body = "session" /\ call.entry \in Sessions
           \/ Body = "copy" /\ call.entry = "aead_encrypt"
           \/ Body = "verify" /\ call.entry = "aead_decrypt"
           \/ Body = "expand" /\ call.entry = "hkdf_expand_sha384"
           \/ Body = "new" /\ call.entry \in Backed
           \/ Body = "method" /\ call.entry \in Entries \ Special
  <1>1. call.entry \in Entries
    BY DEF IInv, IsCall
  <1>2. call.entry \notin Special => ~TakesBacking
    BY <1>1, MethodsSimple DEF Simple, TakesBacking, F
  <1>3. call.entry \in Backed => TakesBacking
    <2>1. \A role : "memory_base" \in WithBacking(role).nonnull
      BY DEF WithBacking, Function
    <2> QED  BY <2>1, SpecialFunctions DEF Backed, TakesBacking, F
  <1>4. call.entry \in Packets \cup {"hkdf_expand_sha384"} => ~TakesBacking
    <2>1. /\ "memory_base" \notin session_manager_encrypt_packet.nonnull
          /\ "memory_base" \notin session_manager_decrypt_packet.nonnull
          /\ "memory_base" \notin aead_encrypt.nonnull /\ "memory_base" \notin aead_decrypt.nonnull
          /\ "memory_base" \notin hkdf_expand_sha384.nonnull
      BY DEF session_manager_encrypt_packet, session_manager_decrypt_packet, aead_encrypt,
             aead_decrypt, hkdf_expand_sha384, Function
    <2> QED  BY <2>1, SpecialFunctions DEF Packets, TakesBacking, F
  <1> QED  BY <1>1, <1>2, <1>3, <1>4 DEF Body, IsSession, Sessions, Special, Packets, Backed

\* The wrapper's checks write nothing.
LEMMA CheckKeeps ==
    ASSUME IInv, MemoryInv, Check
    PROVE  MemoryInv'
  <1>1. written = Host /\ UNCHANGED <<call, written, held, todo>>
    BY DEF Check, MemoryInv, Memory, Untouched
  <1>2. CASE pc' = "refused" /\ result' = "refused"
    BY <1>1, <1>2, AtTheEnd, Zenon DEF MemoryInv
  <1>3. CASE pc' = Body
    <2>1. call.entry \in Sessions => call.entry \in Packets
      BY DEF Sessions, Packets
    <2>2. /\ "aead_encrypt" \in Packets \ Sessions /\ "aead_decrypt" \in Packets \ Sessions
          /\ "aead_decrypt" \notin Encrypts
      BY DEF Sessions, Packets, Encrypts
    <2> QED  BY <1>1, <1>3, <2>1, <2>2, Bodies, OnTheWay, OnTheWayOfPackets, Zenon DEF MemoryInv
  <1> QED  BY <1>2, <1>3 DEF Check, Goto

\* The object that a function changes in place.
LEMMA OneObject ==
    ASSUME NEW o, F.object = {o}
    PROVE  /\ Object = o
           /\ \A m, f : PutObject(m, f) = PutOf(call, m, o, f)
  <1>1. Object = o
    BY DEF Object
  <1> QED  BY <1>1, ForTheCall, Zenon DEF PutObject

\* A method reads its inputs before they can change, and leaves its object as it makes it.
LEMMA MethodMakes ==
    ASSUME IInv, MemoryInv, Method
    PROVE  /\ held' = ReadOf(call)
           /\ \A r \in F.object : SliceOf(call, written', r) = MadeOf(call, r)
  <1>1. /\ written = Host /\ call.entry \in Entries \ Special /\ ~Refused(call, F)
        /\ call \in Calls /\ IsCall(call)
    BY Zenon DEF Method, MemoryInv, Memory, Labels, Untouched, IInv, Accepted
  <1>2. Simple(F) /\ Covers(F)
    BY <1>1, MethodsSimple, AllCover DEF F
  <1>3. PICK m \in {written, PutObject(written, Same(Object, <<"overwritten">>))} :
            held' = Read(m, written) /\ written' = PutObject(m, Made(Object))
    BY DEF Method
  <1>4. CASE F.object = {}
    <2>1. m = Host
      BY <1>1, <1>3, <1>4 DEF PutObject
    <2>2. Read(Host, Host) = ReadOf(call)
      BY ForTheCall DEF Read, ReadOf, F
    <2> QED  BY <1>1, <1>3, <1>4, <2>1, <2>2
  <1>5. ASSUME NEW o, F.object = {o}
        PROVE  /\ held' = ReadOf(call)
               /\ SliceOf(call, written', o) = MadeOf(call, o)
    <2>1. o \in Writes(F) /\ o \in Args(F)
      BY <1>2, <1>5 DEF Writes, Covers
    <2>2. written' = PutOf(call, m, o, MadeOf(call, o))
      BY <1>3, <1>5, OneObject, ForTheCall
    <2>3. SliceOf(call, written', o) = Cut(call, o, MadeOf(call, o))
      <3>1. Fits(call, o)
        BY <1>1, <2>1, MethodFits, Zenon DEF F
      <3>2. \A n, f : SliceOf(call, PutOf(call, n, o, f), o)
                         = Cut(call, o, f)
        BY <1>1, <2>1, <3>1, PutThere, Zenon DEF F
      <3> QED  BY <2>2, <3>2, Zenon
    <2>4. m = Host \/ \E f : m = PutOf(call, Host, o, f)
      BY <1>1, <1>3, <1>5, OneObject
    <2>5. ASSUME NEW r \in Inputs(F)
          PROVE  Slice(IF r \in F.object \cup Copied THEN written ELSE m, r)
                     = SliceOf(call, Host, r)
      <3>1. CASE r \in F.object \cup Copied
        BY <1>1, <3>1, ForTheCall, Zenon
      <3>2. CASE r \notin F.object \cup Copied
        <4>1. r \in Args(F) \ ({o} \cup Copied)
          BY <1>5, <3>2 DEF Inputs
        <4>2. Misses(call, o, r)
          BY <1>1, <2>1, <4>1, AcceptedMisses DEF F
        <4>3. SliceOf(call, m, r) = SliceOf(call, Host, r)
          BY <2>4, <4>2, PutElsewhere
        <4> QED  BY <3>2, <4>3, ForTheCall
      <3> QED  BY <3>1, <3>2
    <2>6. Read(m, written) = ReadOf(call)
      BY <2>5 DEF Read, ReadOf, F
    <2>7. MadeOf(call, o) = Cut(call, o, MadeOf(call, o))
      BY DEF MadeOf, Cut
    <2> QED  BY <1>3, <2>3, <2>6, <2>7
  <1> QED  BY <1>2, <1>4, <1>5, Zenon DEF Simple

\* The method reads its inputs, though its object may be gone by then.
LEMMA MethodKeeps ==
    ASSUME IInv, MemoryInv, Method
    PROVE  MemoryInv'
  <1>1. call.entry \in Entries \ Special /\ UNCHANGED call /\ todo' = F.outs
    BY Zenon DEF Method, MemoryInv, Memory, Labels
  <1>2. /\ held' = ReadOf(call)
        /\ \A r \in F.object : SliceOf(call, written', r) = MadeOf(call, r)
    BY MethodMakes
  <1>3. CASE F.outs = {}
    <2>1. Right(call, written', held')
      BY <1>1, <1>2, <1>3 DEF Right, Writes, F, Special
    <2>2. pc' = "done" /\ result' = "success"
      BY <1>3 DEF Method, Return
    <2> QED  BY <1>1, <2>1, <2>2, AtTheEnd, Zenon DEF MemoryInv
  <1>4. CASE F.outs # {}
    <2>1. WriteSteps(call, written', held', todo', "write")
      BY <1>1, <1>2, <1>4 DEF WriteSteps, Writes, F
    <2>2. pc' = "write"
      BY <1>4 DEF Method, Goto
    <2> QED  BY <1>1, <2>1, <2>2, OnTheWay DEF MemoryInv
  <1> QED  BY <1>3, <1>4

\* Each output is written whole, and keeps off those written before.
LEMMA WriteKeeps ==
    ASSUME IInv, MemoryInv, Write
    PROVE  MemoryInv'
  <1>1. /\ call.entry \in Entries \ Special /\ ~Refused(call, F) /\ call \in Calls /\ IsCall(call)
        /\ UNCHANGED <<call, held>> /\ WriteSteps(call, written, held, todo, "write")
    BY DEF Write, MemoryInv, Memory, Labels, IInv, Accepted
  <1>2. Simple(F) /\ Covers(F)
    BY <1>1, MethodsSimple, AllCover, Zenon DEF F
  <1>3. PICK role \in todo : /\ written' = Put(written, role, Made(role))
                             /\ todo' = todo \ {role}
                             /\ IF todo' = {} THEN Return("success") ELSE Goto("write")
    BY DEF Write
  <1>4. role \in Writes(F) /\ role \in Args(F)
    BY <1>1, <1>2, <1>3, Zenon DEF WriteSteps, Writes, Covers, F
  <1>5. written' = PutOf(call, written, role, MadeOf(call, role))
    BY <1>3, ForTheCall
  <1>6. ASSUME NEW r \in Writes(F) \ todo'
        PROVE  SliceOf(call, written', r) = MadeOf(call, r)
    <2>1. CASE r = role
      <3>1. SliceOf(call, written', role)
                = Cut(call, role, MadeOf(call, role))
        <4>1. Fits(call, role)
          BY <1>1, <1>4, MethodFits, Zenon DEF F
        <4>2. \A m, f : SliceOf(call, PutOf(call, m, role, f), role)
                           = Cut(call, role, f)
          BY <1>1, <1>4, <4>1, PutThere, Zenon DEF F
        <4> QED  BY <1>5, <4>2
      <3>2. MadeOf(call, role) = Cut(call, role, MadeOf(call, role))
        BY DEF MadeOf, Cut
      <3> QED  BY <2>1, <3>1, <3>2
    <2>2. CASE r # role
      <3>1. r \in Args(F) \ ({role} \cup Copied)
        BY <1>2, <1>4, <2>2 DEF Simple, Covers
      <3>2. Misses(call, role, r)
        BY <1>1, <1>4, <3>1, AcceptedMisses DEF F
      <3>3. SliceOf(call, written', r) = SliceOf(call, written, r)
        BY <1>5, <3>2, PutElsewhere
      <3>4. r \in Writes(F) \ todo
        BY <1>3, <2>2
      <3> QED  BY <1>1, <3>3, <3>4 DEF WriteSteps, F
    <2> QED  BY <2>1, <2>2
  <1>7. held' = ReadOf(call)
    BY <1>1 DEF WriteSteps
  <1>8. CASE todo' = {}
    <2>1. Right(call, written', held')
      BY <1>1, <1>6, <1>7, <1>8, Zenon DEF Right, F, Special
    <2> QED  BY <1>1, <1>3, <1>8, <2>1, AtTheEnd, Zenon DEF MemoryInv, Return
  <1>9. CASE todo' # {}
    <2>1. WriteSteps(call, written', held', todo', "write")
      BY <1>1, <1>3, <1>6, <1>7, <1>9 DEF WriteSteps, F
    <2> QED  BY <1>1, <1>3, <1>9, <2>1, OnTheWay DEF MemoryInv, Goto
  <1> QED  BY <1>8, <1>9

\* The object of a step of a handshake is the manager.
LEMMA EndsSessionObject ==
    ASSUME NEW e \in EndsSession
    PROVE  Functions[e].object = {"manager"}
  <1>1. /\ Functions["session_manager_finalize_handshake"] = session_manager_finalize_handshake
        /\ Functions["session_manager_encapsulate_authenticated_v2"]
               = session_manager_encapsulate_authenticated_v2
        /\ Functions["session_manager_finalize_authenticated_v2"]
               = session_manager_finalize_authenticated_v2
        /\ Functions["session_manager_confirm_peer_v2"] = session_manager_confirm_peer_v2
    BY Zenon DEF Functions
  <1>2. /\ session_manager_finalize_handshake.object = {"manager"}
        /\ session_manager_encapsulate_authenticated_v2.object = {"manager"}
        /\ session_manager_finalize_authenticated_v2.object = {"manager"}
        /\ session_manager_confirm_peer_v2.object = {"manager"}
    BY DEF session_manager_finalize_handshake, session_manager_encapsulate_authenticated_v2,
           session_manager_finalize_authenticated_v2, session_manager_confirm_peer_v2, Function
  <1> QED  BY <1>1, <1>2 DEF EndsSession

\* A failed step of a handshake leaves the manager alone, or wiped.
LEMMA MethodFailsKeeps ==
    ASSUME IInv, MemoryInv, MethodFails
    PROVE  MemoryInv'
  <1>1. /\ written = Host /\ UNCHANGED <<call, held, todo>> /\ pc' = "done" /\ result' = "failed"
    BY DEF MethodFails, MemoryInv, Memory, Untouched, Return
  <1>2. call.entry \in EndsSession => F.object = {"manager"}
    BY EndsSessionObject DEF F
  <1>3. CASE written' = Host
    BY <1>1, <1>3, AtTheEnd, Zenon DEF MemoryInv, Failed
  <1>4. CASE call.entry \in EndsSession /\ written' = Fill(written, Object, Zero)
    <2>1. Object = "manager"
      BY <1>2, <1>4, OneObject
    <2>2. written' = PutOf(call, Host, "manager", SameOf(call, "manager", Zero))
      BY <1>1, <1>4, <2>1, ForTheCall
    <2> QED  BY <1>1, <1>4, <2>2, AtTheEnd, Zenon DEF MemoryInv, Failed
  <1> QED  BY <1>1, <1>3, <1>4 DEF MethodFails

-----------------------------------------------------------------------------
\* A region that is accepted is one init accepts, and it ends within the address space.
LEMMA BackingRegion ==
    ASSUME NEW c \in Calls, IsCall(c), ~Refused(c, Functions[c.entry]), c.entry \in Backed
    PROVE  /\ valid_dma_region(c)
           /\ \E o : /\ Functions[c.entry].object = {o} /\ o \in Writes(Functions[c.entry])
                     /\ Fits(c, o) /\ Misses(c, o, "memory_base")
           /\ "memory_base" \in Args(Functions[c.entry])
  <1> DEFINE f == Functions[c.entry]
  <1>1. \E o \in {"pool", "queue", "rb"} : f = WithBacking(o)
    BY SpecialFunctions, Zenon DEF Backed
  <1>2. PICK o \in {"pool", "queue", "rb"} : f = WithBacking(o)
    BY <1>1
  <1>3. /\ f.object = {o} /\ f.outs = {"memory_base"} /\ f.nonnull = {o, "memory_base"}
    BY <1>2 DEF WithBacking, Function
  <1> HIDE DEF f
  <1>4. o \in Writes(f) /\ "memory_base" \in Args(f) \ ({o} \cup Copied)
    BY <1>3 DEF Writes, Args, Copied
  <1>5. valid_dma_region(c)
    BY <1>3, Zenon DEF Refused, BadLength, f
  <1>6. Fits(c, o)
    BY <1>4, ObjectAssumption DEF Fits, Length, Ranges, f
  <1>7. Misses(c, o, "memory_base")
    BY <1>4, AcceptedMisses DEF f
  <1> QED  BY <1>3, <1>4, <1>5, <1>6, <1>7 DEF f

\* The fresh object is written before its region is looked at.
LEMMA WriteNewKeeps ==
    ASSUME IInv, MemoryInv, WriteNew
    PROVE  MemoryInv'
  <1>1. call.entry \in Backed /\ UNCHANGED call /\ pc' = "init"
    BY DEF WriteNew, MemoryInv, Memory, Labels, Goto
  <1> QED  BY <1>1, OnTheWay DEF MemoryInv

\* The constants of the regions are numbers.
LEMMA SlotTypes ==
    Slots \in Nat /\ SlotSize \in Nat /\ SlotSize > 0 /\ AddressSpace \in Nat
  <1>1. Slots \in Nat /\ SlotSize \in Nat \ {0} /\ AddressSpace \in Nat
    BY CheckAssumption, Zenon
  <1> QED  BY <1>1

\* So are the addresses.
LEMMA AddressesNatural == Address \subseteq Nat
  BY SlotTypes DEF Address

\* The counters lie in the region.
LEMMA CounterInRegion ==
    ASSUME NEW c, IsCall(c), "memory_base" \in Args(Functions[c.entry]), valid_dma_region(c),
           NEW o, Misses(c, o, "memory_base"), NEW n \in 0 .. Slots - 1
    PROVE  c.ptr["memory_base"] + n * SlotSize \notin Bytes(c, o)
  <1>1. /\ Slots \in Nat /\ SlotSize \in Nat /\ SlotSize > 0 /\ AddressSpace \in Nat
    BY SlotTypes, Zenon
  <1>2. c.ptr["memory_base"] \in Nat /\ Length(c, "memory_base") \in Nat
    <2>1. c.ptr["memory_base"] \in Address
      BY DEF IsCall
    <2>2. Length(c, "memory_base") \in Nat
      BY ArgumentType, Zenon
    <2> QED  BY <2>1, <2>2, AddressesNatural, Zenon
  <1> DEFINE i == n * SlotSize
  <1>3. i \in Nat /\ i + SlotSize <= Required
    <2>1. n + 1 <= Slots
      BY <1>1
    <2>2. (n + 1) * SlotSize <= Slots * SlotSize
      BY <1>1, <2>1
    <2>3. (n + 1) * SlotSize = n * SlotSize + SlotSize
      BY <1>1
    <2>4. n * SlotSize \in Nat
      BY <1>1
    <2> QED  BY <2>2, <2>3, <2>4 DEF Required
  <1>4. Required \in Nat
    BY <1>1 DEF Required
  <1> HIDE DEF i
  <1>5. i \in 0 .. Length(c, "memory_base") - 1
    BY <1>1, <1>2, <1>3, <1>4 DEF valid_dma_region
  <1>6. c.ptr["memory_base"] + i < AddressSpace /\ c.ptr["memory_base"] + i \in Nat
    BY <1>1, <1>2, <1>3, <1>4 DEF valid_dma_region, Overflows
  <1>7. (c.ptr["memory_base"] + i) % AddressSpace = c.ptr["memory_base"] + i
    BY <1>6, NoWrap
  <1>8. c.ptr["memory_base"] + i \notin Bytes(c, o)
    BY <1>5, <1>7 DEF Misses
  <1> QED  BY <1>8 DEF i

\* init does not fail, and the object does not cover the counters.
LEMMA InitRegionKeeps ==
    ASSUME IInv, MemoryInv, InitRegion
    PROVE  MemoryInv'
  <1>1. /\ call.entry \in Backed /\ ~Refused(call, F) /\ call \in Calls /\ IsCall(call)
        /\ UNCHANGED call
    BY Zenon DEF InitRegion, MemoryInv, Memory, Labels, IInv, Accepted
  <1>2. valid_dma_region(call) /\ "memory_base" \in Args(F)
    BY <1>1, BackingRegion, Zenon DEF F
  <1>3. PICK o : /\ F.object = {o} /\ o \in Writes(F)
                 /\ Fits(call, o) /\ Misses(call, o, "memory_base")
    BY <1>1, BackingRegion DEF F
  <1>4. InitAccepts
    BY <1>2 DEF InitAccepts, valid_dma_region
  <1> DEFINE m == IF "pool" \in F.object THEN written ELSE Counters(written)
  <1>5. pc' = "done" /\ result' = "success" /\ written' = Fill(m, Object, <<"ready">>)
    BY <1>4 DEF InitRegion, Return
  <1>6. "pool" \notin F.object => m = Counters(written)
    OBVIOUS
  <1> HIDE DEF m
  <1>7. written' = PutOf(call, m, o, SameOf(call, o, <<"ready">>))
    BY <1>3, <1>5, OneObject, ForTheCall, Zenon
  <1>8. o \in Args(F)
    BY <1>1, <1>3, AllCover, Zenon DEF Covers, IsCall, F
  <1>9. SliceOf(call, written', o) = SameOf(call, o, <<"ready">>)
    <2>1. \A f : SliceOf(call, PutOf(call, m, o, f), o) = Cut(call, o, f)
      BY <1>1, <1>3, <1>8, PutThere, Zenon DEF F
    <2>2. Cut(call, o, SameOf(call, o, <<"ready">>)) = SameOf(call, o, <<"ready">>)
      BY DEF Cut, SameOf
    <2> QED  BY <1>7, <2>1, <2>2, Zenon
  <1>10. ASSUME "pool" \notin F.object, NEW n \in 0 .. Slots - 1
         PROVE  written'[call.ptr["memory_base"] + n * SlotSize] = <<"counter">>
    <2> DEFINE a == call.ptr["memory_base"] + n * SlotSize
    <2>1. a \notin Bytes(call, o)
      BY <1>1, <1>2, <1>3, CounterInRegion DEF F
    <2>2. a \in CounterOf
      BY DEF CounterOf
    <2> HIDE DEF a
    <2>3. a \in DOMAIN m /\ m[a] = <<"counter">>
      BY <1>6, <1>10, <2>2 DEF Counters
    <2>4. written'[a] = m[a]
      BY <1>7, <2>1, <2>3 DEF PutOf
    <2> QED  BY <2>3, <2>4 DEF a
  <1>11. Right(call, written', held')
    <2>1. call.entry \notin Packets /\ call.entry # "hkdf_expand_sha384" /\ call.entry \in Special
      BY <1>1 DEF Backed, Packets, Special
    <2>2. \A r \in F.object : SliceOf(call, written', r) = SameOf(call, r, <<"ready">>)
      BY <1>3, <1>9
    <2>3. "pool" \notin F.object => \A n \in 0 .. Slots - 1 :
              written'[call.ptr["memory_base"] + n * SlotSize] = <<"counter">>
      BY <1>10
    <2> QED  BY <2>1, <2>2, <2>3, Zenon DEF Right, F
  <1> QED  BY <1>1, <1>5, <1>11, AtTheEnd, Zenon DEF MemoryInv

-----------------------------------------------------------------------------
\* The output of HKDF-Expand keeps off the key and the info.
LEMMA ExpandArgs ==
    ASSUME NEW c, IsCall(c), ~Refused(c, Functions[c.entry]), c.entry = "hkdf_expand_sha384"
    PROVE  /\ "out" \in Args(Functions[c.entry]) /\ Length(c, "out") \in Nat
           /\ Fits(c, "out") /\ Misses(c, "out", "info")
  <1> DEFINE f == Functions[c.entry]
  <1>1. f = hkdf_expand_sha384
    BY SpecialFunctions
  <1>2. f.slices = {"info", "out"} /\ f.outs = {"out"}
    BY <1>1 DEF hkdf_expand_sha384, Function
  <1> HIDE DEF f
  <1>3. "out" \in Writes(f) /\ "out" \in Args(f) /\ "info" \in Args(f) \ ({"out"} \cup Copied)
    BY <1>2 DEF Writes, Args, Copied
  <1>4. c.ptr["out"] \in Int /\ Length(c, "out") \in Nat
    BY <1>3, ArgumentType DEF f
  <1>5. range_ok(c.ptr["out"], Length(c, "out"))
    BY <1>2 DEF Refused, BadLength, f
  <1>6. Fits(c, "out")
    BY <1>4, <1>5, CheckAssumption DEF range_ok, Overflows, Fits
  <1>7. Misses(c, "out", "info")
    BY <1>3, AcceptedMisses DEF f
  <1> QED  BY <1>3, <1>4, <1>6, <1>7 DEF f

\* HKDF-Expand starts: it holds the key it was given ...
LEMMA ExpandKeeps ==
    ASSUME IInv, MemoryInv, Expand
    PROVE  MemoryInv'
  <1>1. /\ call.entry = "hkdf_expand_sha384" /\ ~Refused(call, F) /\ IsCall(call)
        /\ UNCHANGED call /\ written = Host
    BY DEF Expand, MemoryInv, Memory, Labels, Untouched, IInv, Accepted
  <1>2. held' = SliceOf(call, Host, "prk") /\ todo' = 0 .. Length(call, "out") - 1
    BY <1>1, ForTheCall DEF Expand
  <1>3. Length(call, "out") \in Nat
    BY <1>1, ExpandArgs DEF F
  <1>4. CASE Length(call, "out") > MaxExpand
    <2>1. written' = PutOf(call, Host, "out", SameOf(call, "out", Zero))
      BY <1>1, <1>4, ForTheCall DEF Expand
    <2>2. pc' = "done" /\ result' = "failed"
      BY <1>4 DEF Expand, Return
    <2> QED  BY <1>1, <2>1, <2>2, AtTheEnd, Zenon DEF MemoryInv, Failed
  <1>5. CASE ~(Length(call, "out") > MaxExpand)
    <2>1. written' = Host /\ IF todo' = {} THEN Return("success") ELSE Goto("block")
      BY <1>1, <1>5 DEF Expand
    <2>2. CASE todo' = {}
      <3>1. 0 .. Length(call, "out") - 1 = {}
        BY <1>2, <2>2
      <3>2. SliceOf(call, written', "out")
                = [i \in 0 .. Length(call, "out") - 1 |->
                     Okm(SliceOf(call, Host, "prk"), SliceOf(call, Host, "info"), i)]
        BY <3>1 DEF SliceOf
      <3>3. Right(call, written', held')
        BY <1>1, <3>2, Zenon DEF Right, Packets, Backed, Special
      <3> QED  BY <1>1, <2>1, <2>2, <3>3, AtTheEnd, Zenon DEF MemoryInv, Return
    <2>3. CASE todo' # {}
      <3>1. 0 \in 0 .. Length(call, "out") - 1
        BY <1>2, <1>3, <2>3
      <3>2. \A i \in 0 .. 0 - 1 : FALSE
        OBVIOUS
      <3>3. ExpandSteps(call, written', held', todo', "block")
        BY <1>2, <2>1, <3>1, <3>2 DEF ExpandSteps
      <3> QED  BY <1>1, <2>1, <2>3, <3>3, OnTheWay DEF MemoryInv, Goto
    <2> QED  BY <2>2, <2>3
  <1> QED  BY <1>4, <1>5

\* One byte more.
LEMMA ExpandBlockWrites ==
    ASSUME IInv, MemoryInv, ExpandBlock
    PROVE  /\ call.entry = "hkdf_expand_sha384" /\ UNCHANGED <<call, held>>
           /\ \E k \in 0 .. Length(call, "out") - 1 :
                /\ todo' = k + 1 .. Length(call, "out") - 1
                /\ held = SliceOf(call, Host, "prk")
                /\ SliceOf(call, written', "info") = SliceOf(call, Host, "info")
                /\ \A i \in 0 .. k :
                       At(written', call.ptr["out"] + i)
                           = Okm(SliceOf(call, Host, "prk"), SliceOf(call, Host, "info"), i)
  <1>1. /\ call.entry = "hkdf_expand_sha384" /\ ~Refused(call, F) /\ IsCall(call)
        /\ UNCHANGED <<call, held>> /\ ExpandSteps(call, written, held, todo, "block")
    BY Zenon DEF ExpandBlock, MemoryInv, Memory, Labels, IInv, Accepted
  <1>2. /\ "out" \in Args(F) /\ Length(call, "out") \in Nat
        /\ Fits(call, "out") /\ Misses(call, "out", "info") /\ call.ptr["out"] \in Int
    BY <1>1, ExpandArgs, ArgumentType, Zenon DEF F
  <1>3. PICK k \in 0 .. Length(call, "out") - 1 :
            /\ todo = k .. Length(call, "out") - 1
            /\ held = SliceOf(call, Host, "prk")
            /\ SliceOf(call, written, "info") = SliceOf(call, Host, "info")
            /\ \A i \in 0 .. k - 1 :
                   At(written, call.ptr["out"] + i)
                       = Okm(SliceOf(call, Host, "prk"), SliceOf(call, Host, "info"), i)
    BY <1>1, Zenon DEF ExpandSteps
  <1>4. (CHOOSE i \in todo : \A j \in todo : i <= j) = k
    <2>1. k \in todo /\ \A j \in todo : k <= j
      BY <1>2, <1>3
    <2>2. \A i \in todo : (\A j \in todo : i <= j) => i = k
      BY <1>2, <1>3, <2>1
    <2> QED  BY <2>1, <2>2, Zenon
  <1> DEFINE a == call.ptr["out"] + k
             okm == Okm(SliceOf(call, Host, "prk"), SliceOf(call, Host, "info"), k)
  <1>5. /\ written' = [b \in DOMAIN written \cup {a} |-> IF b = a THEN okm ELSE written[b]]
        /\ todo' = todo \ {k}
    <2>1. Slice(written, "info") = SliceOf(call, Host, "info")
      BY <1>3, ForTheCall, Zenon
    <2> DEFINE j == CHOOSE i \in todo : \A n \in todo : i <= n
    <2>2. /\ written' = [b \in DOMAIN written \cup {call.ptr["out"] + j} |->
                           IF b = call.ptr["out"] + j THEN Okm(held, Slice(written, "info"), j)
                           ELSE written[b]]
          /\ todo' = todo \ {j}
      BY DEF ExpandBlock
    <2>3. j = k
      BY <1>4
    <2> HIDE DEF j
    <2> QED  BY <1>3, <2>1, <2>2, <2>3
  <1>6. a \in Bytes(call, "out")
    BY <1>1, <1>2, <1>3, ByteOf, Zenon DEF F
  <1>7. \A b : b # a => At(written', b) = At(written, b)
    <2> HIDE DEF a, okm
    <2> QED  BY <1>5 DEF At
  <1>8. At(written', a) = okm
    <2> HIDE DEF a, okm
    <2> QED  BY <1>5 DEF At
  <1>9. SliceOf(call, written', "info") = SliceOf(call, written, "info")
    <2>1. \A i \in 0 .. Length(call, "info") - 1 :
              At(written', (call.ptr["info"] + i) % AddressSpace)
                  = At(written, (call.ptr["info"] + i) % AddressSpace)
      <3> HIDE DEF a
      <3> QED  BY <1>2, <1>6, <1>7 DEF Misses
    <2> QED  BY <1>1, <2>1, Zenon DEF SliceOf
  <1>10. todo' = k + 1 .. Length(call, "out") - 1
    <2> DEFINE n == Length(call, "out")
    <2>1. n \in Nat /\ k \in 0 .. n - 1 /\ todo' = (k .. n - 1) \ {k}
      BY <1>2, <1>3, <1>5, Zenon
    <2> HIDE DEF n
    <2>2. (k .. n - 1) \ {k} = k + 1 .. n - 1
      BY <2>1
    <2> QED  BY <2>1, <2>2, Zenon DEF n
  <1>11. ASSUME NEW i \in 0 .. k
         PROVE  At(written', call.ptr["out"] + i)
                    = Okm(SliceOf(call, Host, "prk"), SliceOf(call, Host, "info"), i)
    <2>1. CASE i = k
      BY <1>8, <2>1
    <2>2. CASE i # k
      <3>1. i \in 0 .. k - 1 /\ call.ptr["out"] + i # a
        BY <1>2, <1>3, <2>2
      <3> HIDE DEF a
      <3> QED  BY <1>3, <1>7, <3>1
    <2> QED  BY <2>1, <2>2
  <1> QED  BY <1>1, <1>3, <1>9, <1>10, <1>11, Zenon

\* ... and each block leaves the info as it was for the next.
LEMMA ExpandBlockKeeps ==
    ASSUME IInv, MemoryInv, ExpandBlock
    PROVE  MemoryInv'
  <1>1. /\ call.entry = "hkdf_expand_sha384" /\ ~Refused(call, F) /\ IsCall(call)
        /\ UNCHANGED <<call, held>>
    BY Zenon DEF ExpandBlock, MemoryInv, Memory, Labels, IInv, Accepted
  <1>2. PICK k \in 0 .. Length(call, "out") - 1 :
                /\ todo' = k + 1 .. Length(call, "out") - 1
                /\ held = SliceOf(call, Host, "prk")
                /\ SliceOf(call, written', "info") = SliceOf(call, Host, "info")
                /\ \A i \in 0 .. k :
                       At(written', call.ptr["out"] + i)
                           = Okm(SliceOf(call, Host, "prk"), SliceOf(call, Host, "info"), i)
    BY ExpandBlockWrites
  <1>3. "out" \in Args(F) /\ Length(call, "out") \in Nat /\ Fits(call, "out")
    BY <1>1, ExpandArgs DEF F
  <1>4. IF todo' = {} THEN Return("success") ELSE Goto("block")
    BY DEF ExpandBlock
  <1>5. CASE todo' = {}
    <2>1. k = Length(call, "out") - 1
      <3>1. k + 1 \notin k + 1 .. Length(call, "out") - 1
        BY <1>2, <1>5
      <3> QED  BY <1>3, <3>1
    <2>2. \A i \in 0 .. Length(call, "out") - 1 :
              At(written', (call.ptr["out"] + i) % AddressSpace)
                  = Okm(SliceOf(call, Host, "prk"), SliceOf(call, Host, "info"), i)
      <3> TAKE i \in 0 .. Length(call, "out") - 1
      <3>1. (call.ptr["out"] + i) % AddressSpace = call.ptr["out"] + i
        BY <1>1, <1>3, ByteOf, Zenon DEF F
      <3>2. i \in 0 .. k
        BY <2>1
      <3> QED  BY <1>2, <3>1, <3>2, Zenon
    <2>3. SliceOf(call, written', "out")
              = [i \in 0 .. Length(call, "out") - 1 |->
                   Okm(SliceOf(call, Host, "prk"), SliceOf(call, Host, "info"), i)]
      <3>1. SliceOf(call, written', "out")
              = [i \in 0 .. Length(call, "out") - 1 |->
                   At(written', (call.ptr["out"] + i) % AddressSpace)]
        BY DEF SliceOf
      <3> QED  BY <2>2, <3>1, Zenon
    <2>4. Right(call, written', held')
      BY <1>1, <2>3, Zenon DEF Right, Packets, Backed, Special
    <2> QED  BY <1>1, <1>4, <1>5, <2>4, AtTheEnd, Zenon DEF MemoryInv, Return
  <1>6. CASE todo' # {}
    <2>1. k + 1 \in 0 .. Length(call, "out") - 1 /\ (k + 1) - 1 = k
      BY <1>2, <1>3, <1>6
    <2>2. \A i \in 0 .. (k + 1) - 1 :
              At(written', call.ptr["out"] + i)
                  = Okm(SliceOf(call, Host, "prk"), SliceOf(call, Host, "info"), i)
      BY <1>2, <2>1, Zenon
    <2>3. ExpandSteps(call, written', held', todo', "block")
      <3> DEFINE n == k + 1
      <3> HIDE DEF n
      <3> QED  BY <1>1, <1>2, <2>1, <2>2, Zenon DEF ExpandSteps, n
    <2> QED  BY <1>1, <1>4, <1>6, <2>3, OnTheWay, Zenon DEF MemoryInv, Goto
  <1> QED  BY <1>5, <1>6

-----------------------------------------------------------------------------
\* What the wrappers of the packet functions establish.
LEMMA PacketArgs ==
    ASSUME NEW c, c.entry \in Packets
    PROVE  LET f == Functions[c.entry]
           IN  /\ {"aad", "nonce", "tag", InputOf(c), OutputOf(c)} \subseteq Args(f)
               /\ c.entry \notin Sessions => {"enc_key", "mac_key"} \subseteq Args(f)
               /\ OutputOf(c) \in Writes(f) /\ OutputOf(c) \in f.slices
               /\ c.entry \in Sessions => "manager" \in Writes(f)
               /\ c.entry \in Encrypts => "tag" \in Writes(f)
               /\ c.entry = "session_manager_encrypt_packet" => "nonce" \in Writes(f)
               /\ Args(f) \cap Copied = {} /\ Writes(f) \subseteq Args(f)
  <1> DEFINE f == Functions[c.entry]
  <1> USE DEF Function, Args, Writes, Copied
  <1>1. CASE c.entry = "session_manager_encrypt_packet"
    <2>1. f = session_manager_encrypt_packet /\ InputOf(c) = "plaintext" /\ OutputOf(c) = "ciphertext"
      BY <1>1, SpecialFunctions DEF InputOf, OutputOf, Encrypts
    <2> HIDE DEF f
    <2>2. /\ f.nonnull = {"manager", "nonce", "tag"} /\ f.slices = {"aad", "plaintext", "ciphertext"}
          /\ f.object = {"manager"} /\ f.outs = {"ciphertext", "nonce", "tag"}
      BY <2>1 DEF session_manager_encrypt_packet
    <2> QED  BY <1>1, <2>1, <2>2, Zenon DEF Sessions, f
  <1>2. CASE c.entry = "session_manager_decrypt_packet"
    <2>1. f = session_manager_decrypt_packet /\ InputOf(c) = "ciphertext" /\ OutputOf(c) = "plaintext"
      BY <1>2, SpecialFunctions DEF InputOf, OutputOf, Encrypts
    <2> HIDE DEF f
    <2>2. /\ f.nonnull = {"manager", "nonce", "tag"} /\ f.slices = {"aad", "plaintext", "ciphertext"}
          /\ f.object = {"manager"} /\ f.outs = {"plaintext"}
      BY <2>1 DEF session_manager_decrypt_packet
    <2> QED  BY <1>2, <2>1, <2>2 DEF Sessions, Encrypts, f
  <1>3. CASE c.entry = "aead_encrypt"
    <2>1. f = aead_encrypt /\ InputOf(c) = "plaintext" /\ OutputOf(c) = "ciphertext"
      BY <1>3, SpecialFunctions DEF InputOf, OutputOf, Encrypts
    <2> HIDE DEF f
    <2>2. /\ f.nonnull = {"enc_key", "mac_key", "nonce", "tag"}
          /\ f.slices = {"aad", "plaintext", "ciphertext"}
          /\ f.object = {} /\ f.outs = {"ciphertext", "tag"}
      BY <2>1 DEF aead_encrypt
    <2> QED  BY <1>3, <2>1, <2>2 DEF Sessions, f
  <1>4. CASE c.entry = "aead_decrypt"
    <2>1. f = aead_decrypt /\ InputOf(c) = "ciphertext" /\ OutputOf(c) = "plaintext"
      BY <1>4, SpecialFunctions DEF InputOf, OutputOf, Encrypts
    <2> HIDE DEF f
    <2>2. /\ f.nonnull = {"enc_key", "mac_key", "nonce", "tag"}
          /\ f.slices = {"aad", "plaintext", "ciphertext"}
          /\ f.object = {} /\ f.outs = {"plaintext"}
      BY <2>1 DEF aead_decrypt
    <2> QED  BY <1>4, <2>1, <2>2 DEF Sessions, Encrypts, f
  <1> QED  BY <1>1, <1>2, <1>3, <1>4, Zenon DEF Packets

\* Whatever a packet function writes is there afterwards, and leaves its other arguments
\* alone.  The output has the length of the input.
LEMMA PacketMemory ==
    ASSUME NEW c \in Calls, IsCall(c), ~Refused(c, Functions[c.entry]), c.entry \in Packets
    PROVE  LET f == Functions[c.entry]
           IN  /\ \A w \in {OutputOf(c)} \cup (Writes(f) \ Ranges) : \A m, g :
                    SliceOf(c, PutOf(c, m, w, g), w) = Cut(c, w, g)
               /\ \A w \in Writes(f) : \A r \in Args(f) \ {w} : \A m, g :
                    SliceOf(c, PutOf(c, m, w, g), r) = SliceOf(c, m, r)
               /\ Length(c, OutputOf(c)) = Length(c, InputOf(c))
  <1> DEFINE f == Functions[c.entry]
  <1>1. /\ OutputOf(c) \in Writes(f) /\ OutputOf(c) \in f.slices
        /\ Args(f) \cap Copied = {} /\ Writes(f) \subseteq Args(f)
    BY PacketArgs
  <1>2. ASSUME NEW w \in {OutputOf(c)} \cup (Writes(f) \ Ranges)
        PROVE  Fits(c, w) /\ w \in Args(f)
    <2>1. CASE w = OutputOf(c)
      <3>1. c.ptr[w] \in Int /\ Length(c, w) \in Nat
        BY <1>1, <2>1, ArgumentType
      <3>2. range_ok(c.ptr[w], Length(c, w))
        BY <1>1, <2>1, Zenon DEF Refused, BadLength
      <3>3. Fits(c, w)
        <4>1. AddressSpace \in Nat
          BY CheckAssumption, Zenon
        <4>2. Length(c, w) = 0 \/ ~(c.ptr[w] + Length(c, w) >= AddressSpace)
          BY <3>2, Zenon DEF range_ok, Overflows
        <4> QED  BY <3>1, <4>1, <4>2 DEF Fits
      <3> QED  BY <1>1, <2>1, <3>3
    <2>2. CASE w \in Writes(f) \ Ranges
      BY <1>1, <2>2, ObjectAssumption DEF Fits, Length
    <2> QED  BY <2>1, <2>2
  <1>3. \A w \in {OutputOf(c)} \cup (Writes(f) \ Ranges) : \A m, g :
            SliceOf(c, PutOf(c, m, w, g), w) = Cut(c, w, g)
    BY <1>2, PutThere, Zenon
  <1>4. ASSUME NEW w \in Writes(f), NEW r \in Args(f) \ {w}
        PROVE  \A m, g : SliceOf(c, PutOf(c, m, w, g), r) = SliceOf(c, m, r)
    <2>1. Misses(c, w, r)
      BY <1>1, AcceptedMisses
    <2> QED  BY <2>1, PutElsewhere, Zenon
  <1>5. \A w \in Writes(f) : \A r \in Args(f) \ {w} : \A m, g :
            SliceOf(c, PutOf(c, m, w, g), r) = SliceOf(c, m, r)
    BY <1>4, Zenon
  <1>6. Length(c, OutputOf(c)) = Length(c, InputOf(c))
    BY DEF OutputOf, InputOf, Length, Ranges, LengthArg
  <1> QED  BY <1>3, <1>5, <1>6, Zenon

\* Keys and nonce are read where the host left them.
LEMMA KeysKept ==
    ASSUME NEW c, c.entry \in Packets, NEW m, NEW S, Kept(c, m, S), NEW h
    PROVE  /\ S \cap {"enc_key", "mac_key"} = {} =>
                  /\ KeyFor(c, m, h, "enc_key") = KeyFor(c, Host, h, "enc_key")
                  /\ KeyFor(c, m, h, "mac_key") = KeyFor(c, Host, h, "mac_key")
           /\ "nonce" \notin S => NonceFor(c, m, h) = NonceFor(c, Host, h)
  BY PacketArgs DEF Kept, KeyFor, NonceFor

\* What a write leaves of the arguments that were kept.
LEMMA StillKept ==
    ASSUME NEW c \in Calls, IsCall(c), ~Refused(c, Functions[c.entry]), c.entry \in Packets,
           NEW m, NEW S, Kept(c, m, S), NEW w \in Writes(Functions[c.entry]), NEW g
    PROVE  Kept(c, PutOf(c, m, w, g), S \cup {w})
  <1>1. \A r \in Args(Functions[c.entry]) \ {w} :
            SliceOf(c, PutOf(c, m, w, g), r) = SliceOf(c, m, r)
    <2> TAKE r \in Args(Functions[c.entry]) \ {w}
    <2>1. Misses(c, w, r)
      BY PacketArgs, AcceptedMisses, Zenon
    <2> QED  BY <2>1, PutElsewhere, Zenon
  <1> QED  BY <1>1, Zenon DEF Kept

\* A packet function between its steps.
LEMMA InPacket ==
    ASSUME IInv, MemoryInv, pc \in {"session", "verify", "copy", "keystream", "mac", "commit"}
    PROVE  /\ call \in Calls /\ IsCall(call) /\ ~Refused(call, Functions[call.entry])
           /\ call.entry \in Packets /\ call.entry \notin Special \ Packets
           /\ pc # "session" /\ call.entry \in Sessions => held = At(Host, call.ptr["manager"])
           /\ PacketSteps(call, written, held, pc)
  <1>1. call.entry \in Packets
    BY DEF MemoryInv, Memory, Labels, Sessions, Packets
  <1> QED  BY <1>1, Zenon DEF MemoryInv, Memory, PacketSteps, IInv, Accepted, F

\* A packet function of a session takes the key and the nonce of its manager.
LEMMA SessionKeeps ==
    ASSUME IInv, MemoryInv, Session
    PROVE  MemoryInv'
  <1>1. call.entry \in Packets /\ written = Host /\ UNCHANGED <<call, written, todo>>
    BY InPacket, Zenon DEF Session, MemoryInv, Memory, Untouched
  <1>2. CASE pc' = "done" /\ result' = "failed"
    BY <1>1, <1>2, AtTheEnd, Zenon DEF MemoryInv, Failed
  <1>3. CASE /\ held' = At(written, call.ptr["manager"])
             /\ pc' = IF IsEncrypt THEN "copy" ELSE "verify"
    BY <1>1, <1>3, OnTheWayOfPackets, ForThePacket, Zenon DEF MemoryInv
  <1> QED  BY <1>2, <1>3 DEF Session, Return, Goto

\* A wrong tag ends the call with the plaintext wiped.
LEMMA VerifyKeeps ==
    ASSUME IInv, MemoryInv, Verify
    PROVE  MemoryInv'
  <1>1. /\ call.entry \in Packets /\ written = Host /\ UNCHANGED <<call, held, todo>>
        /\ call.entry \in Sessions => held = At(Host, call.ptr["manager"])
    BY InPacket, Zenon DEF Verify, MemoryInv, Memory, Untouched
  <1>2. CASE written' = Fill(written, "plaintext", Zero) /\ pc' = "done" /\ result' = "wrong tag"
    <2>1. written' = PutOf(call, Host, "plaintext", SameOf(call, "plaintext", Zero))
      BY <1>1, <1>2, ForTheCall, Zenon
    <2> QED  BY <1>1, <1>2, <2>1, AtTheEnd, Zenon DEF MemoryInv, Failed
  <1>3. CASE UNCHANGED written /\ pc' = "copy"
    BY <1>1, <1>3, OnTheWayOfPackets, Zenon DEF MemoryInv
  <1> QED  BY <1>2, <1>3, Zenon DEF Verify, Return, Goto

\* The input is copied before anything else is written.
LEMMA CopyKeeps ==
    ASSUME IInv, MemoryInv, Copy
    PROVE  MemoryInv'
  <1>1. /\ call \in Calls /\ IsCall(call) /\ ~Refused(call, Functions[call.entry])
        /\ call.entry \in Packets /\ written = Host /\ UNCHANGED <<call, held, todo>>
        /\ call.entry \in Sessions => held = At(Host, call.ptr["manager"])
        /\ pc' = "keystream"
    BY InPacket, Zenon DEF Copy, MemoryInv, Memory, Untouched, Goto
  <1>2. written' = PutOf(call, Host, OutputOf(call), SliceOf(call, Host, InputOf(call)))
    BY <1>1, ForTheCall, ForThePacket, Zenon DEF Copy
  <1>3. Kept(call, written', {OutputOf(call)})
    <2>1. Kept(call, Host, {})
      BY DEF Kept
    <2>2. Kept(call, written', {} \cup {OutputOf(call)})
      BY <1>1, <1>2, <2>1, StillKept, PacketArgs, Zenon
    <2> QED  BY <2>2
  <1>4. SliceOf(call, written', OutputOf(call)) = SliceOf(call, Host, InputOf(call))
    <2> DEFINE g == SliceOf(call, Host, InputOf(call))
    <2>1. g = Cut(call, OutputOf(call), g)
      BY <1>1, PacketMemory, Zenon DEF SliceOf, Cut
    <2> HIDE DEF g
    <2>2. SliceOf(call, PutOf(call, Host, OutputOf(call), g), OutputOf(call)) = g
      <3>1. \A m, b : SliceOf(call, PutOf(call, m, OutputOf(call), b), OutputOf(call))
                         = Cut(call, OutputOf(call), b)
        BY <1>1, PacketMemory, Zenon
      <3> QED  BY <2>1, <3>1, Zenon
    <2> QED  BY <1>2, <2>2 DEF g
  <1>5. PacketSteps(call, written', held', "keystream")
    BY <1>1, <1>3, <1>4, Zenon DEF PacketSteps
  <1> QED  BY <1>1, <1>5, OnTheWayOfPackets, Zenon DEF MemoryInv

\* The key stream is made from a key and a nonce that the copy has not touched.
LEMMA ApplyKeystreamKeeps ==
    ASSUME IInv, MemoryInv, ApplyKeystream
    PROVE  MemoryInv'
  <1>1. /\ call \in Calls /\ IsCall(call) /\ ~Refused(call, Functions[call.entry])
        /\ call.entry \in Packets /\ UNCHANGED <<call, held, todo>>
        /\ call.entry \in Sessions => held = At(Host, call.ptr["manager"])
        /\ PacketSteps(call, written, held, "keystream")
    BY InPacket, Zenon DEF ApplyKeystream
  <1>2. /\ Kept(call, written, {OutputOf(call)})
        /\ SliceOf(call, written, OutputOf(call)) = SliceOf(call, Host, InputOf(call))
    BY <1>1, Zenon DEF PacketSteps
  <1>3. /\ KeyOf(written, held, "enc_key") = KeyFor(call, Host, held, "enc_key")
        /\ NonceOf(written, held) = NonceFor(call, Host, held)
    <2>1. {OutputOf(call)} \cap {"enc_key", "mac_key"} = {} /\ "nonce" \notin {OutputOf(call)}
      BY DEF OutputOf
    <2> DEFINE S == {OutputOf(call)}
    <2> HIDE DEF S
    <2>2. /\ KeyFor(call, written, held, "enc_key") = KeyFor(call, Host, held, "enc_key")
          /\ NonceFor(call, written, held) = NonceFor(call, Host, held)
      <3>1. Kept(call, written, S) /\ S \cap {"enc_key", "mac_key"} = {} /\ "nonce" \notin S
        BY <1>2, <2>1, Zenon DEF S
      <3> QED  BY <1>1, <3>1, KeysKept, Zenon
    <2> QED  BY <2>2, ForThePacket, Zenon
  <1>4. written' = PutOf(call, written, OutputOf(call), TextFor(call, held))
    <2>1. Slice(written, Output) = SliceOf(call, Host, InputOf(call))
      BY <1>2, ForTheCall, ForThePacket
    <2>2. DOMAIN SliceOf(call, Host, InputOf(call)) = 0 .. Length(call, InputOf(call)) - 1
      BY DEF SliceOf
    <2>3. written' = PutOf(call, written, OutputOf(call),
                           [i \in DOMAIN SliceOf(call, Host, InputOf(call)) |->
                              Keystream(KeyFor(call, Host, held, "enc_key"),
                                        NonceFor(call, Host, held), i,
                                        SliceOf(call, Host, InputOf(call))[i])])
      BY <1>3, <2>1, ForTheCall, ForThePacket, Zenon DEF ApplyKeystream
    <2> QED  BY <2>2, <2>3 DEF TextFor
  <1>5. Kept(call, written', {OutputOf(call)})
    <2>1. Kept(call, written', {OutputOf(call)} \cup {OutputOf(call)})
      BY <1>1, <1>2, <1>4, StillKept, PacketArgs, Zenon
    <2> QED  BY <2>1
  <1>6. SliceOf(call, written', OutputOf(call)) = TextFor(call, held)
    <2> DEFINE g == TextFor(call, held)
    <2>1. g = Cut(call, OutputOf(call), g)
      BY <1>1, PacketMemory, Zenon DEF TextFor, Cut
    <2> HIDE DEF g
    <2>2. SliceOf(call, PutOf(call, written, OutputOf(call), g), OutputOf(call)) = g
      <3>1. \A m, b : SliceOf(call, PutOf(call, m, OutputOf(call), b), OutputOf(call))
                         = Cut(call, OutputOf(call), b)
        BY <1>1, PacketMemory, Zenon
      <3> QED  BY <2>1, <3>1, Zenon
    <2> QED  BY <1>4, <2>2 DEF g
  <1>7. CASE call.entry \in Encrypts /\ pc' = "mac"
    <2>1. PacketSteps(call, written', held', "mac")
      BY <1>1, <1>5, <1>6, Zenon DEF PacketSteps
    <2> QED  BY <1>1, <1>7, <2>1, OnTheWayOfPackets, Zenon DEF MemoryInv
  <1>8. CASE call.entry \notin Encrypts /\ call.entry \in Sessions /\ pc' = "commit"
    <2>1. PacketSteps(call, written', held', "commit")
      BY <1>1, <1>5, <1>6, <1>8, Zenon DEF PacketSteps
    <2> QED  BY <1>1, <1>8, <2>1, OnTheWayOfPackets, Zenon DEF MemoryInv
  <1>9. CASE /\ call.entry \notin Encrypts /\ call.entry \notin Sessions
             /\ pc' = "done" /\ result' = "success"
    <2>1. call.entry = "aead_decrypt"
      BY <1>1, <1>9 DEF Packets, Encrypts, Sessions
    <2>2. Right(call, written', held')
      BY <1>1, <1>6, <1>9, <2>1, Zenon DEF Right, Backed, Special, Packets, Encrypts, Sessions
    <2> QED  BY <1>1, <1>9, <2>2, AtTheEnd, Zenon DEF MemoryInv
  <1> QED  BY <1>7, <1>8, <1>9, ForThePacket DEF ApplyKeystream, Goto, Return

\* So is the tag, from the ciphertext in the output.
LEMMA ComputeMacKeeps ==
    ASSUME IInv, MemoryInv, ComputeMac
    PROVE  MemoryInv'
  <1>1. /\ call \in Calls /\ IsCall(call) /\ ~Refused(call, Functions[call.entry])
        /\ call.entry \in Packets /\ call.entry \in Encrypts /\ UNCHANGED <<call, held, todo>>
        /\ call.entry \in Sessions => held = At(Host, call.ptr["manager"])
        /\ PacketSteps(call, written, held, "mac")
    BY InPacket, Zenon DEF ComputeMac, MemoryInv, Memory, Labels
  <1>2. OutputOf(call) = "ciphertext"
    BY <1>1, Zenon DEF OutputOf
  <1>3. Kept(call, written, {"ciphertext"}) /\ SliceOf(call, written, "ciphertext") = TextFor(call, held)
    BY <1>1, <1>2, Zenon DEF PacketSteps
  <1>4. /\ "tag" \in Writes(Functions[call.entry]) \ Ranges
        /\ {"aad", "tag", "ciphertext"} \subseteq Args(Functions[call.entry])
    BY <1>1, <1>2, PacketArgs, Zenon DEF Ranges
  <1>5. /\ KeyOf(written, held, "mac_key") = KeyFor(call, Host, held, "mac_key")
        /\ NonceOf(written, held) = NonceFor(call, Host, held)
        /\ Slice(written, "aad") = SliceOf(call, Host, "aad")
        /\ Slice(written, "ciphertext") = TextFor(call, held)
    <2>1. SliceOf(call, written, "aad") = SliceOf(call, Host, "aad")
      BY <1>3, <1>4 DEF Kept
    <2>2. {"ciphertext"} \cap {"enc_key", "mac_key"} = {} /\ "nonce" \notin {"ciphertext"}
      OBVIOUS
    <2> DEFINE S == {"ciphertext"}
    <2> HIDE DEF S
    <2>3. /\ KeyFor(call, written, held, "mac_key") = KeyFor(call, Host, held, "mac_key")
          /\ NonceFor(call, written, held) = NonceFor(call, Host, held)
      <3>1. Kept(call, written, S) /\ S \cap {"enc_key", "mac_key"} = {} /\ "nonce" \notin S
        BY <1>3, <2>2, Zenon DEF S
      <3> QED  BY <1>1, <3>1, KeysKept, Zenon
    <2> QED  BY <1>3, <2>1, <2>3, ForThePacket, ForTheCall, Zenon
  <1>6. written' = PutOf(call, written, "tag", TagFor(call, held))
    BY <1>5, ForTheCall, Zenon DEF ComputeMac, TagFor
  <1>7. Kept(call, written', {"ciphertext"} \cup {"tag"})
    BY <1>1, <1>3, <1>4, <1>6, StillKept, Zenon
  <1>8. SliceOf(call, written', "ciphertext") = TextFor(call, held)
    <2>1. \A m, b : SliceOf(call, PutOf(call, m, "tag", b), "ciphertext")
                      = SliceOf(call, m, "ciphertext")
      BY <1>1, <1>4, PacketMemory, Zenon
    <2> QED  BY <1>3, <1>6, <2>1
  <1>9. SliceOf(call, written', "tag") = TagFor(call, held)
    <2> DEFINE g == TagFor(call, held)
    <2>1. g = Cut(call, "tag", g)
      BY Zenon DEF TagFor, Length, Ranges, Cut
    <2>2. \A m, b : SliceOf(call, PutOf(call, m, "tag", b), "tag")
                      = Cut(call, "tag", b)
      BY <1>1, <1>4, PacketMemory, Zenon
    <2> HIDE DEF g
    <2>3. SliceOf(call, PutOf(call, written, "tag", g), "tag") = g
      BY <2>1, <2>2, Zenon
    <2> QED  BY <1>6, <2>3 DEF g
  <1>10. IF call.entry \in Sessions THEN pc' = "commit" ELSE pc' = "done" /\ result' = "success"
    BY ForThePacket DEF ComputeMac, Goto, Return
  <1>11. CASE call.entry \in Sessions
    <2>1. PacketSteps(call, written', held', "commit")
      BY <1>1, <1>2, <1>7, <1>8, <1>9, Zenon DEF PacketSteps
    <2> QED  BY <1>1, <1>10, <1>11, <2>1, OnTheWayOfPackets, Zenon DEF MemoryInv
  <1>12. CASE call.entry \notin Sessions
    <2>1. call.entry = "aead_encrypt"
      BY <1>1, <1>12 DEF Encrypts, Sessions
    <2>2. Right(call, written', held')
      BY <1>1, <1>2, <1>8, <1>9, <1>12, <2>1, Zenon DEF Right, Backed, Special, Packets
    <2> QED  BY <1>1, <1>10, <1>12, <2>2, AtTheEnd, Zenon DEF MemoryInv
  <1> QED  BY <1>11, <1>12

\* The first byte of a manager that was kept.
LEMMA FirstByte ==
    ASSUME NEW c, IsCall(c), "manager" \in Args(Functions[c.entry]), NEW m,
           SliceOf(c, m, "manager") = SliceOf(c, Host, "manager")
    PROVE  At(m, c.ptr["manager"]) = At(Host, c.ptr["manager"])
  <1>1. c.ptr["manager"] \in Nat /\ c.ptr["manager"] < AddressSpace
    BY CheckAssumption DEF IsCall, Address
  <1>2. (c.ptr["manager"] + 0) % AddressSpace = c.ptr["manager"]
    BY <1>1, NoWrap
  <1>3. 0 \in 0 .. Length(c, "manager") - 1
    <2>1. "manager" \in Roles \ Ranges
      BY DEF Roles, Ranges, IsCall
    <2>2. Size["manager"] \in Nat \ {0}
      BY <2>1, CallAssumption
    <2> QED  BY <2>1, <2>2 DEF Length
  <1>4. SliceOf(c, m, "manager")[0] = SliceOf(c, Host, "manager")[0]
    OBVIOUS
  <1>5. \A n : SliceOf(c, n, "manager")[0] = At(n, c.ptr["manager"])
    BY <1>2, <1>3 DEF SliceOf
  <1> QED  BY <1>4, <1>5

\* The tail of a session's functions counts the nonce of the call and nothing else.
LEMMA CommitKeeps ==
    ASSUME IInv, MemoryInv, Commit
    PROVE  MemoryInv'
  <1> DEFINE f == Functions[call.entry]
             nonce == NonceFor(call, Host, held)
             S == {OutputOf(call)} \cup (IF call.entry \in Encrypts THEN {"tag"} ELSE {})
  <1>1. /\ call \in Calls /\ IsCall(call) /\ ~Refused(call, f)
        /\ call.entry \in Packets /\ call.entry \in Sessions /\ UNCHANGED <<call, held, todo>>
        /\ held = At(Host, call.ptr["manager"])
        /\ PacketSteps(call, written, held, "commit")
        /\ pc' = "done" /\ result' = "success"
    BY InPacket, Zenon DEF Commit, MemoryInv, Memory, Labels, Return
  <1>2. /\ Kept(call, written, S) /\ SliceOf(call, written, OutputOf(call)) = TextFor(call, held)
        /\ call.entry \in Encrypts => SliceOf(call, written, "tag") = TagFor(call, held)
    BY <1>1, Zenon DEF PacketSteps
  <1>3. OutputOf(call) \in {"plaintext", "ciphertext"}
    BY DEF OutputOf
  <1>4. NonceOf(written, held) = nonce
    <2>1. "nonce" \notin S
      BY <1>3
    <2> HIDE DEF S
    <2> QED  BY <1>1, <1>2, <2>1, KeysKept, ForThePacket, Zenon
  <1>5. call.entry \in Encrypts <=> call.entry = "session_manager_encrypt_packet"
    BY <1>1 DEF Encrypts, Sessions
  <1>6. /\ {"nonce", "tag", OutputOf(call), "manager"} \subseteq Args(f)
        /\ "manager" \in Writes(f) \ Ranges
        /\ call.entry \in Encrypts => "nonce" \in Writes(f) \ Ranges
    BY <1>1, <1>5, PacketArgs, Zenon DEF Ranges
  <1> DEFINE out == IF IsEncrypt THEN Put(written, "nonce", PendingNonce(held)) ELSE written
             new == Advanced(At(out, call.ptr["manager"]), nonce)
  <1>7. written' = PutOf(call, out, "manager", SameOf(call, "manager", new))
    BY <1>4, ForTheCall, Zenon DEF Commit
  <1>8. /\ \A w \in Writes(f) : \A r \in Args(f) \ {w} : \A m, g :
              SliceOf(call, PutOf(call, m, w, g), r) = SliceOf(call, m, r)
        /\ \A w \in Writes(f) \ Ranges : \A m, g :
              SliceOf(call, PutOf(call, m, w, g), w) = Cut(call, w, g)
    BY <1>1, PacketMemory, Zenon
  <1>9. /\ \A r \in Args(f) \ {"nonce"} : SliceOf(call, out, r) = SliceOf(call, written, r)
        /\ call.entry \in Encrypts => SliceOf(call, out, "nonce") = nonce
    <2>1. CASE call.entry \notin Encrypts
      BY <2>1, ForThePacket, Zenon
    <2>2. CASE call.entry \in Encrypts
      <3>1. out = PutOf(call, written, "nonce", PendingNonce(held)) /\ nonce = PendingNonce(held)
        BY <1>5, <2>2, ForThePacket, ForTheCall DEF NonceFor
      <3>2. PendingNonce(held) = Cut(call, "nonce", PendingNonce(held))
        BY DEF PendingNonce, Length, Ranges, Cut
      <3> HIDE DEF out, nonce, f
      <3>3. SliceOf(call, out, "nonce") = Cut(call, "nonce", PendingNonce(held))
        BY <1>6, <1>8, <2>2, <3>1
      <3>4. \A r \in Args(f) \ {"nonce"} : SliceOf(call, out, r) = SliceOf(call, written, r)
        BY <1>6, <1>8, <2>2, <3>1
      <3> QED  BY <3>1, <3>2, <3>3, <3>4, Zenon
    <2> QED  BY <2>1, <2>2, Zenon
  <1> HIDE DEF out, f
  <1>10. At(out, call.ptr["manager"]) = held
    <2>1. SliceOf(call, written, "manager") = SliceOf(call, Host, "manager")
      BY <1>2, <1>3, <1>6, Zenon DEF Kept, f
    <2>2. SliceOf(call, out, "manager") = SliceOf(call, Host, "manager")
      BY <1>6, <1>9, <2>1
    <2> QED  BY <1>1, <1>6, <2>2, FirstByte, Zenon DEF f
  <1>11. SliceOf(call, written', "manager") = SameOf(call, "manager", Advanced(held, nonce))
    <2>1. \A m, g : SliceOf(call, PutOf(call, m, "manager", g), "manager")
                      = Cut(call, "manager", g)
      BY <1>6, <1>8
    <2>2. written' = PutOf(call, out, "manager", SameOf(call, "manager", Advanced(held, nonce)))
      BY <1>7, <1>10, Zenon
    <2> HIDE DEF nonce
    <2>3. SameOf(call, "manager", Advanced(held, nonce))
              = Cut(call, "manager", SameOf(call, "manager", Advanced(held, nonce)))
      BY DEF SameOf, Cut
    <2> QED  BY <2>1, <2>2, <2>3, Zenon
  <1>12. \A r \in Args(f) \ {"manager"} : SliceOf(call, written', r) = SliceOf(call, out, r)
    <2> HIDE DEF new
    <2> QED  BY <1>6, <1>7, <1>8
  <1>13. /\ SliceOf(call, written', OutputOf(call)) = TextFor(call, held)
         /\ call.entry \in Encrypts => SliceOf(call, written', "tag") = TagFor(call, held)
         /\ call.entry \in Encrypts => SliceOf(call, written', "nonce") = nonce
    <2> HIDE DEF nonce
    <2> QED  BY <1>2, <1>3, <1>6, <1>9, <1>12
  <1>14. Right(call, written', held')
    <2>1. call.entry # "hkdf_expand_sha384" /\ call.entry \notin Backed /\ call.entry \in Special
      BY <1>1, Zenon DEF Packets, Backed, Special
    <2> QED  BY <1>1, <1>5, <1>11, <1>13, <2>1, Zenon DEF Right
  <1> QED  BY <1>1, <1>14, AtTheEnd, Zenon DEF MemoryInv

-----------------------------------------------------------------------------
\* Every step keeps what is known of the memory.
LEMMA MemoryPreserved ==
    ASSUME IInv, MemoryInv, [Next]_vars
    PROVE  MemoryInv'
  <1>1. CASE UNCHANGED vars
    BY <1>1 DEF MemoryInv, vars
  <1> QED  BY <1>1, CheckKeeps, MethodKeeps, MethodFailsKeeps, WriteKeeps, WriteNewKeeps,
              InitRegionKeeps, ExpandKeeps, ExpandBlockKeeps, SessionKeeps, VerifyKeeps, CopyKeeps,
              ApplyKeystreamKeeps, ComputeMacKeeps, CommitKeeps
           DEF Next

\* The invariant of the memory, for every call of every function.
LEMMA MemoryInvariant == Spec => [](IInv /\ MemoryInv)
  <1>1. Init => IInv /\ MemoryInv
    <2>1. Init => IInv
      BY CallAssumption DEF Init, IInv, Accepted
    <2>2. Init => MemoryInv
      BY OnTheWay, Zenon DEF Init, MemoryInv
    <2> QED  BY <2>1, <2>2
  <1>2. IInv /\ MemoryInv /\ [Next]_vars => (IInv /\ MemoryInv)'
    BY NextPreserves, MemoryPreserved
  <1> QED  BY <1>1, <1>2, PTL DEF Spec

\* Nothing is written before the call.
LEMMA HostEmpty == DOMAIN Host = {}
  BY DEF Host

\* What a wiped region holds.
LEMMA Wiped ==
    ASSUME NEW c, IsCall(c), NEW r \in Args(Functions[c.entry])
    PROVE  LET w == PutOf(c, Host, r, SameOf(c, r, Zero))
           IN  DOMAIN w = Bytes(c, r) /\ \A a \in Bytes(c, r) : w[a] = Zero
  <1>1. c.ptr[r] \in Int /\ Length(c, r) \in Nat
    BY ArgumentType, Zenon
  <1>2. \A a \in Bytes(c, r) : a - c.ptr[r] \in 0 .. Length(c, r) - 1
    BY <1>1 DEF Bytes
  <1> QED  BY <1>2, HostEmpty, Zenon DEF PutOf, SameOf

\* A call that fails has written nothing but the zeros of the region it wipes, wherever
\* the regions of the call lie.
THEOREM NothingReleased == Spec => []FailureReleasesNothing
  <1>1. IInv /\ MemoryInv => FailureReleasesNothing
    <2> SUFFICES ASSUME IInv, MemoryInv, pc \in {"refused", "done"}, ~Succeeded
                 PROVE  FailureReleasesNothing
      BY Zenon DEF FailureReleasesNothing
    <2>1. IsCall(call) /\ Failed(call, written, pc, result) /\ ~(pc = "done" /\ result = "success")
      BY DEF IInv, MemoryInv, Memory, Succeeded
    <2>2. CASE written = Host /\ result # "wrong tag"
      <3>1. DOMAIN written = {}
        BY <2>2, HostEmpty, Zenon
      <3> QED  BY <2>2, <3>1, Zenon DEF FailureReleasesNothing
    <2>3. CASE /\ result = "wrong tag" /\ call.entry \in Packets
               /\ written = PutOf(call, Host, "plaintext", SameOf(call, "plaintext", Zero))
      <3>1. "plaintext" \in Args(F)
        BY <2>3, PacketArgs, Zenon DEF InputOf, OutputOf, F
      <3>2. /\ DOMAIN written = Bytes(call, "plaintext")
            /\ \A a \in Bytes(call, "plaintext") : written[a] = Zero
        BY <2>1, <2>3, <3>1, Wiped, Zenon DEF F
      <3>3. call.entry # "hkdf_expand_sha384"
        BY <2>3, Zenon DEF Packets
      <3> QED  BY <2>3, <3>2, <3>3, Zenon DEF FailureReleasesNothing
    <2>4. CASE /\ result = "failed" /\ call.entry = "hkdf_expand_sha384"
               /\ written = PutOf(call, Host, "out", SameOf(call, "out", Zero))
      <3>1. "out" \in Args(F)
        <4>1. F = hkdf_expand_sha384
          BY <2>4, SpecialFunctions, Zenon DEF F
        <4> QED  BY <4>1 DEF hkdf_expand_sha384, Function, Args
      <3>2. /\ DOMAIN written = Bytes(call, "out")
            /\ \A a \in Bytes(call, "out") : written[a] = Zero
        BY <2>1, <2>4, <3>1, Wiped DEF F
      <3>3. call.entry \notin EndsSession
        BY <2>4 DEF EndsSession
      <3> QED  BY <2>4, <3>2, <3>3 DEF FailureReleasesNothing
    <2>5. CASE /\ result = "failed" /\ call.entry \in EndsSession
               /\ written = PutOf(call, Host, "manager", SameOf(call, "manager", Zero))
      <3>1. "manager" \in Args(F)
        BY <2>1, <2>5, EndsSessionObject, AllCover, Zenon DEF Covers, Writes, IsCall, F
      <3>2. /\ DOMAIN written = Bytes(call, "manager")
            /\ \A a \in Bytes(call, "manager") : written[a] = Zero
        BY <2>1, <2>5, <3>1, Wiped, Zenon DEF F
      <3>3. call.entry # "hkdf_expand_sha384"
        BY <2>5 DEF EndsSession
      <3> QED  BY <2>5, <3>2, <3>3 DEF FailureReleasesNothing
    <2> QED  BY <2>1, <2>2, <2>3, <2>4, <2>5, Zenon DEF Failed
  <1> QED  BY <1>1, MemoryInvariant, PTL

\* Which of its cases a function falls into.
LEMMA Kinds ==
    ASSUME NEW e \in Entries
    PROVE  /\ "plaintext" \in Functions[e].slices <=> e \in Packets
           /\ "prk" \in Functions[e].nonnull <=> e = "hkdf_expand_sha384"
           /\ "memory_base" \in Functions[e].nonnull <=> e \in Backed
  <1>1. CASE e \notin Special
    BY <1>1, MethodsSimple DEF Simple, Special
  <1>2. CASE e \in Packets
    <2>1. e \notin Backed /\ e # "hkdf_expand_sha384"
      BY <1>2 DEF Packets, Backed
    <2> DEFINE P(f) == /\ "plaintext" \in f.slices /\ "prk" \notin f.nonnull
                       /\ "memory_base" \notin f.nonnull
    <2>2. \A f \in {session_manager_encrypt_packet, session_manager_decrypt_packet,
                    aead_encrypt, aead_decrypt} : P(f)
      <3>1. P(session_manager_encrypt_packet) /\ P(session_manager_decrypt_packet)
        BY DEF session_manager_encrypt_packet, session_manager_decrypt_packet, Function
      <3>2. P(aead_encrypt) /\ P(aead_decrypt)
        BY DEF aead_encrypt, aead_decrypt, Function
      <3> HIDE DEF P
      <3> QED  BY <3>1, <3>2, Zenon
    <2>3. Functions[e] \in {session_manager_encrypt_packet, session_manager_decrypt_packet,
                            aead_encrypt, aead_decrypt}
      BY <1>2, SpecialFunctions, Zenon DEF Packets
    <2> QED  BY <1>2, <2>1, <2>2, <2>3
  <1>3. CASE e \in Backed
    <2>1. e \notin Packets /\ e # "hkdf_expand_sha384"
      BY <1>3 DEF Packets, Backed
    <2>2. \A o \in {"pool", "queue", "rb"} :
              /\ "plaintext" \notin WithBacking(o).slices /\ "prk" \notin WithBacking(o).nonnull
              /\ "memory_base" \in WithBacking(o).nonnull
      BY DEF WithBacking, Function
    <2>3. \E o \in {"pool", "queue", "rb"} : Functions[e] = WithBacking(o)
      BY <1>3, SpecialFunctions, Zenon DEF Backed
    <2> QED  BY <1>3, <2>1, <2>2, <2>3
  <1>4. CASE e = "hkdf_expand_sha384"
    <2>1. /\ "plaintext" \notin hkdf_expand_sha384.slices /\ "prk" \in hkdf_expand_sha384.nonnull
          /\ "memory_base" \notin hkdf_expand_sha384.nonnull
      BY DEF hkdf_expand_sha384, Function
    <2> QED  BY <1>4, <2>1, SpecialFunctions DEF Packets, Backed
  <1> QED  BY <1>1, <1>2, <1>3, <1>4 DEF Special

\* A successful call of any function leaves what it makes of the host's memory as it was
\* before the call: no region it writes is one that it has still to read.
THEOREM RightOutputs == Spec => []OutputFromInputs
  <1>1. IInv /\ MemoryInv => OutputFromInputs
    <2> SUFFICES ASSUME IInv, MemoryInv, Succeeded
                 PROVE  OutputFromInputs
      BY DEF OutputFromInputs
    <2>1. Right(call, written, held) /\ call.entry \in Entries
      BY Zenon DEF IInv, IsCall, MemoryInv, Memory, Succeeded
    <2>2. /\ "plaintext" \in F.slices <=> call.entry \in Packets
          /\ "prk" \in F.nonnull <=> call.entry = "hkdf_expand_sha384"
          /\ TakesBacking <=> call.entry \in Backed
      BY <2>1, Kinds DEF F, TakesBacking
    <2>3. CASE call.entry \in Packets
      <3>1. PacketFromInputs
        <4> DEFINE before == IF IsSession THEN At(Host, call.ptr["manager"]) ELSE held
        <4>1. before = held
          BY <2>1, <2>3, ForThePacket, Zenon DEF Right
        <4> DEFINE text == [i \in 0 .. Length(call, Input) - 1 |->
                       Keystream(KeyOf(Host, before, "enc_key"), NonceOf(Host, before), i,
                                 Slice(Host, Input)[i])]
        <4>2. text = TextFor(call, held)
          BY <4>1, ForThePacket, ForTheCall, Zenon DEF TextFor
        <4>3. [i \in 0 .. Size["tag"] - 1 |->
                 HmacTag(KeyOf(Host, before, "mac_key"), NonceOf(Host, before), Slice(Host, "aad"),
                         text, i)]
              = TagFor(call, held)
          BY <4>1, <4>2, ForThePacket, ForTheCall, Zenon DEF TagFor
        <4>4. NonceOf(Host, before) = NonceFor(call, Host, held)
          BY <4>1, ForThePacket, Zenon
        <4>5. /\ Slice(written, Output) = text
              /\ IsEncrypt => Slice(written, "tag") = TagFor(call, held)
              /\ call.entry = "session_manager_encrypt_packet" =>
                     Slice(written, "nonce") = NonceOf(Host, before)
              /\ IsSession =>
                     Slice(written, "manager") = Same("manager", Advanced(before, NonceOf(Host, before)))
          BY <2>1, <2>3, <4>1, <4>2, <4>4, ForThePacket, ForTheCall, Zenon DEF Right
        <4> QED  BY <4>3, <4>5, Zenon DEF PacketFromInputs
      <3>2. call.entry # "hkdf_expand_sha384" /\ call.entry \notin Backed
        BY <2>3 DEF Packets, Backed
      <3> QED  BY <2>2, <2>3, <3>1, <3>2 DEF OutputFromInputs
    <2>4. CASE call.entry = "hkdf_expand_sha384"
      <3>1. call.entry \notin Packets /\ call.entry \notin Backed
        BY <2>4 DEF Packets, Backed
      <3>2. Slice(written, "out") = [i \in 0 .. Length(call, "out") - 1 |->
                                       Okm(Slice(Host, "prk"), Slice(Host, "info"), i)]
        BY <2>1, <2>4, ForTheCall, Zenon DEF Right
      <3> QED  BY <2>2, <2>4, <3>1, <3>2, Zenon DEF OutputFromInputs
    <2>5. CASE call.entry \in Backed
      <3>1. call.entry \notin Packets /\ call.entry # "hkdf_expand_sha384"
        BY <2>5 DEF Packets, Backed
      <3>2. PICK o : F.object = {o}
        <4>1. \E o : F = WithBacking(o)
          BY <2>5, SpecialFunctions, Zenon DEF Backed, F
        <4> QED  BY <4>1 DEF WithBacking, Function
      <3>3. Slice(written, Object) = Same(Object, <<"ready">>)
        BY <2>1, <2>5, <3>2, OneObject, ForTheCall, Zenon DEF Right, F
      <3>4. "pool" \notin F.object => \A a \in CounterOf : written[a] = <<"counter">>
        BY <2>1, <2>5, Zenon DEF Right, CounterOf, F
      <3> QED  BY <2>2, <2>5, <3>1, <3>3, <3>4, Zenon DEF OutputFromInputs
    <2>6. CASE call.entry \notin Special
      <3>1. call.entry \notin Packets \cup Backed \cup {"hkdf_expand_sha384"}
        BY <2>6 DEF Special
      <3>2. held = Read(Host, Host)
        BY <2>1, <2>6, ForTheCall, Zenon DEF Right, Read, ReadOf, F
      <3>3. \A r \in Writes(F) : Slice(written, r) = Made(r)
        BY <2>1, <2>6, ForTheCall, Zenon DEF Right, F
      <3> QED  BY <2>2, <3>1, <3>2, <3>3, Zenon DEF OutputFromInputs
    <2> QED  BY <2>3, <2>4, <2>5, <2>6 DEF Special
  <1> QED  BY <1>1, MemoryInvariant, PTL
=============================================================================
