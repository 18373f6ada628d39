------------------------------ MODULE FfiChecks ------------------------------
(***************************************************************************)
(* What the wrappers of the two C interfaces check of the pointers and     *)
(* lengths a host passes.  A function of an interface is described by the  *)
(* checks its wrapper makes and the regions its body writes; CryptoFfi and *)
(* RtosFfi hold one description per function.                              *)
(*                                                                         *)
(* An argument is named by its role.  A call is refused or let through:    *)
(* which error code a refusal has is left out.                             *)
(***************************************************************************)
EXTENDS Integers

CONSTANTS
    AddressSpace,  \* number of addresses: usize::MAX + 1
    Size,          \* size_of of the object or array of a role
    Align,         \* align_of of the object of a role
    Page,          \* 4096
    SlotSize,      \* size_of of an element of a backing region
    Slots,         \* number of elements of a backing region
    MaxSlice,      \* MAX_SLICE_LEN
    MaxPacket,     \* CHACHA20_MAX_BYTES
    MaxAppInfo,    \* MAX_APP_INFO_LEN
    WireLen        \* length of the wire encoding of a type

Address == 0 .. AddressSpace - 1

ASSUME CheckAssumption ==
    /\ AddressSpace \in Nat \ {0}
    /\ {Page, SlotSize, Slots, WireLen} \subseteq Nat \ {0}
    /\ {MaxSlice, MaxPacket, MaxAppInfo} \subseteq Nat

-----------------------------------------------------------------------------
\* Descriptions.

\* nonnull: pointers that may never be null;  slices: ranges that may be null when
\* empty;  aligned: pointers whose alignment is checked;  object: what the method
\* behind the wrapper changes in place;  outs: what the wrapper or the method writes;
\* compared: the pairs of arguments whose ranges must not overlap.
Function(nonnull, slices, aligned, object, outs, compared) ==
    [nonnull |-> nonnull, slices |-> slices, aligned |-> aligned,
     object |-> object, outs |-> outs, compared |-> compared]

Args(f) == f.nonnull \cup f.slices

Writes(f) == f.object \cup f.outs

Inputs(f) == Args(f) \ f.outs

\* The arguments whose length the host passes; two texts share theirs.
Ranges == {"aad", "plaintext", "ciphertext", "salt", "info", "app_info", "msg", "data",
           "out", "bytes", "memory_base"}

LengthArg(role) == IF role \in {"plaintext", "ciphertext"} THEN "data_len" ELSE role

\* `role` is compared with each of `others`.
With(role, others) == {role} \X others

-----------------------------------------------------------------------------
\* The checks of a call c, of a function described by f.

is_null(ptr) == ptr = 0

Length(c, role) == IF role \in Ranges THEN c.len[LengthArg(role)] ELSE Size[role]

ptr_is_aligned(c, role) == c.ptr[role] % Align[role] = 0

slice_len_valid(len) == len <= MaxSlice

\* checked_add returns None.
Overflows(ptr, len) == ptr + len >= AddressSpace

range_ok(ptr, len) == slice_len_valid(len) /\ (len = 0 \/ ~Overflows(ptr, len))

packet_len_valid(len) == slice_len_valid(len) /\ len <= MaxPacket

\* Empty ranges are compared like any other.
OverlapOfEmpty(first, first_len, second, second_len) ==
    \/ Overflows(first, first_len)
    \/ Overflows(second, second_len)
    \/ first < second + second_len /\ second < first + first_len

\* The version of the RTOS crate has no first conjunct, and compares no empty range.
ranges_overlap(first, first_len, second, second_len) ==
    /\ first_len # 0 /\ second_len # 0
    /\ \/ Overflows(first, first_len)
       \/ Overflows(second, second_len)
       \/ first < second + second_len /\ second < first + first_len

Overlap(c, f) ==
    \E p \in f.compared :
        ranges_overlap(c.ptr[p[1]], Length(c, p[1]), c.ptr[p[2]], Length(c, p[2]))

\* All pairs of regions in which one is writable.
writable_regions_overlap(regions, writable) ==
    {p \in regions \X regions : p[1] # p[2] /\ (p[1] \in writable \/ p[2] \in writable)}

NullArgument(c, f) ==
    \/ \E r \in f.nonnull : is_null(c.ptr[r])
    \/ \E r \in f.slices : is_null(c.ptr[r]) /\ Length(c, r) > 0

Required == Slots * SlotSize

valid_dma_region(c) ==
    /\ ~is_null(c.ptr["memory_base"])
    /\ c.ptr["memory_base"] % Page = 0 /\ ptr_is_aligned(c, "memory_base")
    /\ Length(c, "memory_base") >= Required
    /\ ~Overflows(c.ptr["memory_base"], Required)

\* The lengths a wrapper of f does not accept, beyond those no slice can have.
BadLength(c, f) ==
    \/ \E r \in f.slices : ~range_ok(c.ptr[r], Length(c, r))
    \/ "plaintext" \in f.slices /\ ~packet_len_valid(Length(c, "plaintext"))
    \/ "app_info" \in f.slices /\ Length(c, "app_info") > MaxAppInfo
    \/ "value" \in f.nonnull /\ Length(c, "out") # WireLen
    \/ "bytes" \in f.nonnull /\ Length(c, "bytes") # WireLen
    \/ "memory_base" \in f.nonnull /\ ~valid_dma_region(c)

Refused(c, f) ==
    \/ NullArgument(c, f)
    \/ \E r \in f.aligned : ~ptr_is_aligned(c, r)
    \/ BadLength(c, f)
    \/ Overlap(c, f)
=============================================================================
