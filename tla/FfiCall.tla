------------------------------- MODULE FfiCall -------------------------------
(***************************************************************************)
(* One call of a function of either C interface: the wrapper's checks,     *)
(* then what the body reads and writes of the host's memory, in the order  *)
(* of the code.  The host keeps the objects it passes to itself.           *)
(*                                                                         *)
(* A byte is the term of how it was made: <<"host", a>> was at address a   *)
(* before the call.  What the objects do with their contents is in the     *)
(* modules of the components; here a method takes its inputs to its        *)
(* outputs, or fails.                                                      *)
(***************************************************************************)
EXTENDS CryptoFfi, RtosFfi

CONSTANTS
    MaxExpand,  \* longest output of HKDF-Expand: 255 blocks
    Calls       \* the calls hosts make

Functions ==
    [session_manager_init |-> session_manager_init,
     session_manager_destroy |-> session_manager_destroy,
     session_manager_zeroize |-> session_manager_zeroize,
     session_manager_initiate_handshake |-> session_manager_initiate_handshake,
     session_manager_finalize_handshake |-> session_manager_finalize_handshake,
     session_manager_encapsulate_for_peer |-> session_manager_encapsulate_for_peer,
     session_manager_encapsulate_authenticated_v2 |->
         session_manager_encapsulate_authenticated_v2,
     session_manager_finalize_authenticated_v2 |-> session_manager_finalize_authenticated_v2,
     session_manager_confirm_peer_v2 |-> session_manager_confirm_peer_v2,
     session_manager_encrypt_packet |-> session_manager_encrypt_packet,
     session_manager_decrypt_packet |-> session_manager_decrypt_packet,
     aead_encrypt |-> aead_encrypt, aead_decrypt |-> aead_decrypt,
     ml_kem_keygen |-> ml_kem_keygen, ml_kem_encapsulate |-> ml_kem_encapsulate,
     ml_kem_decapsulate |-> ml_kem_decapsulate,
     ml_kem_decapskey_destroy |-> ml_kem_decapskey_destroy,
     ml_kem_sharedkey_destroy |-> ml_kem_sharedkey_destroy,
     ml_dsa_keygen |-> ml_dsa_keygen, ml_dsa_sign |-> ml_dsa_sign,
     ml_dsa_verify |-> ml_dsa_verify,
     ml_dsa_signingkey_destroy |-> ml_dsa_signingkey_destroy,
     x25519_keygen |-> x25519_keygen, x25519_diffie_hellman |-> x25519_diffie_hellman,
     x25519_secret_destroy |-> x25519_secret_destroy,
     x25519_sharedsecret_destroy |-> x25519_sharedsecret_destroy,
     wire_to_bytes |-> wire_to_bytes, wire_from_bytes |-> wire_from_bytes,
     hmac_sha384 |-> hmac_sha384, hkdf_expand_sha384 |-> hkdf_expand_sha384,
     entropy_push |-> entropy_push,
     scheduler_init |-> scheduler_init, scheduler_destroy |-> scheduler_destroy,
     scheduler_create_task |-> scheduler_create_task, scheduler_tick |-> scheduler_tick,
     scheduler_set_critical_task_mask |-> scheduler_set_critical_task_mask,
     scheduler_task_check_in |-> scheduler_task_check_in,
     tcb_new |-> tcb_new, tcb_get_rsp |-> tcb_get_rsp, tcb_set_rsp |-> tcb_set_rsp,
     dmapool2k_init |-> dmapool2k_init, dmapool2k_destroy |-> dmapool2k_destroy,
     dmapool2k_allocate |-> dmapool2k_allocate, dmapool2k_free |-> dmapool2k_free,
     spsc_telemetry_init |-> spsc_telemetry_init,
     spsc_telemetry_destroy |-> spsc_telemetry_destroy,
     spsc_telemetry_push |-> spsc_telemetry_push, spsc_telemetry_pop |-> spsc_telemetry_pop,
     ringbuffer_ew_init |-> ringbuffer_ew_init,
     ringbuffer_ew_destroy |-> ringbuffer_ew_destroy,
     ringbuffer_ew_push |-> ringbuffer_ew_push, ringbuffer_ew_pop |-> ringbuffer_ew_pop,
     ringbuffer_ew_peek |-> ringbuffer_ew_peek,
     spsc_fft_init |-> spsc_fft_init, spsc_fft_destroy |-> spsc_fft_destroy,
     spsc_fft_push |-> spsc_fft_push, spsc_fft_pop |-> spsc_fft_pop,
     state_machine_init |-> state_machine_init,
     state_machine_destroy |-> state_machine_destroy,
     state_machine_try_advance |-> state_machine_try_advance,
     latency_tracker_init |-> latency_tracker_init,
     latency_tracker_destroy |-> latency_tracker_destroy,
     latency_tracker_mark_start |-> latency_tracker_mark_start,
     latency_tracker_mark_end |-> latency_tracker_mark_end]

Entries == DOMAIN Functions

Roles == UNION {Args(Functions[e]) : e \in Entries}

IsCall(c) ==
    /\ c.entry \in Entries
    /\ c.ptr \in [Args(Functions[c.entry]) -> Address]
    /\ c.len \in [{LengthArg(r) : r \in Args(Functions[c.entry]) \cap Ranges} -> Address]

ASSUME CallAssumption ==
    /\ Size \in [Roles \ Ranges -> Nat \ {0}]
    /\ Align \in [Roles -> Nat \ {0}]
    /\ MaxExpand \in Nat
    /\ \A c \in Calls : IsCall(c)

\* What a host lets a function write is an object: it does not reach beyond the end of
\* the address space.
ASSUME ObjectAssumption ==
    \A c \in Calls : ~Refused(c, Functions[c.entry]) =>
        \A r \in Writes(Functions[c.entry]) \ Ranges : c.ptr[r] + Size[r] <= AddressSpace

VARIABLES
    call,     \* [entry, ptr, len]: the arguments
    written,  \* the bytes of host memory that the call has written
    held,     \* what the body has read, or a copy it holds
    todo,     \* the outputs, or the bytes of the output, still to be written
    pc, result

vars == <<call, written, held, todo, pc, result>>

F == Functions[call.entry]

-----------------------------------------------------------------------------
\* Memory.

Bytes(c, role) == (c.ptr[role] .. c.ptr[role] + Length(c, role) - 1) \cap Address

At(m, a) == IF a \in DOMAIN m THEN m[a] ELSE <<"host", a>>

Host == <<>>

\* The slice an argument denotes, in memory m.
Slice(m, role) ==
    [i \in 0 .. Length(call, role) - 1 |-> At(m, (call.ptr[role] + i) % AddressSpace)]

\* Memory m after the slice of an argument is given the bytes f.
Put(m, role, f) ==
    [a \in DOMAIN m \cup Bytes(call, role) |->
        IF a \in Bytes(call, role) THEN f[a - call.ptr[role]] ELSE m[a]]

Same(role, byte) == [i \in 0 .. Length(call, role) - 1 |-> byte]

Fill(m, role, byte) == Put(m, role, Same(role, byte))

Zero == <<"zero">>

\* The object a function changes in place, if it has one, given the bytes f.
Object == CHOOSE r \in F.object : TRUE

PutObject(m, f) == IF F.object = {} THEN m ELSE Put(m, Object, f)

Init ==
    /\ call \in Calls
    /\ written = Host
    /\ held = <<>>
    /\ todo = {}
    /\ pc = "check"
    /\ result = "none"

Goto(label) == pc' = label /\ UNCHANGED result

Return(outcome) == pc' = "done" /\ result' = outcome

-----------------------------------------------------------------------------
\* The wrapper.

IsSession ==
    call.entry \in {"session_manager_encrypt_packet", "session_manager_decrypt_packet"}

IsEncrypt == call.entry \in {"session_manager_encrypt_packet", "aead_encrypt"}

TakesBacking == "memory_base" \in F.nonnull

Body ==
    CASE IsSession -> "session"
      [] call.entry = "aead_encrypt" -> "copy"
      [] call.entry = "aead_decrypt" -> "verify"
      [] call.entry = "hkdf_expand_sha384" -> "expand"
      [] TakesBacking -> "new"
      [] OTHER -> "method"

Check ==
    /\ pc = "check"
    /\ \/ Refused(call, F) /\ pc' = "refused" /\ result' = "refused"
       \/ ~Refused(call, F) /\ Goto(Body)
    /\ UNCHANGED <<call, written, held, todo>>

-----------------------------------------------------------------------------
\* Functions that call one method and hand its results to the host.

Fresh == {"session_manager_init", "scheduler_init", "state_machine_init",
          "latency_tracker_init"}

Wiping == {"session_manager_destroy", "session_manager_zeroize", "ml_kem_decapskey_destroy",
           "ml_kem_sharedkey_destroy", "ml_dsa_signingkey_destroy", "x25519_secret_destroy",
           "x25519_sharedsecret_destroy"}

Infallible == Fresh \cup Wiping \cup
    {"x25519_keygen", "wire_to_bytes", "scheduler_destroy", "scheduler_tick",
     "scheduler_set_critical_task_mask", "tcb_get_rsp", "tcb_set_rsp", "dmapool2k_destroy",
     "spsc_telemetry_destroy", "ringbuffer_ew_destroy", "spsc_fft_destroy",
     "state_machine_destroy", "latency_tracker_destroy", "latency_tracker_mark_start",
     "latency_tracker_mark_end"}

\* A failed step of these ends the session.
EndsSession == {"session_manager_finalize_handshake",
                "session_manager_encapsulate_authenticated_v2",
                "session_manager_finalize_authenticated_v2", "session_manager_confirm_peer_v2"}

\* The byte i of what a function leaves in `role`; <<"made", ..>> is made of `held`, the
\* inputs it has read.
Content(role, i) ==
    CASE call.entry \in Fresh -> <<"new", i>>
      [] call.entry \in Wiping -> Zero
      [] OTHER -> <<"made", role, i>>

Made(role) == [i \in 0 .. Length(call, role) - 1 |-> Content(role, i)]

\* An item is read through the host's pointer when it is used.
ReadInPlace(m, n) ==
    [r \in Inputs(F) |-> Slice(IF r \in F.object THEN n ELSE m, r)]

\* The inputs read from memory m, the object and what is copied first from memory n.
Read(m, n) ==
    [r \in Inputs(F) |-> Slice(IF r \in F.object \cup Copied THEN n ELSE m, r)]

\* The references to the inputs are used while the object changes: some of it may be
\* overwritten before they are read.  On success the wrapper writes the outputs.
Method ==
    /\ pc = "method"
    /\ \E m \in {written, PutObject(written, Same(Object, <<"overwritten">>))} :
          /\ held' = Read(m, written)
          /\ written' = PutObject(m, Made(Object))
    /\ todo' = F.outs
    /\ IF F.outs = {} THEN Return("success") ELSE Goto("write")
    /\ UNCHANGED call

\* An error of the method: nothing is written, but a session may have ended.
MethodFails ==
    /\ pc = "method"
    /\ call.entry \notin Infallible
    /\ written' \in IF call.entry \in EndsSession
                    THEN {written, Fill(written, Object, Zero)} ELSE {written}
    /\ Return("failed")
    /\ UNCHANGED <<call, held, todo>>

\* The wrapper writes the outputs one by one, from values of its own.
Write ==
    /\ pc = "write"
    /\ \E role \in todo :
          /\ written' = Put(written, role, Made(role))
          /\ todo' = todo \ {role}
          /\ IF todo' = {} THEN Return("success") ELSE Goto("write")
    /\ UNCHANGED <<call, held>>

-----------------------------------------------------------------------------
\* Objects that are given a backing region.

\* ptr::write of a fresh object, before init has looked at the region.
WriteNew ==
    /\ pc = "new"
    /\ written' = Fill(written, Object, <<"new">>)
    /\ Goto("init")
    /\ UNCHANGED <<call, held, todo>>

\* The checks init makes itself.
InitAccepts ==
    /\ ~is_null(call.ptr["memory_base"])
    /\ Length(call, "memory_base") >= Required
    /\ call.ptr["memory_base"] % Page = 0 /\ ptr_is_aligned(call, "memory_base")

\* A queue gives every slot a counter; the pool leaves the memory alone.
CounterOf == {call.ptr["memory_base"] + n * SlotSize : n \in 0 .. Slots - 1}

Counters(m) ==
    [a \in DOMAIN m \cup CounterOf |-> IF a \in CounterOf THEN <<"counter">> ELSE m[a]]

InitRegion ==
    /\ pc = "init"
    /\ IF InitAccepts
       THEN /\ written' = Fill(IF "pool" \in F.object THEN written ELSE Counters(written),
                               Object, <<"ready">>)
            /\ Return("success")
       ELSE Return("failed") /\ UNCHANGED written
    /\ UNCHANGED <<call, held, todo>>

-----------------------------------------------------------------------------
\* HKDF-Expand fills the output block by block, and reads the info for each.

Okm(prk, info, i) == <<"okm", prk, info, i>>

Expand ==
    /\ pc = "expand"
    /\ held' = Slice(written, "prk")
    /\ todo' = 0 .. Length(call, "out") - 1
    /\ IF Length(call, "out") > MaxExpand
       THEN written' = Fill(written, "out", Zero) /\ Return("failed")
       ELSE UNCHANGED written /\ IF todo' = {} THEN Return("success") ELSE Goto("block")
    /\ UNCHANGED call

ExpandBlock ==
    /\ pc = "block"
    /\ LET i == CHOOSE i \in todo : \A j \in todo : i <= j
           a == call.ptr["out"] + i
       IN  /\ written' = [b \in DOMAIN written \cup {a} |->
                            IF b = a THEN Okm(held, Slice(written, "info"), i) ELSE written[b]]
           /\ todo' = todo \ {i}
    /\ IF todo' = {} THEN Return("success") ELSE Goto("block")
    /\ UNCHANGED <<call, held>>

-----------------------------------------------------------------------------
\* Packets.

\* The cipher adds a key stream to a byte, both ways; the tag is over everything.
Keystream(key, nonce, i, byte) == <<"keystream", key, nonce, i, byte>>

HmacTag(key, nonce, aad, text, i) == <<"tag", key, nonce, aad, text, i>>

\* A session uses copies of its keys, and numbers what it sends itself.  The first
\* byte of a manager stands for its keys and counters.
KeyOf(m, h, role) == IF IsSession THEN [i \in {0} |-> <<role, h>>] ELSE Slice(m, role)

PendingNonce(h) == [i \in 0 .. Size["nonce"] - 1 |-> <<"counter", h, i>>]

NonceOf(m, h) ==
    IF call.entry = "session_manager_encrypt_packet" THEN PendingNonce(h) ELSE Slice(m, "nonce")

Input == IF IsEncrypt THEN "plaintext" ELSE "ciphertext"

Output == IF IsEncrypt THEN "ciphertext" ELSE "plaintext"

\* The head of encrypt_packet and decrypt_packet: the refusals of a manager that
\* is not established, is out of counters or has seen the nonce, then the keys.
Session ==
    /\ pc = "session"
    /\ \/ Return("failed") /\ UNCHANGED held
       \/ /\ held' = At(written, call.ptr["manager"])
          /\ Goto(IF IsEncrypt THEN "copy" ELSE "verify")
    /\ UNCHANGED <<call, written, todo>>

\* The output is left as it is when the tag is wrong.
VerifyWithoutWipe ==
    /\ pc = "verify"
    /\ Return("wrong tag") \/ Goto("copy")
    /\ UNCHANGED <<call, written, held, todo>>

\* aead_decrypt up to the verdict on the tag.
Verify ==
    /\ pc = "verify"
    /\ \/ written' = Fill(written, "plaintext", Zero) /\ Return("wrong tag")
       \/ UNCHANGED written /\ Goto("copy")
    /\ UNCHANGED <<call, held, todo>>

\* copy_from_slice of the input into the output.
Copy ==
    /\ pc = "copy"
    /\ written' = Put(written, Output, Slice(written, Input))
    /\ Goto("keystream")
    /\ UNCHANGED <<call, held, todo>>

\* ChaCha20 in place; keys and nonce are read now, after the copy.  It cannot fail
\* for a length packet_len_valid accepts.
ApplyKeystream ==
    /\ pc = "keystream"
    /\ LET key == KeyOf(written, held, "enc_key")
           nonce == NonceOf(written, held)
           text == Slice(written, Output)
       IN  written' = Put(written, Output,
                          [i \in DOMAIN text |-> Keystream(key, nonce, i, text[i])])
    /\ \/ IsEncrypt /\ Goto("mac")
       \/ ~IsEncrypt /\ IsSession /\ Goto("commit")
       \/ ~IsEncrypt /\ ~IsSession /\ Return("success")
    /\ UNCHANGED <<call, held, todo>>

\* aead_encrypt: the tag, over the ciphertext just written.
ComputeMac ==
    /\ pc = "mac"
    /\ LET key == KeyOf(written, held, "mac_key")
           nonce == NonceOf(written, held)
       IN  written' = Put(written, "tag", [i \in 0 .. Size["tag"] - 1 |->
               HmacTag(key, nonce, Slice(written, "aad"), Slice(written, "ciphertext"), i)])
    /\ IF IsSession THEN Goto("commit") ELSE Return("success")
    /\ UNCHANGED <<call, held, todo>>

\* The manager after it counted, or recorded, a nonce.
Advanced(h, nonce) == <<"advanced", h, nonce>>

\* The tail of encrypt_packet, which hands out the nonce and counts it, and of
\* decrypt_packet, which reads the host's nonce once more to record it.
Commit ==
    /\ pc = "commit"
    /\ LET out == IF IsEncrypt THEN Put(written, "nonce", PendingNonce(held)) ELSE written
       IN  written' = Fill(out, "manager",
                           Advanced(At(out, call.ptr["manager"]), NonceOf(written, held)))
    /\ Return("success")
    /\ UNCHANGED <<call, held, todo>>

Next ==
    \/ Check
    \/ Method \/ MethodFails \/ Write
    \/ WriteNew \/ InitRegion
    \/ Expand \/ ExpandBlock
    \/ Session \/ Verify \/ Copy \/ ApplyKeystream \/ ComputeMac \/ Commit

Spec == Init /\ [][Next]_vars

-----------------------------------------------------------------------------
\* Properties.

\* The wrapper has let the call through.
Accepted == pc \notin {"check", "refused"}

\* No region that is written shares a byte with another argument, unless that one
\* has been copied before anything is written.
Disjoint(c, f) ==
    \A w \in Writes(f) : \A r \in Args(f) \ ({w} \cup Copied) :
        Bytes(c, w) \cap Bytes(c, r) = {}

\* Once a wrapper has let a call through, no region the body writes shares a byte with
\* another argument: the list of compared pairs of each function is complete.
AcceptedDisjoint == Accepted => Disjoint(call, F)

\* A call the documentation allows: regions that have bytes are not null, do not reach
\* the end of the address space, are aligned, have the length the function is for, and
\* are disjoint where one of them is written.
ValidCall(c, f) ==
    /\ \A r \in Args(f) :
           Length(c, r) > 0 => c.ptr[r] # 0 /\ c.ptr[r] + Length(c, r) < AddressSpace
    /\ \A r \in f.aligned : c.ptr[r] % Align[r] = 0
    /\ \A r \in f.slices : Length(c, r) <= MaxSlice
    /\ "plaintext" \in f.slices => Length(c, "plaintext") <= MaxPacket
    /\ "app_info" \in f.slices => Length(c, "app_info") <= MaxAppInfo
    /\ \A r \in {"out", "bytes"} \cap f.nonnull : Length(c, r) = WireLen
    /\ "memory_base" \in f.nonnull =>
           /\ Length(c, "memory_base") >= Slots * SlotSize
           /\ c.ptr["memory_base"] % Page = 0 /\ c.ptr["memory_base"] % Align["memory_base"] = 0
    /\ Disjoint(c, f)

\* No valid call is refused for its arguments, whatever address comes with an empty
\* range and wherever the argument of a push or of create_task lies.
ValidAccepted == pc = "refused" => ~ValidCall(call, F)

Succeeded == pc = "done" /\ result = "success"

\* A successful packet function has computed the text, when encrypting the tag over
\* the ciphertext and the nonce that was used, and has advanced the manager once.
PacketFromInputs ==
    LET before == IF IsSession THEN At(Host, call.ptr["manager"]) ELSE held
        nonce == NonceOf(Host, before)
        text == [i \in 0 .. Length(call, Input) - 1 |->
                    Keystream(KeyOf(Host, before, "enc_key"), nonce, i, Slice(Host, Input)[i])]
    IN  /\ Slice(written, Output) = text
        /\ IsEncrypt =>
             Slice(written, "tag") =
               [i \in 0 .. Size["tag"] - 1 |->
                  HmacTag(KeyOf(Host, before, "mac_key"), nonce, Slice(Host, "aad"), text, i)]
        /\ call.entry = "session_manager_encrypt_packet" => Slice(written, "nonce") = nonce
        /\ IsSession => Slice(written, "manager") = Same("manager", Advanced(before, nonce))

\* A successful call leaves in every region it writes what the function makes of the
\* host's memory as it was before the call, whatever the order in which the body reads
\* and writes.
OutputFromInputs ==
    Succeeded =>
        CASE "plaintext" \in F.slices -> PacketFromInputs
          [] "prk" \in F.nonnull ->
               Slice(written, "out") = [i \in 0 .. Length(call, "out") - 1 |->
                                          Okm(Slice(Host, "prk"), Slice(Host, "info"), i)]
          [] TakesBacking ->
               /\ Slice(written, Object) = Same(Object, <<"ready">>)
               /\ "pool" \notin F.object => \A a \in CounterOf : written[a] = <<"counter">>
          [] OTHER ->
               /\ held = Read(Host, Host)
               /\ \A r \in Writes(F) : Slice(written, r) = Made(r)

\* A call that does not succeed releases nothing.  A refused call has written nothing.
\* After a wrong tag the plaintext is zero; HKDF-Expand leaves zeros, and a handshake
\* that ends the session a wiped manager.  Nothing else changes, in particular an init
\* that is let through does not fail on a region its wrapper accepted.
FailureReleasesNothing ==
    LET wiped == CASE result = "wrong tag" -> Bytes(call, "plaintext")
                   [] call.entry = "hkdf_expand_sha384" -> Bytes(call, "out")
                   [] result = "failed" /\ call.entry \in EndsSession -> Bytes(call, "manager")
                   [] OTHER -> {}
    IN  pc \in {"refused", "done"} /\ ~Succeeded =>
          /\ \A a \in DOMAIN written : a \in wiped /\ written[a] = Zero
          /\ result = "wrong tag" => wiped \subseteq DOMAIN written
=============================================================================
