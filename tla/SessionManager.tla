--------------------------- MODULE SessionManager ---------------------------
(***************************************************************************)
(* The hybrid post-quantum session of shawncore-pq-crypto: several         *)
(* endpoints, each owning one SessionManager, exchange handshake messages  *)
(* and packets over a link that may lose, repeat, delay and reorder them.  *)
(*                                                                         *)
(* Cryptography is symbolic.  A draw of entropy is a fresh number, which   *)
(* stands for the ML-KEM and the X25519 key made from it (ml_kem_dk and    *)
(* x25519_sk are set and cleared together: field handshake_key).  A        *)
(* derived secret is the record of the inputs of the key derivation, so    *)
(* two sides hold the same secret exactly when all the inputs agree; a     *)
(* ciphertext meant for another key decapsulates to an unrelated secret    *)
(* (ML-KEM's implicit rejection).  A signature or tag verifies exactly     *)
(* when it was made by the named party over the same digest.  Calls that   *)
(* return an error and change nothing are stuttering steps and have no     *)
(* action.                                                                 *)
(***************************************************************************)
EXTENDS Integers, FiniteSets

CONSTANTS
    Endpoints,   \* parties; each has one manager and one long-term identity
    Salts,       \* HKDF salts the hosts may configure
    Window,      \* width of the replay window (64)
    MaxCounter,  \* u64::MAX
    HostCommits, \* sequence numbers hosts record with commit_rx_nonce themselves
    MaxDraws,    \* bound: draws of handshake entropy
    MaxNonces,   \* bound: transmit nonces assigned
    None         \* Option::None

ASSUME SessionAssumption ==
    /\ Window \in Nat \ {0} /\ MaxCounter \in Nat
    /\ MaxDraws \in Nat /\ MaxNonces \in Nat
    /\ HostCommits \subseteq 0 .. MaxCounter
    /\ None \notin Endpoints /\ None \notin Nat

VARIABLES
    session,   \* [Endpoints -> SessionManager]
    draws,     \* how many times handshake entropy has been drawn
    messages,  \* every handshake message ever sent
    packets,   \* every packet ever sent
    assigned,  \* ghost: every transmit nonce handed out, numbered
    accepted,  \* ghost: the packets each endpoint has decrypted, or recorded itself
    runs,      \* ghost: the authenticated handshake steps that succeeded
    decapsulated \* ghost: the handshake keys used on a ciphertext

vars == <<session, draws, messages, packets, assigned, accepted, runs, decapsulated>>

-----------------------------------------------------------------------------
\* Symbolic cryptography.

\* What goes into the derivation besides the secrets: nothing known to both
\* sides (version 1), or the binding of the two identities (version 2).
Anonymous == [keygen |-> None, encapsulator |-> None]

handshake_binding(g, e) == [keygen |-> g, encapsulator |-> e]

\* dk names the key pair and `from` the encapsulation to it: together they stand
\* for the two shared secrets and for the public keys and ciphertexts that
\* handshake_transcript hashes with them.
derive_hybrid_key(dk, from, salt, info) ==
    [dk |-> dk, from |-> from, salt |-> salt, info |-> info]

\* Both directions use one half.
SharedHalf(secret, side) == [secret |-> secret, side |-> "keygen"]

\* One half of the 128-byte output: the key of the packets `side` sends.
Half(secret, side) == [secret |-> secret, side |-> side]

transcript_hash(binding, dk, ct) == <<binding, dk, ct>>

confirmation_tag(secret, side, digest) == <<secret, side, digest>>

Digest(side, digest, tag) == <<side, digest, tag>>

Signature(signer, digest) == <<signer, digest>>

\* What tx_key, rx_key and pending_auth hold when they are not None.
Secrets ==
    [dk : Nat, from : Nat, salt : Salts,
     info : [keygen : Endpoints \cup {None}, encapsulator : Endpoints \cup {None}]]

Keys == [secret : Secrets, side : {"keygen", "encap"}]

Transcripts ==
    [keygen : Endpoints, encapsulator : Endpoints] \X Nat \X [to : Nat, from : Nat]

PendingAuths ==
    [digest : {"encap"} \X Transcripts \X (Secrets \X {"encap"} \X Transcripts),
     peer_identity : Endpoints, confirmation_key : Secrets]

ASSUME OptionAssumption == None \notin Keys /\ None \notin PendingAuths

-----------------------------------------------------------------------------
\* The replay window: rx_counter is the highest accepted sequence number, and
\* rx_window holds the offsets below it whose bit is set.

\* An off-by-one of the window test, one bit too far.
check_rx_nonce_wide(s, sequence) ==
    \/ sequence > s.rx_counter
    \/ LET offset == s.rx_counter - sequence
       IN  offset <= Window /\ offset \notin s.rx_window

check_rx_nonce(s, sequence) ==
    \/ sequence > s.rx_counter
    \/ LET offset == s.rx_counter - sequence
       IN  offset < Window /\ offset \notin s.rx_window

commit_rx_nonce(s, sequence) ==
    IF sequence > s.rx_counter
    THEN LET shift == sequence - s.rx_counter
         IN  [s EXCEPT !.rx_counter = sequence,
                       !.rx_window = {o \in 0 .. Window - 1 :
                                         o = 0 \/ o - shift \in s.rx_window}]
    ELSE [s EXCEPT !.rx_window =
                       @ \cup ({s.rx_counter - sequence} \cap (0 .. Window - 1))]

-----------------------------------------------------------------------------
key_checksum(key) == <<"checksum", key>>

\* The state of a manager after `new` and after `zeroize_session`.
Zeroized ==
    [handshake_key |-> None, tx_key |-> None, rx_key |-> None,
     tx_key_checksum |-> 0, rx_key_checksum |-> 0,
     is_established |-> FALSE, tx_counter |-> 0,
     rx_counter |-> 0, rx_window |-> {}, pending_auth |-> None]

\* The tail of every successful key derivation: wipe, then install the keys.
Established(secret, side, other) ==
    [Zeroized EXCEPT !.tx_key = Half(secret, side),
                     !.rx_key = Half(secret, other),
                     !.tx_key_checksum = key_checksum(Half(secret, side)),
                     !.rx_key_checksum = key_checksum(Half(secret, other)),
                     !.is_established = TRUE]

verify_key_integrity(s) ==
    /\ s.is_established
    /\ s.tx_key # None /\ s.rx_key # None
    /\ key_checksum(s.tx_key) = s.tx_key_checksum
    /\ key_checksum(s.rx_key) = s.rx_key_checksum

Init ==
    /\ session = [e \in Endpoints |-> Zeroized]
    /\ draws = 0
    /\ messages = {}
    /\ packets = {}
    /\ assigned = {}
    /\ accepted = [e \in Endpoints |-> {}]
    /\ runs = {}
    /\ decapsulated = {}

initiate_handshake(e) ==
    /\ draws < MaxDraws
    /\ draws' = draws + 1
    /\ session' = [session EXCEPT ![e] = [Zeroized EXCEPT !.handshake_key = draws']]
    /\ messages' = messages \cup {[type |-> "keygen", pk |-> draws']}
    /\ UNCHANGED <<packets, assigned, accepted, runs, decapsulated>>

encapsulate_for_peer(e, m, salt) ==
    /\ draws < MaxDraws
    /\ m.type = "keygen"
    /\ draws' = draws + 1
    /\ session' = [session EXCEPT ![e] =
           Established(derive_hybrid_key(m.pk, draws', salt, Anonymous), "encap", "keygen")]
    /\ messages' = messages \cup
           {[type |-> "encap", ct |-> [to |-> m.pk, from |-> draws'],
             signature |-> Signature(None, None), confirmation |-> None]}
    /\ UNCHANGED <<packets, assigned, accepted, runs, decapsulated>>

\* The ephemeral keys survive the handshake they were made for.
FinalizeKeepsEphemeral(e, m, salt, contributory) ==
    LET dk == session[e].handshake_key
    IN  /\ dk # None
        /\ m.type = "encap"
        /\ session' = [session EXCEPT ![e] =
               IF contributory
               THEN [Established(derive_hybrid_key(dk, m.ct.from, salt, Anonymous),
                                 "keygen", "encap") EXCEPT !.handshake_key = dk]
               ELSE Zeroized]
        /\ decapsulated' = decapsulated \cup {dk}
        /\ UNCHANGED <<draws, messages, packets, assigned, accepted, runs>>

\* Any ciphertext is accepted: one meant for other keys gives a secret nobody
\* else holds.  A key exchange that does not contribute wipes the handshake.
finalize_handshake(e, m, salt, contributory) ==
    LET dk == session[e].handshake_key
    IN  /\ dk # None
        /\ m.type = "encap"
        /\ session' = [session EXCEPT ![e] =
               IF contributory
               THEN Established(derive_hybrid_key(dk, m.ct.from, salt, Anonymous),
                                "keygen", "encap")
               ELSE Zeroized]
        /\ decapsulated' = decapsulated \cup {dk}
        /\ UNCHANGED <<draws, messages, packets, assigned, accepted, runs>>

-----------------------------------------------------------------------------
\* The authenticated handshake, version 2.

\* The keys are installed first; when the signature then cannot be made they
\* are wiped again.
encapsulate_authenticated(e, peer, m, salt, signs) ==
    /\ draws < MaxDraws
    /\ m.type = "keygen"
    /\ draws' = draws + 1
    /\ LET binding == handshake_binding(peer, e)
           secret == derive_hybrid_key(m.pk, draws', salt, binding)
           ct == [to |-> m.pk, from |-> draws']
           transcript == transcript_hash(binding, m.pk, ct)
           tag == confirmation_tag(secret, "encap", transcript)
           digest == Digest("encap", transcript, tag)
       IN  IF signs
           THEN /\ session' = [session EXCEPT ![e] =
                      [Established(secret, "encap", "keygen") EXCEPT !.pending_auth =
                          [digest |-> digest, peer_identity |-> peer,
                           confirmation_key |-> secret]]]
                /\ messages' = messages \cup
                      {[type |-> "encap", ct |-> ct, signature |-> Signature(e, digest),
                        confirmation |-> tag]}
                /\ runs' = runs \cup {[step |-> "encapsulated", by |-> e, peer |-> peer,
                                       secret |-> secret]}
           ELSE /\ session' = [session EXCEPT ![e] = Zeroized]
                /\ UNCHANGED <<messages, runs>>
    /\ UNCHANGED <<packets, assigned, accepted, decapsulated>>

\* The peer's confirmation tag is not compared with the expected one.
FinalizeUnconfirmed(e, peer, m, salt, completes) ==
    LET dk == session[e].handshake_key
        binding == handshake_binding(e, peer)
        transcript == transcript_hash(binding, dk, m.ct)
        peer_digest == Digest("encap", transcript, m.confirmation)
        secret == derive_hybrid_key(dk, m.ct.from, salt, binding)
        tag == confirmation_tag(secret, "keygen", peer_digest)
    IN  /\ dk # None
        /\ m.type = "encap"
        /\ m.signature = Signature(peer, peer_digest)
        /\ session' = [session EXCEPT ![e] = Established(secret, "keygen", "encap")]
        /\ messages' = messages \cup
              {[type |-> "proof", confirmation |-> tag,
                signature |-> Signature(e, Digest("keygen", peer_digest, tag))]}
        /\ runs' = runs \cup {[step |-> "finalized", by |-> e, peer |-> peer,
                               secret |-> secret]}
        /\ decapsulated' = decapsulated \cup {dk}
        /\ UNCHANGED <<draws, packets, assigned, accepted>>

\* A failure after the signature has verified leaves the handshake pending.
FinalizeStaysPending(e, peer, m, salt, completes) ==
    LET dk == session[e].handshake_key
        binding == handshake_binding(e, peer)
        transcript == transcript_hash(binding, dk, m.ct)
        peer_digest == Digest("encap", transcript, m.confirmation)
        secret == derive_hybrid_key(dk, m.ct.from, salt, binding)
        tag == confirmation_tag(secret, "keygen", peer_digest)
    IN  /\ dk # None
        /\ m.type = "encap"
        /\ m.signature = Signature(peer, peer_digest)
        /\ IF completes /\ m.confirmation = confirmation_tag(secret, "encap", transcript)
           THEN /\ session' = [session EXCEPT ![e] = Established(secret, "keygen", "encap")]
                /\ messages' = messages \cup
                      {[type |-> "proof", confirmation |-> tag,
                        signature |-> Signature(e, Digest("keygen", peer_digest, tag))]}
                /\ runs' = runs \cup {[step |-> "finalized", by |-> e, peer |-> peer,
                                       secret |-> secret]}
           ELSE UNCHANGED <<session, messages, runs>>
        /\ decapsulated' = decapsulated \cup {dk}
        /\ UNCHANGED <<draws, packets, assigned, accepted>>

\* A signature that does not verify changes nothing.  Once it verifies, every
\* later failure consumes the pending handshake: a tag that does not match,
\* or (completes = FALSE) a decapsulation, key exchange or signature that fails.
finalize_authenticated(e, peer, m, salt, completes) ==
    LET dk == session[e].handshake_key
        binding == handshake_binding(e, peer)
        transcript == transcript_hash(binding, dk, m.ct)
        peer_digest == Digest("encap", transcript, m.confirmation)
        secret == derive_hybrid_key(dk, m.ct.from, salt, binding)
        tag == confirmation_tag(secret, "keygen", peer_digest)
    IN  /\ dk # None
        /\ m.type = "encap"
        /\ m.signature = Signature(peer, peer_digest)
        /\ IF completes /\ m.confirmation = confirmation_tag(secret, "encap", transcript)
           THEN /\ session' = [session EXCEPT ![e] = Established(secret, "keygen", "encap")]
                /\ messages' = messages \cup
                      {[type |-> "proof", confirmation |-> tag,
                        signature |-> Signature(e, Digest("keygen", peer_digest, tag))]}
                /\ runs' = runs \cup {[step |-> "finalized", by |-> e, peer |-> peer,
                                       secret |-> secret]}
           ELSE /\ session' = [session EXCEPT ![e] = Zeroized]
                /\ UNCHANGED <<messages, runs>>
        /\ decapsulated' = decapsulated \cup {dk}
        /\ UNCHANGED <<draws, packets, assigned, accepted>>

confirm_peer(e, peer, m) ==
    LET pending == session[e].pending_auth
    IN  /\ pending # None
        /\ m.type = "proof"
        /\ peer = pending.peer_identity
        /\ m.signature = Signature(peer, Digest("keygen", pending.digest, m.confirmation))
        /\ IF m.confirmation =
                  confirmation_tag(pending.confirmation_key, "keygen", pending.digest)
           THEN /\ session' = [session EXCEPT ![e].pending_auth = None]
                /\ runs' = runs \cup {[step |-> "confirmed", by |-> e, peer |-> peer,
                                       secret |-> pending.confirmation_key]}
           ELSE /\ session' = [session EXCEPT ![e] = Zeroized]
                /\ UNCHANGED runs
        /\ UNCHANGED <<draws, messages, packets, assigned, accepted, decapsulated>>

-----------------------------------------------------------------------------
\* Traffic.

\* The nonce a manager hands out next, numbered by the order of assignment.
NextNonce(e) ==
    [key |-> session[e].tx_key, sequence |-> session[e].tx_counter,
     number |-> Cardinality(assigned), from |-> e]

\* Checks only that the counter is not exhausted: a manager without keys
\* advances its counter too.
get_next_tx_nonce(e) ==
    /\ Cardinality(assigned) < MaxNonces
    /\ session[e].tx_counter < MaxCounter
    /\ assigned' = assigned \cup {NextNonce(e)}
    /\ session' = [session EXCEPT ![e].tx_counter = @ + 1]
    /\ UNCHANGED <<draws, messages, packets, accepted, runs, decapsulated>>

\* Traffic is not held back while the peer is unconfirmed.
EncryptUnconfirmed(e) ==
    /\ Cardinality(assigned) < MaxNonces
    /\ session[e].is_established
    /\ session[e].tx_counter < MaxCounter
    /\ assigned' = assigned \cup {NextNonce(e)}
    /\ packets' = packets \cup {NextNonce(e)}
    /\ session' = [session EXCEPT ![e].tx_counter = @ + 1]
    /\ UNCHANGED <<draws, messages, accepted, runs, decapsulated>>

encrypt_packet(e) ==
    /\ Cardinality(assigned) < MaxNonces
    /\ session[e].is_established
    /\ session[e].pending_auth = None
    /\ session[e].tx_counter < MaxCounter
    /\ session[e].tx_key # None
    /\ assigned' = assigned \cup {NextNonce(e)}
    /\ packets' = packets \cup {NextNonce(e)}
    /\ session' = [session EXCEPT ![e].tx_counter = @ + 1]
    /\ UNCHANGED <<draws, messages, accepted, runs, decapsulated>>

\* The window is checked, the packet authenticated under rx_key, and only
\* then is the sequence number recorded.
decrypt_packet(e, p) ==
    /\ session[e].is_established
    /\ session[e].pending_auth = None
    /\ check_rx_nonce(session[e], p.sequence)
    /\ session[e].rx_key # None
    /\ p.key = session[e].rx_key
    /\ session' = [session EXCEPT ![e] = commit_rx_nonce(@, p.sequence)]
    /\ accepted' = [accepted EXCEPT ![e] = @ \cup {p}]
    /\ UNCHANGED <<draws, messages, packets, assigned, runs, decapsulated>>

\* commit_rx_nonce is public: a host may record any number at any time.
HostCommit(e, sequence) ==
    /\ session' = [session EXCEPT ![e] = commit_rx_nonce(@, sequence)]
    /\ accepted' = [accepted EXCEPT ![e] = @ \cup
           {[key |-> k, sequence |-> sequence, number |-> None, from |-> None] :
               k \in {session[e].rx_key} \ {None}}]
    /\ UNCHANGED <<draws, messages, packets, assigned, runs, decapsulated>>

\* Also what `drop` and the FFI `destroy` do.
zeroize_session(e) ==
    /\ session' = [session EXCEPT ![e] = Zeroized]
    /\ UNCHANGED <<draws, messages, packets, assigned, accepted, runs, decapsulated>>

Next ==
    \E e \in Endpoints :
        \/ initiate_handshake(e)
        \/ \E m \in messages, salt \in Salts : encapsulate_for_peer(e, m, salt)
        \/ \E m \in messages, salt \in Salts, contributory \in BOOLEAN :
               finalize_handshake(e, m, salt, contributory)
        \/ \E m \in messages, salt \in Salts, peer \in Endpoints, signs \in BOOLEAN :
               encapsulate_authenticated(e, peer, m, salt, signs)
        \/ \E m \in messages, salt \in Salts, peer \in Endpoints, completes \in BOOLEAN :
               finalize_authenticated(e, peer, m, salt, completes)
        \/ \E m \in messages, peer \in Endpoints : confirm_peer(e, peer, m)
        \/ get_next_tx_nonce(e)
        \/ encrypt_packet(e)
        \/ \E p \in packets : decrypt_packet(e, p)
        \/ \E sequence \in HostCommits : HostCommit(e, sequence)
        \/ zeroize_session(e)

Spec == Init /\ [][Next]_vars
-----------------------------------------------------------------------------
\* Properties.

\* What a manager holds: nothing, or the ephemeral keys of a handshake, or the two
\* directions of one secret with the checksums that verify_key_integrity looks for.
HoldsOneSecret(s) ==
    /\ s.is_established =>
           /\ s.handshake_key = None
           /\ verify_key_integrity(s)
           /\ s.tx_key.secret = s.rx_key.secret
           /\ s.tx_key.side # s.rx_key.side
    /\ ~ s.is_established =>
           s.tx_key = None /\ s.rx_key = None /\ s.pending_auth = None

\* A manager holds the ephemeral keys of a handshake, or a session, never both, and
\* awaits a proof only with a session.  The ephemeral keys serve for one
\* decapsulation: whether the handshake then succeeds or fails at a later step, no
\* manager holds them any more, so a second message cannot be tried against them
\* (zeroize_session on every path; "one decapsulation attempt per handshake" in the
\* comment of finalize_authenticated).
OneSecretAtATime ==
    \A e \in Endpoints :
        /\ HoldsOneSecret(session[e])
        /\ session[e].handshake_key \notin decapsulated

\* No transmit nonce is ever handed out twice under one key, over any sequence
\* of handshakes, repeated messages and wipes, although the counter restarts at
\* zero with each session (get_next_tx_nonce, encrypt_packet).
NonceUnique ==
    \A n1, n2 \in assigned :
        n1.key = n2.key /\ n1.sequence = n2.sequence /\ n1.key # None => n1 = n2

\* The sequence numbers a manager has accepted under its receive key.
Received(e) == {p.sequence : p \in {q \in accepted[e] : q.key = session[e].rx_key}}

\* The window is exact: a sequence number passes check_rx_nonce if and only if
\* it was not accepted before under this key and is less than 64 below the
\* highest accepted one, whatever was lost, repeated or reordered.
WindowExact ==
    \A e \in Endpoints :
        session[e].is_established =>
            \A sequence \in 0 .. MaxCounter :
                check_rx_nonce(session[e], sequence) <=>
                    /\ sequence \notin Received(e)
                    /\ \A t \in Received(e) : t - sequence < Window

\* No endpoint ever accepts a packet of its own: the two directions of a
\* session use different halves of the derived key (finalize_handshake,
\* encapsulate_inner).
NoReflection ==
    \A e \in Endpoints : \A p \in accepted[e] : p.from # e

\* Version 2 agreement: a key-generating side finalizes only a secret that the
\* peer it names encapsulated for it, and an encapsulating side confirms only a
\* secret that the peer it names finalized with it (finalize_authenticated,
\* confirm_peer).
Agreement ==
    \A r \in runs :
        /\ r.step = "finalized" =>
               [step |-> "encapsulated", by |-> r.peer, peer |-> r.by,
                secret |-> r.secret] \in runs
        /\ r.step = "confirmed" =>
               [step |-> "finalized", by |-> r.peer, peer |-> r.by,
                secret |-> r.secret] \in runs

\* No packet is encrypted under an authenticated secret before the
\* key-generating side has proved possession of it: the encapsulating side is
\* silent until confirm_peer succeeds (encrypt_packet refuses while
\* pending_auth is set).
SilentUntilProved ==
    \A p \in packets :
        p.key.secret.info # Anonymous =>
            \E r \in runs :
                /\ r.step = "finalized" /\ r.secret = p.key.secret
                /\ p.from \in {r.by, r.peer}
=============================================================================
