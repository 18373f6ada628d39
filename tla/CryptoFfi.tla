------------------------------ MODULE CryptoFfi ------------------------------
(***************************************************************************)
(* The functions of the C interface of shawncore-pq-crypto that take       *)
(* pointers.  `tag` is out_tag, out_mac or mac; the encodings of the five  *)
(* wire types are one macro.                                               *)
(***************************************************************************)
EXTENDS FfiChecks

\* A function of one object, which it writes, wipes or drops.
OfObject(role) == Function({role}, {}, {role}, {role}, {}, {})

session_manager_init == OfObject("manager")
session_manager_destroy == OfObject("manager")
session_manager_zeroize == OfObject("manager")
ml_kem_decapskey_destroy == OfObject("dk")
ml_kem_sharedkey_destroy == OfObject("shared")
ml_dsa_signingkey_destroy == OfObject("sk")
x25519_secret_destroy == OfObject("sk")
x25519_sharedsecret_destroy == OfObject("shared")

session_manager_initiate_handshake ==
    Function({"manager", "entropy", "out_ml_kem_pk", "out_x25519_pk"}, {},
             {"manager", "out_ml_kem_pk", "out_x25519_pk"},
             {"manager"}, {"out_ml_kem_pk", "out_x25519_pk"},
             With("manager", {"entropy", "out_ml_kem_pk", "out_x25519_pk"})
             \cup With("entropy", {"out_ml_kem_pk", "out_x25519_pk"})
             \cup With("out_ml_kem_pk", {"out_x25519_pk"}))

session_manager_finalize_handshake ==
    Function({"manager", "peer_x25519_pk", "ml_kem_ct"}, {"salt", "info"},
             {"manager", "peer_x25519_pk", "ml_kem_ct"},
             {"manager"}, {},
             With("manager", {"peer_x25519_pk", "ml_kem_ct", "salt", "info"}))

session_manager_encapsulate_for_peer ==
    Function({"manager", "peer_ml_kem_pk", "peer_x25519_pk", "entropy", "out_ct",
              "out_my_x25519_pk"}, {"salt", "info"},
             {"manager", "peer_ml_kem_pk", "peer_x25519_pk", "out_ct", "out_my_x25519_pk"},
             {"manager"}, {"out_ct", "out_my_x25519_pk"},
             With("out_ct", {"out_my_x25519_pk", "peer_ml_kem_pk", "peer_x25519_pk", "manager",
                             "entropy", "salt", "info"})
             \cup With("out_my_x25519_pk", {"peer_ml_kem_pk", "peer_x25519_pk", "manager",
                                            "entropy", "salt", "info"})
             \cup With("manager", {"peer_ml_kem_pk", "peer_x25519_pk", "entropy", "salt",
                                   "info"}))

session_manager_encapsulate_authenticated_v2 ==
    LET fixed == {"manager", "own_signing_key", "peer_verifying_key", "peer_ml_kem_pk",
                  "peer_x25519_pk", "entropy", "out_ct", "out_my_x25519_pk",
                  "out_signature", "out_confirmation"}
        slices == {"salt", "app_info"}
        outs == {"out_ct", "out_my_x25519_pk", "out_signature", "out_confirmation"}
    IN  Function(fixed, slices, fixed \ {"entropy", "out_confirmation"}, {"manager"}, outs,
                 writable_regions_overlap(fixed \cup slices, {"manager"} \cup outs))

session_manager_finalize_authenticated_v2 ==
    LET fixed == {"manager", "own_signing_key", "peer_verifying_key", "peer_x25519_pk",
                  "ml_kem_ct", "peer_signature", "peer_confirmation", "out_signature",
                  "out_confirmation"}
        slices == {"salt", "app_info"}
        outs == {"out_signature", "out_confirmation"}
    IN  Function(fixed, slices, fixed \ {"peer_confirmation", "out_confirmation"},
                 {"manager"}, outs,
                 writable_regions_overlap(fixed \cup slices, {"manager"} \cup outs))

session_manager_confirm_peer_v2 ==
    LET fixed == {"manager", "peer_verifying_key", "peer_signature", "peer_confirmation"}
    IN  Function(fixed, {}, fixed \ {"peer_confirmation"}, {"manager"}, {},
                 writable_regions_overlap(fixed, {"manager"}))

-----------------------------------------------------------------------------
\* Packets.

session_encrypt_buffers_overlap ==
    With("manager", {"aad", "plaintext", "ciphertext", "nonce", "tag"})
    \cup With("ciphertext", {"aad", "plaintext", "nonce", "tag"})
    \cup With("nonce", {"aad", "plaintext", "tag"})
    \cup With("tag", {"aad", "plaintext"})

\* The nonce, an input, is not compared with the output.
DecryptIgnoresNonce ==
    With("manager", {"aad", "ciphertext", "nonce", "tag", "plaintext"})
    \cup With("plaintext", {"aad", "ciphertext", "tag"})

session_decrypt_buffers_overlap ==
    With("manager", {"aad", "ciphertext", "nonce", "tag", "plaintext"})
    \cup With("plaintext", {"aad", "ciphertext", "nonce", "tag"})

aead_encrypt_buffers_overlap ==
    With("ciphertext", {"enc_key", "mac_key", "nonce", "aad", "plaintext"})
    \cup With("tag", {"enc_key", "mac_key", "nonce", "aad", "plaintext", "ciphertext"})

aead_decrypt_buffers_overlap ==
    With("plaintext", {"enc_key", "mac_key", "nonce", "aad", "ciphertext", "tag"})

session_manager_encrypt_packet ==
    Function({"manager", "nonce", "tag"}, {"aad", "plaintext", "ciphertext"}, {"manager"},
             {"manager"}, {"ciphertext", "nonce", "tag"}, session_encrypt_buffers_overlap)

session_manager_decrypt_packet ==
    Function({"manager", "nonce", "tag"}, {"aad", "plaintext", "ciphertext"}, {"manager"},
             {"manager"}, {"plaintext"}, session_decrypt_buffers_overlap)

aead_encrypt ==
    Function({"enc_key", "mac_key", "nonce", "tag"}, {"aad", "plaintext", "ciphertext"}, {},
             {}, {"ciphertext", "tag"}, aead_encrypt_buffers_overlap)

aead_decrypt ==
    Function({"enc_key", "mac_key", "nonce", "tag"}, {"aad", "plaintext", "ciphertext"}, {},
             {}, {"plaintext"}, aead_decrypt_buffers_overlap)

-----------------------------------------------------------------------------
\* Keys, signatures, key derivation and encodings.

ml_kem_keygen ==
    Function({"entropy", "out_pk", "out_dk"}, {}, {"out_pk", "out_dk"}, {}, {"out_pk", "out_dk"},
             With("out_pk", {"out_dk"}) \cup With("entropy", {"out_pk", "out_dk"}))

ml_kem_encapsulate ==
    Function({"pk", "entropy", "out_shared", "out_ct"}, {}, {"pk", "out_shared", "out_ct"}, {},
             {"out_shared", "out_ct"},
             With("out_shared", {"out_ct", "pk", "entropy"})
             \cup With("out_ct", {"pk", "entropy"}))

ml_kem_decapsulate ==
    Function({"dk", "ct", "out_shared"}, {}, {"dk", "ct", "out_shared"}, {}, {"out_shared"},
             With("out_shared", {"dk", "ct"}))

ml_dsa_keygen ==
    Function({"seed", "out_pk", "out_sk"}, {}, {"out_pk", "out_sk"}, {}, {"out_pk", "out_sk"},
             With("out_pk", {"out_sk"}) \cup With("seed", {"out_pk", "out_sk"}))

ml_dsa_sign ==
    Function({"sk", "out_sig"}, {"msg"}, {"sk", "out_sig"}, {}, {"out_sig"},
             With("out_sig", {"sk", "msg"}))

ml_dsa_verify ==
    Function({"pk", "sig"}, {"msg"}, {"pk", "sig"}, {}, {}, {})

x25519_keygen ==
    Function({"entropy", "out_pk", "out_sk"}, {}, {"out_pk", "out_sk"}, {}, {"out_pk", "out_sk"},
             With("out_pk", {"out_sk"}) \cup With("entropy", {"out_pk", "out_sk"}))

x25519_diffie_hellman ==
    Function({"sk", "peer_pk", "out_shared"}, {}, {"sk", "peer_pk", "out_shared"}, {},
             {"out_shared"}, With("out_shared", {"sk", "peer_pk"}))

wire_to_bytes ==
    Function({"value", "out"}, {}, {"value"}, {}, {"out"}, With("value", {"out"}))

wire_from_bytes ==
    Function({"bytes", "out_value"}, {}, {"out_value"}, {}, {"out_value"},
             With("bytes", {"out_value"}))

hmac_sha384 ==
    Function({"key", "out_mac"}, {"data"}, {}, {}, {"out_mac"}, With("out_mac", {"key", "data"}))

hkdf_expand_sha384 ==
    Function({"prk"}, {"info", "out"}, {}, {}, {"out"}, With("out", {"prk", "info"}))

entropy_push == Function({"chunk"}, {}, {}, {}, {}, {})
=============================================================================
