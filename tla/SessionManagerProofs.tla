------------------------ MODULE SessionManagerProofs ------------------------
(***************************************************************************)
(* The hybrid session for any number of endpoints, handshakes and packets. *)
(***************************************************************************)
EXTENDS SessionManager, TLAPS

\* A key belongs to the sender's draw of entropy: the key pair for packets of the
\* key-generating side, the encapsulation for packets of the other.
Origin(key) == IF key.side = "keygen" THEN key.secret.dk ELSE key.secret.from

\* And to the draw of the one who receives under it.
Target(key) == IF key.side = "keygen" THEN key.secret.from ELSE key.secret.dk

Drawn(key) ==
    /\ key \in Keys
    /\ key.secret.dk \in 1 .. draws /\ key.secret.from \in 1 .. draws

\* The shape of the state, and that nothing refers to a draw not made yet.
TypeInv ==
    /\ draws \in Nat
    /\ DOMAIN session = Endpoints /\ DOMAIN accepted = Endpoints
    /\ \A e \in Endpoints :
           /\ DOMAIN session[e] = DOMAIN Zeroized
           /\ session[e].handshake_key # None => session[e].handshake_key \in 1 .. draws
           /\ session[e].tx_counter \in Nat /\ session[e].rx_counter \in Nat
           /\ session[e].is_established => Drawn(session[e].tx_key) /\ Drawn(session[e].rx_key)
    /\ \A m \in messages :
           /\ m.type = "keygen" => m.pk \in 1 .. draws
           /\ m.type = "encap" => m.ct.from \in 1 .. draws

\* The key pairs in use and the draws the transmit keys belong to are all different:
\* an endpoint gives up a key pair when it starts another handshake or finishes this one.
Distinct ==
    \A e, f \in Endpoints :
        /\ e # f /\ session[e].handshake_key # None =>
               session[e].handshake_key # session[f].handshake_key
        /\ session[e].handshake_key # None /\ session[f].is_established =>
               session[e].handshake_key # Origin(session[f].tx_key)
        /\ e # f /\ session[e].is_established /\ session[f].is_established =>
               Origin(session[e].tx_key) # Origin(session[f].tx_key)

\* Every nonce was assigned under a key whose draw nobody can derive a key from again,
\* except the manager that still counts under it.
Spent(n) ==
    /\ Drawn(n.key) /\ n.sequence \in Nat
    /\ \A e \in Endpoints :
           /\ session[e].handshake_key # Origin(n.key)
           /\ session[e].is_established /\ Origin(session[e].tx_key) = Origin(n.key) =>
                  /\ n.key = session[e].tx_key
                  /\ n.sequence < session[e].tx_counter

\* No packet of the endpoint can be taken for one of its peer's, now or once
\* the handshake it has started is finished.
OneWay(n) ==
    \A e \in {n.from} \cap Endpoints :
        /\ n.key # session[e].rx_key
        /\ n.key.side = "encap" => n.key.secret.dk # session[e].handshake_key

\* Every manager holds one secret.
OneSecret == \A e \in Endpoints : HoldsOneSecret(session[e])

\* Nobody holds a key pair that has been used on a ciphertext.
UsedOnce ==
    /\ decapsulated \subseteq 1 .. draws
    /\ \A e \in Endpoints : session[e].handshake_key \notin decapsulated

NonceInv ==
    /\ TypeInv
    /\ OneSecret
    /\ Distinct
    /\ packets \subseteq {n \in assigned : n.key # None}
    /\ \A n \in assigned : n.key # None => Spent(n) /\ OneWay(n)
    /\ NonceUnique

\* Nothing was accepted yet under a key that is about to be installed.
AcceptInv ==
    \A e \in Endpoints : \A p \in accepted[e] :
        /\ p.from # e
        /\ Drawn(p.key) /\ p.sequence \in Nat
        /\ session[e].handshake_key # Target(p.key)

\* The window is a picture of the accepted numbers.
Pictures(r, w, R) ==
    \/ R = {} /\ r = 0 /\ w = {}
    \/ r \in R /\ (\A t \in R : t <= r) /\ w = {o \in 0 .. Window - 1 : r - o \in R}

WindowInv ==
    \A e \in Endpoints : session[e].is_established =>
        Pictures(session[e].rx_counter, session[e].rx_window, Received(e))

-----------------------------------------------------------------------------
\* Authentication.

\* The digest an encapsulating side signs, as a function of the secret.
EncapDigest(secret) ==
    LET transcript == transcript_hash(secret.info, secret.dk,
                                      [to |-> secret.dk, from |-> secret.from])
    IN  Digest("encap", transcript, confirmation_tag(secret, "encap", transcript))

\* And the one a key-generating side answers with.
KeygenDigest(secret) ==
    Digest("keygen", EncapDigest(secret),
           confirmation_tag(secret, "keygen", EncapDigest(secret)))

\* Every signature was made in a run of its signer, on the identities of that run.
Signed(m, step) ==
    \E r \in runs :
        /\ r.step = step
        /\ step = "encapsulated" =>
               /\ m.signature = Signature(r.by, EncapDigest(r.secret))
               /\ r.secret.info = handshake_binding(r.peer, r.by)
        /\ step = "finalized" =>
               /\ m.signature = Signature(r.by, KeygenDigest(r.secret))
               /\ r.secret.info = handshake_binding(r.by, r.peer)

\* A finished run of e stands behind the secret.
Proved(e, secret) ==
    \E r \in runs : r.step = "finalized" /\ r.secret = secret /\ e \in {r.by, r.peer}

MessageOK(m) ==
    /\ m.type = "encap" /\ m.signature # Signature(None, None) => Signed(m, "encapsulated")
    /\ m.type = "proof" => Signed(m, "finalized")

\* A proof is awaited for the secret in use, from the peer it names.
PendingOK(e) ==
    LET s == session[e]
    IN  s.pending_auth # None =>
            /\ s.is_established
            /\ s.pending_auth.digest = EncapDigest(s.tx_key.secret)
            /\ s.pending_auth.confirmation_key = s.tx_key.secret
            /\ s.tx_key.secret.info = handshake_binding(s.pending_auth.peer_identity, e)

\* Once none is awaited, an authenticated secret has been proved.
ProvedOK(e) ==
    LET s == session[e]
    IN  s.is_established /\ s.pending_auth = None /\ s.tx_key.secret.info # Anonymous =>
            Proved(e, s.tx_key.secret)

RunsOK ==
    \A r \in runs :
        r = [step |-> r.step, by |-> r.by, peer |-> r.peer, secret |-> r.secret]

AuthInv ==
    /\ RunsOK
    /\ \A m \in messages : MessageOK(m)
    /\ \A e \in Endpoints : PendingOK(e) /\ ProvedOK(e)
    /\ Agreement
    /\ SilentUntilProved

-----------------------------------------------------------------------------
\* The kinds of step.  A step is of one endpoint; it makes at most one draw, and a
\* message it posts names that draw.
Alone(e) ==
    /\ DOMAIN session' = Endpoints /\ DOMAIN session'[e] = DOMAIN Zeroized
    /\ \A f \in Endpoints \ {e} : session'[f] = session[f]
    /\ draws' \in {draws, draws + 1}
    /\ \A m \in messages' :
           \/ m \in messages
           \/ draws' = draws + 1 /\ m.type = "keygen" /\ m.pk = draws'
           \/ draws' = draws + 1 /\ m.type = "encap" /\ m.ct.from = draws'
           \/ m.type = "proof"

Silent == UNCHANGED <<assigned, packets>>

\* What the invariant sees of a manager.
SameKeys(e) ==
    /\ session'[e].handshake_key = session[e].handshake_key
    /\ session'[e].tx_key = session[e].tx_key
    /\ session'[e].rx_key = session[e].rx_key
    /\ session'[e].tx_key_checksum = session[e].tx_key_checksum
    /\ session'[e].rx_key_checksum = session[e].rx_key_checksum
    /\ session'[e].is_established = session[e].is_established

\* The manager is wiped, and may hold the key pair just drawn.
Wipes(e) ==
    /\ Alone(e) /\ Silent
    /\ \/ session'[e].handshake_key = None
       \/ session'[e].handshake_key = draws' /\ draws' = draws + 1
    /\ session'[e].tx_key = None /\ session'[e].rx_key = None
    /\ ~ session'[e].is_established
    /\ session'[e].tx_counter = 0 /\ session'[e].rx_counter = 0
    /\ session'[e].pending_auth = None
    /\ accepted' = accepted

\* Keys are derived from a draw that is new, or from the key pair of the handshake.
Installs(e, secret, side, other, pending) ==
    /\ Alone(e) /\ Silent
    /\ secret \in Secrets
    /\ \/ side = "encap" /\ other = "keygen" /\ draws' = draws + 1
          /\ secret.from = draws' /\ secret.dk \in 1 .. draws
       \/ side = "keygen" /\ other = "encap" /\ draws' = draws
          /\ session[e].handshake_key # None
          /\ secret.dk = session[e].handshake_key /\ secret.from \in 1 .. draws
    /\ session'[e].handshake_key = None
    /\ session'[e].tx_key = Half(secret, side) /\ session'[e].rx_key = Half(secret, other)
    /\ session'[e].tx_key_checksum = key_checksum(session'[e].tx_key)
    /\ session'[e].rx_key_checksum = key_checksum(session'[e].rx_key)
    /\ session'[e].is_established /\ session'[e].pending_auth = pending
    /\ session'[e].tx_counter = 0 /\ session'[e].rx_counter = 0 /\ session'[e].rx_window = {}
    /\ accepted' = accepted

\* The keys stay: the peer is confirmed or a number is recorded.
Keeps(e) ==
    /\ Alone(e) /\ Silent /\ SameKeys(e)
    /\ session'[e].tx_counter = session[e].tx_counter
    /\ session'[e].rx_counter \in Nat
    /\ session'[e].pending_auth \in {session[e].pending_auth, None}

\* A nonce is assigned.
Sends(e) ==
    /\ Alone(e) /\ SameKeys(e)
    /\ assigned' = assigned \cup {NextNonce(e)}
    /\ \/ packets' = packets
       \/ session[e].is_established /\ packets' = packets \cup {NextNonce(e)}
    /\ session'[e].tx_counter = session[e].tx_counter + 1
    /\ session'[e].rx_counter = session[e].rx_counter
    /\ session'[e].rx_window = session[e].rx_window
    /\ session'[e].pending_auth = session[e].pending_auth
    /\ accepted' = accepted

\* The peer is confirmed.
Confirms(e) ==
    /\ Keeps(e)
    /\ session'[e].rx_counter = session[e].rx_counter
    /\ session'[e].rx_window = session[e].rx_window
    /\ session'[e].pending_auth = None
    /\ accepted' = accepted

\* A number is recorded, and remembered when there is a key it was received under.
Records(e, q) ==
    /\ Keeps(e)
    /\ session'[e] = commit_rx_nonce(session[e], q)
    /\ session'[e].pending_auth = session[e].pending_auth
    /\ DOMAIN accepted' = Endpoints
    /\ \A f \in Endpoints \ {e} : accepted'[f] = accepted[f]
    /\ accepted[e] \subseteq accepted'[e]
    /\ \A p \in accepted'[e] \ accepted[e] :
           /\ session[e].is_established
           /\ p.key = session[e].rx_key /\ p.sequence = q /\ p.from # e
    /\ session[e].is_established =>
           \E p \in accepted'[e] : p.key = session[e].rx_key /\ p.sequence = q

Kind(e) ==
    \/ Wipes(e)
    \/ \E secret, side, other, pending : Installs(e, secret, side, other, pending)
    \/ Confirms(e)
    \/ \E q \in Nat : Records(e, q)
    \/ Sends(e)

-----------------------------------------------------------------------------
\* The keys of a secret, and the draws they belong to.
LEMMA Halves ==
    ASSUME NEW secret \in Secrets, NEW side \in {"keygen", "encap"}
    PROVE  /\ Half(secret, side) \in Keys /\ Half(secret, side) # None
           /\ Half(secret, side).secret = secret /\ Half(secret, side).side = side
           /\ side = "keygen" => /\ Origin(Half(secret, side)) = secret.dk
                                 /\ Target(Half(secret, side)) = secret.from
           /\ side = "encap" => /\ Origin(Half(secret, side)) = secret.from
                                /\ Target(Half(secret, side)) = secret.dk
  BY OptionAssumption DEF Half, Keys, Origin, Target

LEMMA DrawnBefore ==
    ASSUME NEW key, Drawn(key), draws \in Nat
    PROVE  Origin(key) \in 1 .. draws /\ Target(key) \in 1 .. draws
  BY DEF Drawn, Origin, Target

LEMMA KindAlone ==
    ASSUME NEW e, Kind(e)
    PROVE  Alone(e)
  <1>1. Wipes(e) => Alone(e)
    BY DEF Wipes
  <1>2. (\E secret, side, other, pending : Installs(e, secret, side, other, pending)) => Alone(e)
    BY DEF Installs
  <1>3. Keeps(e) => Alone(e)
    BY DEF Keeps
  <1>4. Confirms(e) \/ (\E q \in Nat : Records(e, q)) => Keeps(e)
    BY DEF Confirms, Records
  <1>5. Sends(e) => Alone(e)
    BY DEF Sends
  <1> QED  BY <1>1, <1>2, <1>3, <1>4, <1>5 DEF Kind

LEMMA InstalledFields ==
    ASSUME NEW e, NEW secret, NEW side, NEW other, NEW pending,
           Installs(e, secret, side, other, pending)
    PROVE  /\ Alone(e) /\ packets' = packets
           /\ session'[e].is_established /\ session'[e].pending_auth = pending
           /\ session'[e].tx_key.secret = secret
  <1>1. session'[e].tx_key = Half(secret, side)
    BY DEF Installs
  <1>2. Half(secret, side).secret = secret
    BY DEF Half
  <1> QED  BY <1>1, <1>2 DEF Installs, Silent

LEMMA WipesPreserves ==
    ASSUME NonceInv, NEW e \in Endpoints, Wipes(e)
    PROVE  NonceInv'
  <1>1. TypeInv /\ TypeInv'
    BY SessionAssumption DEF NonceInv, TypeInv, Wipes, Alone, Drawn
  <1>2. OneSecret'
    BY DEF NonceInv, OneSecret, HoldsOneSecret, Wipes, Alone, verify_key_integrity
  <1>3. Distinct'
    <2>1. \A f \in Endpoints :
              session[f].is_established => Origin(session[f].tx_key) \in 1 .. draws
      BY <1>1, DrawnBefore DEF TypeInv
    <2> QED  BY <1>1, <2>1 DEF NonceInv, Distinct, Wipes, Alone, TypeInv
  <1>4. ASSUME NEW n \in assigned, n.key # None PROVE Spent(n)' /\ OneWay(n)'
    BY <1>1, <1>4, SessionAssumption DEF NonceInv, Wipes, Alone, TypeInv, Spent, OneWay, Drawn, Origin
  <1> QED  BY <1>1, <1>2, <1>3, <1>4 DEF NonceInv, Wipes, Silent, NonceUnique

LEMMA InstallsPreserves ==
    ASSUME NonceInv, NEW e \in Endpoints, NEW secret, NEW side, NEW other, NEW pending,
           Installs(e, secret, side, other, pending)
    PROVE  NonceInv'
  <1>1. TypeInv /\ Distinct /\ OneSecret /\ NonceUnique
    BY DEF NonceInv
  <1>2. /\ secret \in Secrets /\ secret.dk \in 1 .. draws' /\ secret.from \in 1 .. draws'
        /\ side \in {"keygen", "encap"} /\ other \in {"keygen", "encap"} /\ side # other
        /\ draws \in Nat /\ draws' \in {draws, draws + 1}
    BY <1>1 DEF Installs, TypeInv, Alone
  <1> DEFINE tx == Half(secret, side)
             rx == Half(secret, other)
  <1>3. /\ tx \in Keys /\ tx # None /\ tx.secret = secret /\ tx.side = side
        /\ rx \in Keys /\ rx # None /\ rx.secret = secret /\ rx.side = other
        /\ Origin(tx) = IF side = "keygen" THEN secret.dk ELSE secret.from
    BY <1>2, Halves
  <1>4. /\ session'[e].tx_key = tx /\ session'[e].rx_key = rx
        /\ session'[e].handshake_key = None /\ session'[e].is_established
        /\ session'[e].tx_key_checksum = key_checksum(tx)
        /\ session'[e].rx_key_checksum = key_checksum(rx)
    BY DEF Installs
  <1> HIDE DEF tx, rx
  <1>5. TypeInv'
    BY <1>1, <1>2, <1>3, <1>4 DEF TypeInv, Installs, Alone, Drawn
  <1>6. OneSecret'
    BY <1>1, <1>2, <1>3, <1>4 DEF OneSecret, HoldsOneSecret, Installs, Alone, verify_key_integrity
  <1>7. \/ Origin(tx) = draws + 1
        \/ Origin(tx) = session[e].handshake_key /\ session[e].handshake_key # None
    BY <1>3 DEF Installs
  <1>8. Distinct'
    BY <1>1, <1>4, <1>7 DEF Distinct, Installs, Alone, TypeInv, Origin, Drawn, Keys
  <1>9. ASSUME NEW n \in assigned, n.key # None PROVE Spent(n)' /\ OneWay(n)'
    <2>1. Spent(n) /\ OneWay(n)
      BY <1>9 DEF NonceInv
    <2>2. Spent(n)'
      BY <1>1, <1>2, <1>4, <1>7, <2>1, SessionAssumption
      DEF Installs, Alone, TypeInv, Spent, Drawn, Origin
    <2>3. OneWay(n)'
      BY <1>1, <1>3, <1>4, <2>1, SessionAssumption
      DEF Installs, Alone, TypeInv, Spent, OneWay, Drawn
    <2> QED  BY <2>2, <2>3
  <1> QED  BY <1>1, <1>5, <1>6, <1>8, <1>9 DEF NonceInv, Installs, Silent, NonceUnique

LEMMA KeepsPreserves ==
    ASSUME NonceInv, NEW e \in Endpoints, Keeps(e), DOMAIN accepted' = Endpoints
    PROVE  NonceInv'
  <1>1. TypeInv /\ Distinct /\ OneSecret /\ NonceUnique
    BY DEF NonceInv
  <1>2. TypeInv'
    BY <1>1 DEF TypeInv, Keeps, Alone, SameKeys, Drawn
  <1>3. OneSecret'
    BY <1>1 DEF OneSecret, HoldsOneSecret, Keeps, Alone, SameKeys, verify_key_integrity
  <1>4. Distinct'
    BY <1>1 DEF Distinct, Keeps, Alone, SameKeys
  <1>5. ASSUME NEW n \in assigned, n.key # None PROVE Spent(n)' /\ OneWay(n)'
    BY <1>1, <1>5 DEF NonceInv, Keeps, Alone, SameKeys, TypeInv, Spent, OneWay, Drawn
  <1> QED  BY <1>1, <1>2, <1>3, <1>4, <1>5 DEF NonceInv, Keeps, Silent, NonceUnique

LEMMA SendsPreserves ==
    ASSUME NonceInv, NEW e \in Endpoints, Sends(e)
    PROVE  NonceInv'
  <1>1. TypeInv /\ Distinct /\ OneSecret /\ NonceUnique
    BY DEF NonceInv
  <1>2. TypeInv'
    BY <1>1 DEF TypeInv, Sends, Alone, SameKeys, Drawn
  <1>3. OneSecret'
    BY <1>1 DEF OneSecret, HoldsOneSecret, Sends, Alone, SameKeys, verify_key_integrity
  <1>4. Distinct'
    BY <1>1 DEF Distinct, Sends, Alone, SameKeys
  <1>5. ASSUME NEW n \in assigned, n.key # None PROVE Spent(n)' /\ OneWay(n)'
    BY <1>1, <1>5 DEF NonceInv, Sends, Alone, SameKeys, TypeInv, Spent, OneWay, Drawn
  <1> PICK n0 : n0 = NextNonce(e)
    OBVIOUS
  <1>6. /\ n0.key = session[e].tx_key /\ n0.sequence = session[e].tx_counter /\ n0.from = e
        /\ n0.key # None => session[e].is_established
        /\ session[e].is_established => n0.key # None
    BY <1>1 DEF NextNonce, OneSecret, HoldsOneSecret, verify_key_integrity
  <1>7. assigned' = assigned \cup {n0} /\ packets' \subseteq packets \cup {n0}
        /\ (n0.key = None => packets' = packets)
    BY <1>6 DEF Sends
  <1>8. ASSUME n0.key # None PROVE Spent(n0)' /\ OneWay(n0)'
    <2>1. /\ session[e].is_established /\ Drawn(n0.key) /\ Origin(n0.key) \in Nat
          /\ session[e].handshake_key = None /\ n0.key.side # session[e].rx_key.side
          /\ n0.key.secret.dk \in Nat
      BY <1>1, <1>6, <1>8 DEF TypeInv, Drawn, OneSecret, HoldsOneSecret, Origin, Keys
    <2>2. Drawn(n0.key)' /\ n0.sequence \in Nat
      BY <1>1, <1>6, <2>1 DEF TypeInv, Drawn, Sends, Alone
    <2>3. ASSUME NEW f \in Endpoints
          PROVE  /\ session'[f].handshake_key # Origin(n0.key)
                 /\ session'[f].is_established /\ Origin(session'[f].tx_key) = Origin(n0.key) =>
                        f = e
      BY <1>1, <1>6, <2>1, SessionAssumption DEF Distinct, Sends, Alone, SameKeys
    <2>4. n0.key = session'[e].tx_key /\ n0.sequence < session'[e].tx_counter
      BY <1>6, <2>2 DEF Sends, SameKeys
    <2>5. Spent(n0)'
      BY <2>2, <2>3, <2>4 DEF Spent
    <2>6. OneWay(n0)'
      BY <1>6, <2>1, SessionAssumption DEF Sends, SameKeys, OneWay
    <2> QED  BY <2>5, <2>6
  <1>9. NonceUnique'
    <2>1. ASSUME NEW n \in assigned, n.key # None, n.key = n0.key PROVE n.sequence # n0.sequence
      BY <1>1, <1>6, <2>1 DEF NonceInv, Spent, TypeInv
    <2> QED  BY <1>1, <1>7, <2>1 DEF NonceUnique
  <1>10. \A n \in assigned' : n.key # None => Spent(n)' /\ OneWay(n)'
    BY <1>5, <1>7, <1>8
  <1>11. packets' \subseteq {n \in assigned' : n.key # None}
    BY <1>7 DEF NonceInv
  <1> QED  BY <1>2, <1>3, <1>4, <1>9, <1>10, <1>11 DEF NonceInv

-----------------------------------------------------------------------------
\* Every operation is a step of one of these kinds.

LEMMA ZeroizeWipes ==
    ASSUME TypeInv, NEW e \in Endpoints,
           session' = [session EXCEPT ![e] = Zeroized], draws' \in {draws, draws + 1},
           UNCHANGED <<messages, packets, assigned, accepted>>
    PROVE  Wipes(e)
  BY DEF TypeInv, Wipes, Alone, Silent, Zeroized

LEMMA InitiateWipes ==
    ASSUME TypeInv, NEW e \in Endpoints, initiate_handshake(e)
    PROVE  Wipes(e)
  BY DEF TypeInv, Wipes, Alone, Silent, Zeroized, initiate_handshake

LEMMA EstablishInstalls ==
    ASSUME TypeInv, NEW e \in Endpoints, NEW secret \in Secrets, NEW side, NEW other, NEW pending, NEW s,
           \/ side = "encap" /\ other = "keygen" /\ draws' = draws + 1
              /\ secret.from = draws' /\ secret.dk \in 1 .. draws
           \/ side = "keygen" /\ other = "encap" /\ draws' = draws
              /\ session[e].handshake_key # None
              /\ secret.dk = session[e].handshake_key /\ secret.from \in 1 .. draws,
           session' = [session EXCEPT ![e] = s],
           \/ s = Established(secret, side, other) /\ pending = None
           \/ s = [Established(secret, side, other) EXCEPT !.pending_auth = pending],
           \A m \in messages' :
               \/ m \in messages
               \/ draws' = draws + 1 /\ m.type = "encap" /\ m.ct.from = draws'
               \/ m.type = "proof",
           UNCHANGED <<packets, assigned, accepted>>
    PROVE  Installs(e, secret, side, other, pending)
  <1>1. /\ DOMAIN s = DOMAIN Zeroized /\ s.handshake_key = None
        /\ s.tx_key = Half(secret, side) /\ s.rx_key = Half(secret, other)
        /\ s.tx_key_checksum = key_checksum(s.tx_key)
        /\ s.rx_key_checksum = key_checksum(s.rx_key)
        /\ s.is_established /\ s.pending_auth = pending
        /\ s.tx_counter = 0 /\ s.rx_counter = 0 /\ s.rx_window = {}
    <2>1. CASE s = Established(secret, side, other) /\ pending = None
      BY <2>1 DEF Established, Zeroized
    <2>2. CASE s = [Established(secret, side, other) EXCEPT !.pending_auth = pending]
      BY <2>2 DEF Established, Zeroized
    <2> QED  BY <2>1, <2>2
  <1>3. session'[e] = s /\ DOMAIN session' = Endpoints
        /\ \A f \in Endpoints \ {e} : session'[f] = session[f]
    BY DEF TypeInv
  <1>4. Alone(e)
    BY <1>1, <1>3 DEF Alone
  <1> QED  BY <1>1, <1>3, <1>4 DEF Installs, Silent

LEMMA DerivedSecret ==
    ASSUME NEW dk \in Nat, NEW from \in Nat, NEW salt \in Salts,
           NEW info \in [keygen : Endpoints \cup {None}, encapsulator : Endpoints \cup {None}]
    PROVE  /\ derive_hybrid_key(dk, from, salt, info) \in Secrets
           /\ derive_hybrid_key(dk, from, salt, info).dk = dk
           /\ derive_hybrid_key(dk, from, salt, info).from = from
           /\ derive_hybrid_key(dk, from, salt, info).info = info
  BY DEF derive_hybrid_key, Secrets

LEMMA EncapsulateInstalls ==
    ASSUME TypeInv, NEW e \in Endpoints, NEW m \in messages, NEW salt \in Salts,
           encapsulate_for_peer(e, m, salt)
    PROVE  /\ Installs(e, derive_hybrid_key(m.pk, draws', salt, Anonymous), "encap", "keygen", None)
           /\ derive_hybrid_key(m.pk, draws', salt, Anonymous).info = Anonymous
  <1>1. /\ m.pk \in 1 .. draws /\ draws \in Nat /\ draws' = draws + 1
        /\ m.pk \in Nat /\ draws' \in Nat
        /\ Anonymous \in [keygen : Endpoints \cup {None}, encapsulator : Endpoints \cup {None}]
    BY DEF TypeInv, encapsulate_for_peer, Anonymous
  <1> DEFINE secret == derive_hybrid_key(m.pk, draws', salt, Anonymous)
  <1>2. /\ secret \in Secrets /\ secret.dk = m.pk /\ secret.from = draws'
        /\ secret.info = Anonymous
    BY <1>1 DEF derive_hybrid_key, Secrets
  <1>3. /\ session' = [session EXCEPT ![e] = Established(secret, "encap", "keygen")]
        /\ UNCHANGED <<packets, assigned, accepted>>
    BY DEF encapsulate_for_peer
  <1>4. \A n \in messages' : n \in messages \/ (n.type = "encap" /\ n.ct.from = draws')
    BY DEF encapsulate_for_peer
  <1> HIDE DEF secret
  <1>6. Installs(e, secret, "encap", "keygen", None)
    BY <1>1, <1>2, <1>3, <1>4, EstablishInstalls, Zenon
  <1> QED  BY <1>2, <1>6 DEF secret

LEMMA FinalizeInstalls ==
    ASSUME TypeInv, NEW e \in Endpoints, NEW m \in messages, NEW salt \in Salts,
           NEW info \in [keygen : Endpoints \cup {None}, encapsulator : Endpoints \cup {None}],
           session[e].handshake_key # None, m.type = "encap", draws' = draws,
           session' = [session EXCEPT ![e] =
               Established(derive_hybrid_key(session[e].handshake_key, m.ct.from, salt, info),
                           "keygen", "encap")],
           \A n \in messages' : n \in messages \/ n.type = "proof",
           UNCHANGED <<packets, assigned, accepted>>
    PROVE  /\ derive_hybrid_key(session[e].handshake_key, m.ct.from, salt, info).info = info
           /\ Installs(e, derive_hybrid_key(session[e].handshake_key, m.ct.from, salt, info),
                       "keygen", "encap", None)
  <1>1. /\ session[e].handshake_key \in 1 .. draws /\ m.ct.from \in 1 .. draws /\ draws \in Nat
        /\ session[e].handshake_key \in Nat /\ m.ct.from \in Nat
    BY DEF TypeInv
  <1> DEFINE secret == derive_hybrid_key(session[e].handshake_key, m.ct.from, salt, info)
  <1>2. /\ secret \in Secrets /\ secret.dk = session[e].handshake_key
        /\ secret.from = m.ct.from /\ secret.info = info
    BY <1>1, DerivedSecret
  <1>3. session' = [session EXCEPT ![e] = Established(secret, "keygen", "encap")]
    OBVIOUS
  <1> HIDE DEF secret
  <1>4. Installs(e, secret, "keygen", "encap", None)
    BY <1>1, <1>2, <1>3, EstablishInstalls, Zenon
  <1> QED  BY <1>2, <1>4 DEF secret

LEMMA AuthenticatedInstalls ==
    ASSUME TypeInv, NEW e \in Endpoints, NEW peer \in Endpoints, NEW m \in messages,
           NEW salt \in Salts, encapsulate_authenticated(e, peer, m, salt, TRUE)
    PROVE  LET secret == derive_hybrid_key(m.pk, draws', salt, handshake_binding(peer, e))
           IN  /\ Installs(e, secret, "encap", "keygen",
                           [digest |-> EncapDigest(secret), peer_identity |-> peer,
                            confirmation_key |-> secret])
               /\ secret.info = handshake_binding(peer, e)
               /\ \E n : /\ messages' = messages \cup {n}
                         /\ n.type = "encap" /\ n.signature = Signature(e, EncapDigest(secret))
               /\ runs' = runs \cup {[step |-> "encapsulated", by |-> e, peer |-> peer,
                                      secret |-> secret]}
  <1> DEFINE info == handshake_binding(peer, e)
             secret == derive_hybrid_key(m.pk, draws', salt, info)
             pending == [digest |-> EncapDigest(secret), peer_identity |-> peer,
                         confirmation_key |-> secret]
             ct == [to |-> m.pk, from |-> draws']
             transcript == transcript_hash(info, m.pk, ct)
             tag == confirmation_tag(secret, "encap", transcript)
             n == [type |-> "encap", ct |-> ct,
                   signature |-> Signature(e, Digest("encap", transcript, tag)),
                   confirmation |-> tag]
  <1>1. /\ m.pk \in 1 .. draws /\ draws \in Nat /\ draws' = draws + 1
        /\ m.pk \in Nat /\ draws' \in Nat
        /\ info \in [keygen : Endpoints \cup {None}, encapsulator : Endpoints \cup {None}]
    BY DEF TypeInv, encapsulate_authenticated, handshake_binding
  <1> HIDE DEF info
  <1>2. /\ secret \in Secrets /\ secret.dk = m.pk /\ secret.from = draws'
        /\ secret.info = info
    BY <1>1, DerivedSecret
  <1> HIDE DEF secret
  <1>3. EncapDigest(secret) = Digest("encap", transcript, tag)
    BY <1>2 DEF EncapDigest
  <1>4. /\ session' = [session EXCEPT ![e] =
                          [Established(secret, "encap", "keygen") EXCEPT !.pending_auth =
                             [digest |-> Digest("encap", transcript, tag),
                              peer_identity |-> peer, confirmation_key |-> secret]]]
        /\ messages' = messages \cup {n}
        /\ runs' = runs \cup {[step |-> "encapsulated", by |-> e, peer |-> peer,
                               secret |-> secret]}
        /\ UNCHANGED <<packets, assigned, accepted>>
    BY DEF encapsulate_authenticated, secret, info
  <1>5. session' = [session EXCEPT ![e] =
                       [Established(secret, "encap", "keygen") EXCEPT !.pending_auth = pending]]
    BY <1>3, <1>4
  <1>6. n.type = "encap" /\ n.ct.from = draws' /\ n.signature = Signature(e, EncapDigest(secret))
    BY <1>3
  <1> HIDE DEF n, pending
  <1>7. Installs(e, secret, "encap", "keygen", pending)
    BY <1>1, <1>2, <1>4, <1>5, <1>6, EstablishInstalls, Zenon
  <1> QED  BY <1>2, <1>4, <1>6, <1>7 DEF secret, info, pending

\* commit_rx_nonce touches the window and nothing else.
LEMMA CommitFields ==
    ASSUME NEW s, NEW c, NEW q \in Nat, DOMAIN s = DOMAIN Zeroized, s.rx_counter \in Nat,
           c = commit_rx_nonce(s, q)
    PROVE  /\ DOMAIN c = DOMAIN Zeroized
           /\ c.handshake_key = s.handshake_key /\ c.tx_key = s.tx_key /\ c.rx_key = s.rx_key
           /\ c.tx_key_checksum = s.tx_key_checksum /\ c.rx_key_checksum = s.rx_key_checksum
           /\ c.is_established = s.is_established /\ c.tx_counter = s.tx_counter
           /\ c.pending_auth = s.pending_auth
           /\ q > s.rx_counter =>
                  /\ c.rx_counter = q
                  /\ c.rx_window = {o \in 0 .. Window - 1 :
                                       o = 0 \/ o - (q - s.rx_counter) \in s.rx_window}
           /\ ~ (q > s.rx_counter) =>
                  /\ c.rx_counter = s.rx_counter
                  /\ c.rx_window = s.rx_window \cup ({s.rx_counter - q} \cap (0 .. Window - 1))
  <1>1. CASE q > s.rx_counter
    BY <1>1, Zenon DEF commit_rx_nonce, Zeroized
  <1>2. CASE ~ (q > s.rx_counter)
    BY <1>2 DEF commit_rx_nonce, Zeroized
  <1> QED  BY <1>1, <1>2

LEMMA CommitKeeps ==
    ASSUME TypeInv, NEW e \in Endpoints, NEW q \in Nat,
           session' = [session EXCEPT ![e] = commit_rx_nonce(@, q)],
           UNCHANGED <<draws, messages, packets, assigned>>
    PROVE  Keeps(e) /\ session'[e].pending_auth = session[e].pending_auth
  <1>1. DOMAIN session[e] = DOMAIN Zeroized /\ session[e].rx_counter \in Nat
        /\ DOMAIN session = Endpoints
    BY DEF TypeInv
  <1>2. PICK c : c = commit_rx_nonce(session[e], q)
    OBVIOUS
  <1>3. session' = [session EXCEPT ![e] = c]
    BY <1>1, <1>2
  <1>4. session'[e] = c /\ DOMAIN session' = Endpoints
        /\ \A f \in Endpoints \ {e} : session'[f] = session[f]
    BY <1>1, <1>3
  <1>5. /\ DOMAIN c = DOMAIN Zeroized
        /\ c.handshake_key = session[e].handshake_key /\ c.tx_key = session[e].tx_key
        /\ c.rx_key = session[e].rx_key
        /\ c.tx_key_checksum = session[e].tx_key_checksum
        /\ c.rx_key_checksum = session[e].rx_key_checksum
        /\ c.is_established = session[e].is_established
        /\ c.tx_counter = session[e].tx_counter /\ c.pending_auth = session[e].pending_auth
        /\ c.rx_counter \in Nat
    BY <1>1, <1>2, CommitFields
  <1> QED  BY <1>4, <1>5 DEF Keeps, Alone, Silent, SameKeys

LEMMA ConfirmKeeps ==
    ASSUME TypeInv, NEW e \in Endpoints,
           session' = [session EXCEPT ![e].pending_auth = None],
           UNCHANGED <<draws, messages, packets, assigned>>
    PROVE  /\ Keeps(e) /\ session'[e].pending_auth = None
           /\ session'[e].rx_counter = session[e].rx_counter
           /\ session'[e].rx_window = session[e].rx_window
  <1>1. DOMAIN session[e] = DOMAIN Zeroized /\ session[e].rx_counter \in Nat
        /\ DOMAIN session = Endpoints
    BY DEF TypeInv
  <1> QED  BY <1>1 DEF Keeps, Alone, Silent, SameKeys, Zeroized

LEMMA NonceSends ==
    ASSUME TypeInv, NEW e \in Endpoints, get_next_tx_nonce(e) \/ encrypt_packet(e)
    PROVE  Sends(e)
  <1>1. DOMAIN session[e] = DOMAIN Zeroized /\ DOMAIN session = Endpoints
    BY DEF TypeInv
  <1>2. /\ session' = [session EXCEPT ![e].tx_counter = @ + 1]
        /\ draws' = draws /\ messages' = messages /\ accepted' = accepted
        /\ assigned' = assigned \cup {NextNonce(e)}
        /\ \/ packets' = packets
           \/ session[e].is_established /\ packets' = packets \cup {NextNonce(e)}
    BY DEF get_next_tx_nonce, encrypt_packet
  <1>3. Alone(e) /\ SameKeys(e)
    BY <1>1, <1>2 DEF Alone, SameKeys, Zeroized
  <1>4. /\ session'[e].tx_counter = session[e].tx_counter + 1
        /\ session'[e].rx_counter = session[e].rx_counter
        /\ session'[e].rx_window = session[e].rx_window
        /\ session'[e].pending_auth = session[e].pending_auth
    BY <1>1, <1>2 DEF Zeroized
  <1> QED  BY <1>2, <1>3, <1>4 DEF Sends

LEMMA DecryptRecords ==
    ASSUME NonceInv, NEW e \in Endpoints, NEW p \in packets, decrypt_packet(e, p)
    PROVE  p.sequence \in Nat /\ Records(e, p.sequence)
  <1>1. TypeInv /\ Spent(p) /\ OneWay(p) /\ p.sequence \in Nat
    BY DEF NonceInv, Spent
  <1>2. /\ session' = [session EXCEPT ![e] = commit_rx_nonce(@, p.sequence)]
        /\ UNCHANGED <<draws, messages, packets, assigned>>
        /\ accepted' = [accepted EXCEPT ![e] = @ \cup {p}]
        /\ session[e].is_established /\ p.key = session[e].rx_key
    BY DEF decrypt_packet
  <1>3. Keeps(e) /\ session'[e].pending_auth = session[e].pending_auth
    BY <1>1, <1>2, CommitKeeps, Zenon
  <1>4. session'[e] = commit_rx_nonce(session[e], p.sequence)
    BY <1>1, <1>2 DEF TypeInv
  <1>5. /\ DOMAIN accepted' = Endpoints /\ accepted'[e] = accepted[e] \cup {p}
        /\ \A f \in Endpoints \ {e} : accepted'[f] = accepted[f]
    BY <1>1, <1>2 DEF TypeInv
  <1>6. p.from # e
    BY <1>1, <1>2 DEF OneWay
  <1> QED  BY <1>1, <1>2, <1>3, <1>4, <1>5, <1>6 DEF Records

LEMMA HostRecords ==
    ASSUME NonceInv, NEW e \in Endpoints, NEW q \in HostCommits, HostCommit(e, q)
    PROVE  q \in Nat /\ Records(e, q)
  <1>1. TypeInv /\ OneSecret /\ q \in Nat
    BY SessionAssumption DEF NonceInv
  <1> DEFINE P == {[key |-> k, sequence |-> q, number |-> None, from |-> None] :
                      k \in {session[e].rx_key} \ {None}}
  <1>2. /\ session' = [session EXCEPT ![e] = commit_rx_nonce(@, q)]
        /\ UNCHANGED <<draws, messages, packets, assigned>>
        /\ accepted' = [accepted EXCEPT ![e] = @ \cup P]
    BY DEF HostCommit
  <1>3. Keeps(e) /\ session'[e].pending_auth = session[e].pending_auth
    BY <1>1, <1>2, CommitKeeps, Zenon
  <1>4. session'[e] = commit_rx_nonce(session[e], q)
    BY <1>1, <1>2 DEF TypeInv
  <1>5. /\ \A p \in P : /\ session[e].is_established /\ p.key = session[e].rx_key
                         /\ p.sequence = q /\ p.from # e
        /\ session[e].is_established => \E p \in P : p.key = session[e].rx_key /\ p.sequence = q
    <2>1. /\ session[e].is_established => session[e].rx_key # None
          /\ session[e].rx_key # None => session[e].is_established
      BY <1>1 DEF OneSecret, HoldsOneSecret, verify_key_integrity
    <2>2. ASSUME NEW p \in P PROVE /\ session[e].is_established /\ p.key = session[e].rx_key
                                   /\ p.sequence = q /\ p.from # e
      BY <2>1, SessionAssumption
    <2>3. ASSUME session[e].is_established
          PROVE  \E p \in P : p.key = session[e].rx_key /\ p.sequence = q
      <3>1. [key |-> session[e].rx_key, sequence |-> q, number |-> None, from |-> None] \in P
        BY <2>1, <2>3
      <3> QED  BY <3>1, Zenon
    <2> QED  BY <2>2, <2>3
  <1> HIDE DEF P
  <1>6. /\ DOMAIN accepted' = Endpoints /\ accepted'[e] = accepted[e] \cup P
        /\ \A f \in Endpoints \ {e} : accepted'[f] = accepted[f]
    BY <1>1, <1>2 DEF TypeInv
  <1> QED  BY <1>1, <1>3, <1>4, <1>5, <1>6 DEF Records

LEMMA Kinds ==
    ASSUME NonceInv, Next
    PROVE  \E e \in Endpoints : Kind(e)
  <1>1. TypeInv
    BY DEF NonceInv
  <1>2. PICK e \in Endpoints :
            \/ initiate_handshake(e)
            \/ \E m \in messages, salt \in Salts : encapsulate_for_peer(e, m, salt)
            \/ \E m \in messages, salt \in Salts, contributory \in BOOLEAN :
                   finalize_handshake(e, m, salt, contributory)
            \/ \E m \in messages, salt \in Salts, peer \in Endpoints, signs \in BOOLEAN :
                   encapsulate_authenticated(e, peer, m, salt, signs)
            \/ \E m \in messages, salt \in Salts, peer \in Endpoints, completes \in BOOLEAN :
                   finalize_authenticated(e, peer, m, salt, completes)
            \/ \E m \in messages, peer \in Endpoints : confirm_peer(e, peer, m)
            \/ get_next_tx_nonce(e) \/ encrypt_packet(e)
            \/ \E p \in packets : decrypt_packet(e, p)
            \/ \E q \in HostCommits : HostCommit(e, q)
            \/ zeroize_session(e)
    BY DEF Next
  <1> SUFFICES Kind(e)
    OBVIOUS
  <1>3. CASE initiate_handshake(e)
    BY <1>1, <1>3, InitiateWipes DEF Kind
  <1>4. ASSUME NEW m \in messages, NEW salt \in Salts, encapsulate_for_peer(e, m, salt)
        PROVE  Kind(e)
    BY <1>1, <1>4, EncapsulateInstalls DEF Kind
  <1>5. ASSUME NEW m \in messages, NEW salt \in Salts, NEW contributory \in BOOLEAN,
               finalize_handshake(e, m, salt, contributory)
        PROVE  Kind(e)
    <2>1. CASE contributory
      <3>1. Anonymous \in [keygen : Endpoints \cup {None}, encapsulator : Endpoints \cup {None}]
        BY DEF Anonymous
      <3>2. /\ session[e].handshake_key # None /\ m.type = "encap" /\ draws' = draws
            /\ session' = [session EXCEPT ![e] =
                   Established(derive_hybrid_key(session[e].handshake_key, m.ct.from, salt,
                                                 Anonymous), "keygen", "encap")]
            /\ messages' = messages /\ UNCHANGED <<packets, assigned, accepted>>
        BY <1>5, <2>1 DEF finalize_handshake
      <3> QED  BY <1>1, <3>1, <3>2, FinalizeInstalls, Zenon DEF Kind
    <2>2. CASE ~ contributory
      BY <1>1, <1>5, <2>2, ZeroizeWipes, Zenon DEF Kind, finalize_handshake
    <2> QED  BY <2>1, <2>2
  <1>6. ASSUME NEW m \in messages, NEW salt \in Salts, NEW peer \in Endpoints,
               NEW signs \in BOOLEAN, encapsulate_authenticated(e, peer, m, salt, signs)
        PROVE  Kind(e)
    <2>1. CASE signs = TRUE
      BY <1>1, <1>6, <2>1, AuthenticatedInstalls, Zenon DEF Kind
    <2>2. CASE signs = FALSE
      BY <1>1, <1>6, <2>2, ZeroizeWipes DEF Kind, encapsulate_authenticated
    <2> QED  BY <2>1, <2>2, Zenon
  <1>7. ASSUME NEW m \in messages, NEW salt \in Salts, NEW peer \in Endpoints,
               NEW completes \in BOOLEAN, finalize_authenticated(e, peer, m, salt, completes)
        PROVE  Kind(e)
    <2> DEFINE info == handshake_binding(e, peer)
               secret == derive_hybrid_key(session[e].handshake_key, m.ct.from, salt, info)
    <2>1. /\ session[e].handshake_key # None /\ m.type = "encap" /\ draws' = draws
          /\ UNCHANGED <<packets, assigned, accepted>>
          /\ \/ session' = [session EXCEPT ![e] = Zeroized] /\ messages' = messages
             \/ /\ session' = [session EXCEPT ![e] = Established(secret, "keygen", "encap")]
                /\ \A n \in messages' : n \in messages \/ n.type = "proof"
      BY <1>7 DEF finalize_authenticated
    <2>2. info \in [keygen : Endpoints \cup {None}, encapsulator : Endpoints \cup {None}]
      BY DEF handshake_binding
    <2> HIDE DEF info
    <2> QED  BY <1>1, <2>1, <2>2, FinalizeInstalls, ZeroizeWipes DEF Kind
  <1>8. ASSUME NEW m \in messages, NEW peer \in Endpoints, confirm_peer(e, peer, m)
        PROVE  Kind(e)
    <2>1. /\ UNCHANGED <<draws, messages, packets, assigned, accepted>>
          /\ \/ session' = [session EXCEPT ![e] = Zeroized]
             \/ session' = [session EXCEPT ![e].pending_auth = None]
      BY <1>8 DEF confirm_peer
    <2>2. CASE session' = [session EXCEPT ![e].pending_auth = None]
      BY <1>1, <2>1, <2>2, ConfirmKeeps, Zenon DEF Kind, Confirms
    <2> QED  BY <1>1, <2>1, <2>2, ZeroizeWipes DEF Kind
  <1>9. CASE get_next_tx_nonce(e) \/ encrypt_packet(e)
    BY <1>1, <1>9, NonceSends DEF Kind
  <1>10. ASSUME NEW p \in packets, decrypt_packet(e, p) PROVE Kind(e)
    BY <1>10, DecryptRecords DEF Kind
  <1>11. ASSUME NEW q \in HostCommits, HostCommit(e, q) PROVE Kind(e)
    BY <1>11, HostRecords DEF Kind
  <1>12. CASE zeroize_session(e)
    BY <1>1, <1>12, ZeroizeWipes, Zenon DEF Kind, zeroize_session
  <1> QED  BY <1>2, <1>3, <1>4, <1>5, <1>6, <1>7, <1>8, <1>9, <1>10, <1>11, <1>12

LEMMA NonceStep ==
    ASSUME NonceInv, NEW e \in Endpoints, Kind(e)
    PROVE  NonceInv'
  <1>1. CASE Wipes(e)
    BY <1>1, WipesPreserves
  <1>2. ASSUME NEW secret, NEW side, NEW other, NEW pending,
               Installs(e, secret, side, other, pending)
        PROVE  NonceInv'
    BY <1>2, InstallsPreserves
  <1>3. CASE Confirms(e)
    BY <1>3, KeepsPreserves DEF Confirms, NonceInv, TypeInv
  <1>4. ASSUME NEW q \in Nat, Records(e, q) PROVE NonceInv'
    BY <1>4, KeepsPreserves DEF Records
  <1>5. CASE Sends(e)
    BY <1>5, SendsPreserves
  <1> QED  BY <1>1, <1>2, <1>3, <1>4, <1>5 DEF Kind

LEMMA AcceptStep ==
    ASSUME NonceInv, AcceptInv, NEW e \in Endpoints, Kind(e)
    PROVE  AcceptInv'
  <1>1. TypeInv /\ OneSecret
    BY DEF NonceInv
  <1>2. draws \in Nat /\ draws' \in Nat /\ draws <= draws'
    BY <1>1, KindAlone DEF TypeInv, Alone
  <1>3. ASSUME accepted' = accepted, Alone(e),
               \/ session'[e].handshake_key \in {None, session[e].handshake_key}
               \/ session'[e].handshake_key = draws' /\ draws' = draws + 1
        PROVE  AcceptInv'
    <2>1. SUFFICES ASSUME NEW f \in Endpoints, NEW p \in accepted[f]
                   PROVE  /\ p.from # f
                          /\ Drawn(p.key)' /\ p.sequence \in Nat
                          /\ session'[f].handshake_key # Target(p.key)
      BY <1>3 DEF AcceptInv
    <2>2. /\ p.from # f /\ Drawn(p.key) /\ p.sequence \in Nat
          /\ session[f].handshake_key # Target(p.key)
      BY DEF AcceptInv
    <2>3. Target(p.key) \in 1 .. draws
      BY <1>2, <2>2, DrawnBefore
    <2>4. \/ session'[f].handshake_key \in {None, session[f].handshake_key}
          \/ session'[f].handshake_key = draws + 1
      BY <1>3 DEF Alone
    <2>5. Drawn(p.key)'
      BY <1>2, <2>2 DEF Drawn
    <2> QED  BY <1>2, <2>2, <2>3, <2>4, <2>5, SessionAssumption
  <1>4. CASE Wipes(e)
    BY <1>3, <1>4 DEF Wipes
  <1>5. ASSUME NEW secret, NEW side, NEW other, NEW pending,
               Installs(e, secret, side, other, pending)
        PROVE  AcceptInv'
    BY <1>3, <1>5 DEF Installs
  <1>6. CASE Confirms(e)
    BY <1>3, <1>6 DEF Confirms, Keeps, SameKeys
  <1>7. CASE Sends(e)
    BY <1>3, <1>7 DEF Sends, SameKeys
  <1>8. ASSUME NEW q \in Nat, Records(e, q) PROVE AcceptInv'
    <2>1. SUFFICES ASSUME NEW f \in Endpoints, NEW p \in accepted'[f]
                   PROVE  /\ p.from # f
                          /\ Drawn(p.key)' /\ p.sequence \in Nat
                          /\ session'[f].handshake_key # Target(p.key)
      BY DEF AcceptInv
    <2>2. session'[f].handshake_key = session[f].handshake_key
      BY <1>8 DEF Records, Keeps, Alone, SameKeys
    <2>3. CASE p \in accepted[f]
      BY <1>2, <2>2, <2>3 DEF AcceptInv, Drawn
    <2>4. CASE p \notin accepted[f]
      <3>1. /\ f = e /\ session[e].is_established /\ p.key = session[e].rx_key
            /\ p.sequence = q /\ p.from # e
        BY <1>8, <2>1, <2>4 DEF Records
      <3>2. Drawn(p.key) /\ session[e].handshake_key = None
        BY <1>1, <3>1 DEF TypeInv, OneSecret, HoldsOneSecret
      <3> QED  BY <1>2, <2>2, <3>1, <3>2, SessionAssumption DEF Drawn, Target
    <2> QED  BY <2>3, <2>4
  <1> QED  BY <1>4, <1>5, <1>6, <1>7, <1>8 DEF Kind

\* Only the two finalizing operations use a key pair, and they give it up.
LEMMA Decapsulates ==
    ASSUME NonceInv, Next
    PROVE  \/ decapsulated' = decapsulated
           \/ \E e \in Endpoints :
                  /\ session[e].handshake_key # None
                  /\ decapsulated' = decapsulated \cup {session[e].handshake_key}
                  /\ draws' = draws
                  /\ session'[e].handshake_key = None
                  /\ \A f \in Endpoints \ {e} : session'[f] = session[f]
  <1>1. DOMAIN session = Endpoints
    BY DEF NonceInv, TypeInv
  <1>2. /\ Zeroized.handshake_key = None
        /\ \A secret, side, other : Established(secret, side, other).handshake_key = None
    BY DEF Zeroized, Established
  <1>3. ASSUME NEW e \in Endpoints, NEW m \in messages, NEW salt \in Salts,
               NEW contributory \in BOOLEAN, finalize_handshake(e, m, salt, contributory)
        PROVE  /\ session[e].handshake_key # None
               /\ decapsulated' = decapsulated \cup {session[e].handshake_key}
               /\ draws' = draws
               /\ session'[e].handshake_key = None
               /\ \A f \in Endpoints \ {e} : session'[f] = session[f]
    BY <1>1, <1>2, <1>3 DEF finalize_handshake
  <1>4. ASSUME NEW e \in Endpoints, NEW m \in messages, NEW salt \in Salts,
               NEW peer \in Endpoints, NEW completes \in BOOLEAN,
               finalize_authenticated(e, peer, m, salt, completes)
        PROVE  /\ session[e].handshake_key # None
               /\ decapsulated' = decapsulated \cup {session[e].handshake_key}
               /\ draws' = draws
               /\ session'[e].handshake_key = None
               /\ \A f \in Endpoints \ {e} : session'[f] = session[f]
    BY <1>1, <1>2, <1>4 DEF finalize_authenticated
  <1>5. CASE decapsulated' # decapsulated
    <2>1. \E e \in Endpoints :
              \/ \E m \in messages, salt \in Salts, contributory \in BOOLEAN :
                     finalize_handshake(e, m, salt, contributory)
              \/ \E m \in messages, salt \in Salts, peer \in Endpoints, completes \in BOOLEAN :
                     finalize_authenticated(e, peer, m, salt, completes)
      <3>1. \A e \in Endpoints :
                \/ initiate_handshake(e) \/ get_next_tx_nonce(e) \/ encrypt_packet(e)
                \/ zeroize_session(e)
                => decapsulated' = decapsulated
        BY DEF initiate_handshake, get_next_tx_nonce, encrypt_packet, zeroize_session
      <3>2. \A e \in Endpoints, m \in messages :
                /\ \A salt \in Salts : encapsulate_for_peer(e, m, salt) => decapsulated' = decapsulated
                /\ \A salt \in Salts, peer \in Endpoints, signs \in BOOLEAN :
                       encapsulate_authenticated(e, peer, m, salt, signs) =>
                           decapsulated' = decapsulated
                /\ \A peer \in Endpoints : confirm_peer(e, peer, m) => decapsulated' = decapsulated
        BY DEF encapsulate_for_peer, encapsulate_authenticated, confirm_peer
      <3>3. \A e \in Endpoints :
                /\ \A p \in packets : decrypt_packet(e, p) => decapsulated' = decapsulated
                /\ \A q \in HostCommits : HostCommit(e, q) => decapsulated' = decapsulated
        BY Zenon DEF decrypt_packet, HostCommit
      <3>4. PICK e \in Endpoints :
                \/ initiate_handshake(e) \/ get_next_tx_nonce(e) \/ encrypt_packet(e)
                \/ zeroize_session(e)
                \/ \E m \in messages :
                       \/ \E salt \in Salts : encapsulate_for_peer(e, m, salt)
                       \/ \E salt \in Salts, peer \in Endpoints, signs \in BOOLEAN :
                              encapsulate_authenticated(e, peer, m, salt, signs)
                       \/ \E peer \in Endpoints : confirm_peer(e, peer, m)
                \/ \E p \in packets : decrypt_packet(e, p)
                \/ \E q \in HostCommits : HostCommit(e, q)
                \/ \E m \in messages, salt \in Salts, contributory \in BOOLEAN :
                       finalize_handshake(e, m, salt, contributory)
                \/ \E m \in messages, salt \in Salts, peer \in Endpoints, completes \in BOOLEAN :
                       finalize_authenticated(e, peer, m, salt, completes)
        BY DEF Next
      <3> QED  BY <1>5, <3>1, <3>2, <3>3, <3>4
    <2> QED  BY <1>3, <1>4, <2>1
  <1> QED  BY <1>5

\* A step leaves the key pair of an endpoint, gives it up or draws a new one.
LEMMA KeyPairs ==
    ASSUME NEW e \in Endpoints, Kind(e)
    PROVE  /\ draws' \in {draws, draws + 1}
           /\ \A f \in Endpoints :
                  \/ session'[f].handshake_key \in {None, session[f].handshake_key}
                  \/ session'[f].handshake_key = draws' /\ draws' = draws + 1
  <1>1. Alone(e)
    BY KindAlone
  <1>2. \/ session'[e].handshake_key \in {None, session[e].handshake_key}
        \/ session'[e].handshake_key = draws' /\ draws' = draws + 1
    BY DEF Kind, Wipes, Installs, Confirms, Records, Keeps, Sends, SameKeys
  <1> QED  BY <1>1, <1>2 DEF Alone

LEMMA UsedOnceStep ==
    ASSUME NonceInv, UsedOnce, Next
    PROVE  UsedOnce'
  <1>1. /\ draws \in Nat /\ Distinct
        /\ \A f \in Endpoints :
               session[f].handshake_key # None => session[f].handshake_key \in 1 .. draws
    BY DEF NonceInv, TypeInv
  <1>2. PICK e \in Endpoints : Kind(e)
    BY Kinds
  <1>3. /\ draws' \in {draws, draws + 1}
        /\ \A f \in Endpoints :
               \/ session'[f].handshake_key \in {None, session[f].handshake_key}
               \/ session'[f].handshake_key = draws' /\ draws' = draws + 1
    BY <1>2, KeyPairs
  <1>4. None \notin 1 .. draws
    BY <1>1, SessionAssumption
  <1>5. CASE decapsulated' = decapsulated
    <2>1. decapsulated \subseteq 1 .. draws /\ draws + 1 \notin 1 .. draws
          /\ 1 .. draws \subseteq 1 .. draws'
      BY <1>1, <1>3 DEF UsedOnce
    <2>2. ASSUME NEW f \in Endpoints PROVE session'[f].handshake_key \notin decapsulated
      <3>1. session[f].handshake_key \notin decapsulated
        BY DEF UsedOnce
      <3> QED  BY <1>3, <1>4, <2>1, <3>1
    <2> QED  BY <1>5, <2>1, <2>2 DEF UsedOnce
  <1>6. ASSUME NEW g \in Endpoints,
               session[g].handshake_key # None,
               decapsulated' = decapsulated \cup {session[g].handshake_key},
               draws' = draws,
               session'[g].handshake_key = None,
               \A f \in Endpoints \ {g} : session'[f] = session[f]
        PROVE  UsedOnce'
    BY <1>1, <1>4, <1>6 DEF UsedOnce, Distinct
  <1> QED  BY <1>5, <1>6, Decapsulates

-----------------------------------------------------------------------------
\* The replay window.

\* Shifting the window, or setting a bit of it, records one more number.
LEMMA CommitPictures ==
    ASSUME NEW R \in SUBSET Nat, NEW r \in Nat, NEW w, Pictures(r, w, R), NEW q \in Nat
    PROVE  /\ q > r => Pictures(q, {o \in 0 .. Window - 1 : o = 0 \/ o - (q - r) \in w},
                                R \cup {q})
           /\ ~ (q > r) => Pictures(r, w \cup ({r - q} \cap (0 .. Window - 1)), R \cup {q})
  <1>1. Window \in Nat \ {0}
    BY SessionAssumption
  <1>2. CASE R = {} /\ r = 0 /\ w = {}
    BY <1>1, <1>2 DEF Pictures
  <1>3. CASE r \in R /\ (\A t \in R : t <= r) /\ w = {o \in 0 .. Window - 1 : r - o \in R}
    <2>1. ASSUME q > r
          PROVE  Pictures(q, {o \in 0 .. Window - 1 : o = 0 \/ o - (q - r) \in w}, R \cup {q})
      <3>1. \A t \in R \cup {q} : t <= q
        BY <1>3, <2>1
      <3>2. ASSUME NEW o \in 0 .. Window - 1
            PROVE  (o = 0 \/ o - (q - r) \in w) <=> q - o \in R \cup {q}
        <4>1. o - (q - r) \in w <=> o - (q - r) \in 0 .. Window - 1 /\ q - o \in R
          <5>1. r - (o - (q - r)) = q - o
            BY <3>2, <1>1
          <5> QED  BY <1>3, <5>1
        <4>2. q - o \in R => o - (q - r) \in 0 .. Window - 1
          BY <1>1, <1>3, <2>1
        <4> QED  BY <4>1, <4>2
      <3> QED  BY <3>1, <3>2 DEF Pictures
    <2>2. ASSUME ~ (q > r)
          PROVE  Pictures(r, w \cup ({r - q} \cap (0 .. Window - 1)), R \cup {q})
      <3>1. r \in R \cup {q} /\ \A t \in R \cup {q} : t <= r
        BY <1>3, <2>2
      <3>2. w \cup ({r - q} \cap (0 .. Window - 1)) =
                {o \in 0 .. Window - 1 : r - o \in R \cup {q}}
        BY <1>3
      <3> QED  BY <3>1, <3>2 DEF Pictures
    <2> QED  BY <2>1, <2>2
  <1> QED  BY <1>2, <1>3 DEF Pictures

\* And the window decides as the set it pictures does.
LEMMA CheckPictures ==
    ASSUME NEW R \in SUBSET Nat, NEW s, s.rx_counter \in Nat, NEW q \in Nat,
           Pictures(s.rx_counter, s.rx_window, R)
    PROVE  check_rx_nonce(s, q) <=> q \notin R /\ \A t \in R : t - q < Window
  <1>1. Window \in Nat \ {0}
    BY SessionAssumption
  <1> DEFINE r == s.rx_counter
  <1>2. check_rx_nonce(s, q) <=> q > r \/ (r - q < Window /\ r - q \notin s.rx_window)
    BY DEF check_rx_nonce
  <1>3. CASE R = {} /\ r = 0 /\ s.rx_window = {}
    BY <1>1, <1>2, <1>3
  <1>4. CASE r \in R /\ (\A t \in R : t <= r) /\ s.rx_window = {o \in 0 .. Window - 1 : r - o \in R}
    <2>1. CASE q > r
      BY <1>1, <1>2, <1>4, <2>1
    <2>2. CASE ~ (q > r)
      <3>1. r - q < Window => (r - q \in s.rx_window <=> q \in R)
        <4>1. r - (r - q) = q /\ r - q >= 0
          BY <2>2
        <4> QED  BY <1>1, <1>4, <2>2, <4>1
      <3>2. (\A t \in R : t - q < Window) <=> r - q < Window
        BY <1>1, <1>4
      <3> QED  BY <1>2, <2>2, <3>1, <3>2
    <2> QED  BY <2>1, <2>2
  <1> QED  BY <1>3, <1>4 DEF Pictures

LEMMA ReceivedNat ==
    ASSUME AcceptInv, NEW e \in Endpoints
    PROVE  Received(e) \in SUBSET Nat
  BY DEF AcceptInv, Received

\* Nothing was ever accepted under a key that is being installed.
LEMMA FreshKey ==
    ASSUME NonceInv, AcceptInv, NEW e \in Endpoints, NEW secret, NEW side, NEW other, NEW pending,
           Installs(e, secret, side, other, pending)
    PROVE  Received(e)' = {}
  <1>1. /\ secret \in Secrets /\ other \in {"keygen", "encap"}
        /\ session'[e].rx_key = Half(secret, other) /\ accepted' = accepted
        /\ \/ other = "keygen" /\ secret.from = draws + 1
           \/ other = "encap" /\ secret.dk = session[e].handshake_key
    BY DEF Installs
  <1>2. \/ Target(Half(secret, other)) = draws + 1
        \/ Target(Half(secret, other)) = session[e].handshake_key
    BY <1>1, Halves
  <1>3. ASSUME NEW p \in accepted[e] PROVE p.key # Half(secret, other)
    <2>1. Target(p.key) \in 1 .. draws /\ draws \in Nat
      BY DrawnBefore DEF AcceptInv, NonceInv, TypeInv
    <2>2. session[e].handshake_key # Target(p.key)
      BY DEF AcceptInv
    <2> QED  BY <1>2, <2>1, <2>2
  <1> QED  BY <1>1, <1>3 DEF Received

LEMMA WindowStep ==
    ASSUME NonceInv, AcceptInv, WindowInv, NEW e \in Endpoints, Kind(e)
    PROVE  WindowInv'
  <1> DEFINE Good(f) ==
                session[f].is_established =>
                    Pictures(session[f].rx_counter, session[f].rx_window, Received(f))
  <1>1. \A f \in Endpoints : Good(f)
    BY DEF WindowInv
  <1>2. SUFFICES \A f \in Endpoints : Good(f)'
    BY DEF WindowInv
  <1>3. ASSUME NEW f \in Endpoints \ {e} PROVE Good(f)'
    <2>1. session'[f] = session[f] /\ accepted'[f] = accepted[f]
      BY DEF Kind, Wipes, Installs, Confirms, Records, Keeps, Sends, Alone
    <2>2. Received(f)' = Received(f)
      BY <2>1 DEF Received
    <2> QED  BY <1>1, <2>1, <2>2
  <1>4. ASSUME session'[e].is_established = session[e].is_established,
               session'[e].rx_key = session[e].rx_key, accepted' = accepted,
               session'[e].rx_counter = session[e].rx_counter,
               session'[e].rx_window = session[e].rx_window
        PROVE  Good(e)'
    <2>1. Received(e)' = Received(e)
      BY <1>4 DEF Received
    <2> QED  BY <1>1, <1>4, <2>1, Zenon
  <1>5. ASSUME Wipes(e) PROVE Good(e)'
    BY <1>5 DEF Wipes
  <1>6. ASSUME NEW secret, NEW side, NEW other, NEW pending,
               Installs(e, secret, side, other, pending)
        PROVE  Good(e)'
    <2>1. Received(e)' = {} /\ session'[e].rx_counter = 0 /\ session'[e].rx_window = {}
      BY <1>6, FreshKey DEF Installs
    <2> QED  BY <2>1 DEF Pictures
  <1>7. ASSUME Confirms(e) PROVE Good(e)'
    BY <1>4, <1>7 DEF Confirms, Keeps, SameKeys
  <1>8. ASSUME Sends(e) PROVE Good(e)'
    BY <1>4, <1>8 DEF Sends, SameKeys
  <1>9. ASSUME NEW q \in Nat, Records(e, q) PROVE Good(e)'
    <2>1. SUFFICES ASSUME session'[e].is_established
                   PROVE  Pictures(session[e].rx_counter, session[e].rx_window, Received(e))'
      OBVIOUS
    <2>2. session[e].is_established /\ session'[e].rx_key = session[e].rx_key
      BY <1>9, <2>1 DEF Records, Keeps, SameKeys
    <2>3. Received(e)' = Received(e) \cup {q}
      BY <1>9, <2>2 DEF Received, Records
    <2>4. Received(e) \in SUBSET Nat
      BY ReceivedNat
    <2>5. /\ DOMAIN session[e] = DOMAIN Zeroized /\ session[e].rx_counter \in Nat
          /\ session'[e] = commit_rx_nonce(session[e], q)
      BY <1>9 DEF NonceInv, TypeInv, Records
    <2>6. Pictures(session[e].rx_counter, session[e].rx_window, Received(e))
      BY <1>1, <2>2
    <2>7. CASE q > session[e].rx_counter
      <3>1. /\ session'[e].rx_counter = q
            /\ session'[e].rx_window = {o \in 0 .. Window - 1 :
                    o = 0 \/ o - (q - session[e].rx_counter) \in session[e].rx_window}
        BY <2>5, <2>7, CommitFields
      <3>2. Pictures(q, {o \in 0 .. Window - 1 :
                    o = 0 \/ o - (q - session[e].rx_counter) \in session[e].rx_window},
                     Received(e) \cup {q})
        BY <2>4, <2>5, <2>6, <2>7, CommitPictures, Zenon
      <3> QED  BY <2>3, <3>1, <3>2
    <2>8. CASE ~ (q > session[e].rx_counter)
      <3>1. /\ session'[e].rx_counter = session[e].rx_counter
            /\ session'[e].rx_window = session[e].rx_window \cup
                    ({session[e].rx_counter - q} \cap (0 .. Window - 1))
        BY <2>5, <2>8, CommitFields
      <3>2. Pictures(session[e].rx_counter, session[e].rx_window \cup
                         ({session[e].rx_counter - q} \cap (0 .. Window - 1)),
                     Received(e) \cup {q})
        BY <2>4, <2>5, <2>6, <2>8, CommitPictures, Zenon
      <3> QED  BY <2>3, <3>1, <3>2
    <2> QED  BY <2>7, <2>8
  <1>10. Good(e)'
    BY <1>5, <1>6, <1>7, <1>8, <1>9 DEF Kind
  <1> QED  BY <1>3, <1>10

-----------------------------------------------------------------------------
\* Authentication.

\* Symbolic signatures, tags, digests and bindings are injective.
LEMMA SameSignature ==
    ASSUME NEW a, NEW b, NEW c, NEW d, Signature(a, b) = Signature(c, d)
    PROVE  a = c /\ b = d
  BY DEF Signature

LEMMA SameBinding ==
    ASSUME NEW a, NEW b, NEW c, NEW d, handshake_binding(a, b) = handshake_binding(c, d)
    PROVE  a = c /\ b = d
  BY DEF handshake_binding

LEMMA SameDigest ==
    ASSUME NEW side, NEW d1, NEW d2, NEW t1, NEW t2, NEW s1, NEW s2,
           Digest(side, d1, confirmation_tag(s1, side, t1)) =
               Digest(side, d2, confirmation_tag(s2, side, t2))
    PROVE  s1 = s2 /\ d1 = d2
  BY DEF Digest, confirmation_tag

\* A signed tag determines the secret.
LEMMA SameEncap ==
    ASSUME NEW peer, NEW by, NEW transcript, NEW secret, NEW secret2,
           Signature(peer, Digest("encap", transcript,
                                  confirmation_tag(secret2, "encap", transcript))) =
               Signature(by, EncapDigest(secret))
    PROVE  /\ by = peer /\ secret = secret2
           /\ EncapDigest(secret) = Digest("encap", transcript,
                                           confirmation_tag(secret2, "encap", transcript))
  <1>1. /\ by = peer
        /\ Digest("encap", transcript, confirmation_tag(secret2, "encap", transcript)) =
               EncapDigest(secret)
    BY SameSignature
  <1> QED  BY <1>1, SameDigest DEF EncapDigest

LEMMA SameKeygen ==
    ASSUME NEW peer, NEW by, NEW digest, NEW secret, NEW secret2,
           Signature(peer, Digest("keygen", digest, confirmation_tag(secret2, "keygen", digest))) =
               Signature(by, KeygenDigest(secret))
    PROVE  by = peer /\ secret = secret2
  <1>1. /\ by = peer
        /\ Digest("keygen", digest, confirmation_tag(secret2, "keygen", digest)) =
               KeygenDigest(secret)
    BY SameSignature
  <1> QED  BY <1>1, SameDigest DEF KeygenDigest

\* What stays true because runs are never forgotten.
LEMMA RunsKept ==
    ASSUME AuthInv, runs \subseteq runs'
    PROVE  /\ \A m \in messages : MessageOK(m)'
           /\ \A e \in Endpoints : \A secret : Proved(e, secret) => Proved(e, secret)'
           /\ \A p \in packets : p.key.secret.info # Anonymous =>
                  \E r \in runs' : /\ r.step = "finalized" /\ r.secret = p.key.secret
                                   /\ p.from \in {r.by, r.peer}
  <1>1. ASSUME NEW m \in messages PROVE MessageOK(m)'
    BY DEF AuthInv, MessageOK, Signed
  <1>2. ASSUME NEW e \in Endpoints, NEW secret, Proved(e, secret) PROVE Proved(e, secret)'
    BY <1>2 DEF Proved
  <1>3. ASSUME NEW p \in packets, p.key.secret.info # Anonymous
        PROVE  \E r \in runs' : /\ r.step = "finalized" /\ r.secret = p.key.secret
                                /\ p.from \in {r.by, r.peer}
    BY <1>3 DEF AuthInv, SilentUntilProved
  <1> QED  BY <1>1, <1>2, <1>3

\* A step has to see to what it adds.
LEMMA AuthFrame ==
    ASSUME AuthInv, runs \subseteq runs', NEW e \in Endpoints, Alone(e), RunsOK', Agreement',
           \A m \in messages' \ messages : MessageOK(m)',
           PendingOK(e)', ProvedOK(e)', packets' = packets
    PROVE  AuthInv'
  <1>1. \A m \in messages' : MessageOK(m)'
    BY RunsKept
  <1>2. ASSUME NEW f \in Endpoints PROVE PendingOK(f)' /\ ProvedOK(f)'
    <2>1. CASE f # e
      <3>1. session'[f] = session[f] /\ PendingOK(f) /\ ProvedOK(f)
        BY <2>1, Zenon DEF Alone, AuthInv
      <3> QED  BY <3>1, RunsKept DEF PendingOK, ProvedOK
    <2> QED  BY <2>1
  <1>3. SilentUntilProved'
    BY RunsKept DEF SilentUntilProved
  <1> QED  BY <1>1, <1>2, <1>3 DEF AuthInv

\* Steps that touch neither the runs nor the signatures.
LEMMA AuthUntouched ==
    ASSUME AuthInv, NEW e \in Endpoints, Alone(e), runs' = runs, packets' = packets,
           \A m \in messages' \ messages :
               \/ m.type = "keygen"
               \/ m.type = "encap" /\ m.signature = Signature(None, None),
           \/ ~ session'[e].is_established /\ session'[e].pending_auth = None
           \/ SameKeys(e) /\ session'[e].pending_auth = session[e].pending_auth
           \/ session'[e].pending_auth = None /\ session'[e].tx_key.secret.info = Anonymous
    PROVE  AuthInv'
  <1>1. Agreement' /\ RunsOK'
    BY DEF AuthInv, Agreement, RunsOK
  <1>2. \A m \in messages' \ messages : MessageOK(m)'
    BY DEF MessageOK
  <1>3. PendingOK(e) /\ ProvedOK(e)
    BY DEF AuthInv
  <1>4. PendingOK(e)'
    BY <1>3 DEF PendingOK, SameKeys
  <1>5. ProvedOK(e)'
    BY <1>3, RunsKept, Zenon DEF ProvedOK, SameKeys
  <1> QED  BY <1>1, <1>2, <1>4, <1>5, AuthFrame

\* What awaits a proof is not None.
LEMMA PendingIsSome ==
    ASSUME NEW secret \in Secrets, NEW e \in Endpoints, NEW peer \in Endpoints,
           secret.info = handshake_binding(peer, e)
    PROVE  [digest |-> EncapDigest(secret), peer_identity |-> peer,
            confirmation_key |-> secret] # None
  <1> DEFINE T == transcript_hash(secret.info, secret.dk, [to |-> secret.dk, from |-> secret.from])
  <1>1. /\ secret.dk \in Nat /\ secret.from \in Nat
        /\ secret.info \in [keygen : Endpoints, encapsulator : Endpoints]
    BY DEF Secrets, handshake_binding
  <1>2. T \in Transcripts
    BY <1>1 DEF transcript_hash, Transcripts
  <1> HIDE DEF T
  <1>3. confirmation_tag(secret, "encap", T) \in Secrets \X {"encap"} \X Transcripts
    BY <1>2 DEF confirmation_tag
  <1>4. Digest("encap", T, confirmation_tag(secret, "encap", T)) \in
            {"encap"} \X Transcripts \X (Secrets \X {"encap"} \X Transcripts)
    BY <1>2, <1>3 DEF Digest
  <1>5. EncapDigest(secret) = Digest("encap", T, confirmation_tag(secret, "encap", T))
    BY DEF EncapDigest, T
  <1>6. [digest |-> EncapDigest(secret), peer_identity |-> peer, confirmation_key |-> secret]
            \in PendingAuths
    BY <1>4, <1>5 DEF PendingAuths
  <1> QED  BY <1>6, OptionAssumption

LEMMA AuthEncapsulate ==
    ASSUME TypeInv, AuthInv, NEW e \in Endpoints, NEW peer \in Endpoints, NEW m \in messages,
           NEW salt \in Salts, encapsulate_authenticated(e, peer, m, salt, TRUE)
    PROVE  AuthInv'
  <1> DEFINE sec == derive_hybrid_key(m.pk, draws', salt, handshake_binding(peer, e))
  <1>1. PICK secret : secret = sec
    OBVIOUS
  <1> DEFINE pending == [digest |-> EncapDigest(secret), peer_identity |-> peer,
                         confirmation_key |-> secret]
             run == [step |-> "encapsulated", by |-> e, peer |-> peer, secret |-> secret]
  <1>2. /\ Installs(e, secret, "encap", "keygen", pending)
        /\ secret.info = handshake_binding(peer, e)
        /\ \E n : /\ messages' = messages \cup {n}
                  /\ n.type = "encap" /\ n.signature = Signature(e, EncapDigest(secret))
        /\ runs' = runs \cup {run}
    BY <1>1, AuthenticatedInstalls, Zenon
  <1>3. PICK n : /\ messages' = messages \cup {n}
                 /\ n.type = "encap" /\ n.signature = Signature(e, EncapDigest(secret))
    BY <1>2
  <1>4. run.step = "encapsulated" /\ run.by = e /\ run.peer = peer /\ run.secret = secret
    OBVIOUS
  <1>5. /\ pending # None /\ pending.digest = EncapDigest(secret)
        /\ pending.peer_identity = peer /\ pending.confirmation_key = secret
    BY <1>2, PendingIsSome, Zenon DEF Installs
  <1> HIDE DEF run, pending
  <1>6. MessageOK(n)'
    BY <1>2, <1>3, <1>4 DEF MessageOK, Signed
  <1>7. Agreement' /\ RunsOK'
    BY <1>2, <1>4 DEF AuthInv, Agreement, RunsOK, run
  <1>8. /\ session'[e].is_established /\ session'[e].pending_auth = pending
        /\ session'[e].tx_key.secret = secret /\ Alone(e) /\ packets' = packets
    BY <1>2, InstalledFields
  <1>9. PendingOK(e)' /\ ProvedOK(e)'
    BY <1>2, <1>5, <1>8 DEF PendingOK, ProvedOK
  <1> QED  BY <1>2, <1>3, <1>6, <1>7, <1>8, <1>9, AuthFrame

\* The peer's signature and tag together name the run the peer encapsulated in.
LEMMA AuthFinalize ==
    ASSUME TypeInv, AuthInv, NEW e \in Endpoints, NEW peer \in Endpoints, NEW m \in messages,
           NEW salt \in Salts, NEW completes, finalize_authenticated(e, peer, m, salt, completes),
           session' # [session EXCEPT ![e] = Zeroized]
    PROVE  AuthInv'
  <1> DEFINE dk == session[e].handshake_key
             info == handshake_binding(e, peer)
             transcript == transcript_hash(info, dk, m.ct)
             digest == Digest("encap", transcript, m.confirmation)
  <1>1. PICK secret : secret = derive_hybrid_key(dk, m.ct.from, salt, info)
    OBVIOUS
  <1> DEFINE run == [step |-> "finalized", by |-> e, peer |-> peer, secret |-> secret]
             tag == confirmation_tag(secret, "keygen", digest)
  <1> PICK n : n = [type |-> "proof", confirmation |-> tag,
                    signature |-> Signature(e, Digest("keygen", digest, tag))]
    BY Zenon
  <1>2. /\ dk # None /\ m.type = "encap" /\ m.signature = Signature(peer, digest)
        /\ m.confirmation = confirmation_tag(secret, "encap", transcript)
        /\ session' = [session EXCEPT ![e] = Established(secret, "keygen", "encap")]
        /\ messages' = messages \cup {n} /\ runs' = runs \cup {run}
        /\ UNCHANGED <<draws, packets, assigned, accepted>>
    BY <1>1 DEF finalize_authenticated
  <1>3. Installs(e, secret, "keygen", "encap", None) /\ secret.info = info
    <2>1. info \in [keygen : Endpoints \cup {None}, encapsulator : Endpoints \cup {None}]
      BY DEF handshake_binding
    <2> HIDE DEF info
    <2>2. \A x \in messages' : x \in messages \/ x.type = "proof"
      BY <1>2
    <2>3. session' = [session EXCEPT ![e] =
                         Established(derive_hybrid_key(session[e].handshake_key, m.ct.from,
                                                       salt, info), "keygen", "encap")]
      BY <1>1, <1>2
    <2>4. /\ derive_hybrid_key(session[e].handshake_key, m.ct.from, salt, info).info = info
          /\ Installs(e, derive_hybrid_key(session[e].handshake_key, m.ct.from, salt, info),
                      "keygen", "encap", None)
      BY <1>2, <2>1, <2>2, <2>3, FinalizeInstalls, Zenon
    <2> QED  BY <1>1, <2>4
  <1>4. run.step = "finalized" /\ run.by = e /\ run.peer = peer /\ run.secret = secret
    OBVIOUS
  <1>5. n.type = "proof" /\ n.signature = Signature(e, Digest("keygen", digest, tag))
    OBVIOUS
  <1>6. PICK r \in runs : /\ r.step = "encapsulated"
                          /\ m.signature = Signature(r.by, EncapDigest(r.secret))
                          /\ r.secret.info = handshake_binding(r.peer, r.by)
    <2>1. m.signature # Signature(None, None)
      BY <1>2, SameSignature, SessionAssumption
    <2> QED  BY <1>2, <2>1 DEF AuthInv, MessageOK, Signed
  <1>7. r.by = peer /\ r.secret = secret /\ digest = EncapDigest(secret)
    <2>1. digest = Digest("encap", transcript, confirmation_tag(secret, "encap", transcript))
      BY <1>2, Zenon
    <2>2. Signature(peer, Digest("encap", transcript,
                                 confirmation_tag(secret, "encap", transcript))) =
              Signature(r.by, EncapDigest(r.secret))
      BY <1>2, <1>6, <2>1, Zenon
    <2> HIDE DEF transcript, digest
    <2>3. /\ r.by = peer /\ r.secret = secret
          /\ EncapDigest(r.secret) = Digest("encap", transcript,
                                            confirmation_tag(secret, "encap", transcript))
      BY <2>2, SameEncap
    <2> QED  BY <2>1, <2>3, Zenon
  <1>9. r.peer = e
    <2>1. handshake_binding(r.peer, r.by) = handshake_binding(e, peer)
      BY <1>3, <1>6, <1>7
    <2> QED  BY <2>1, SameBinding
  <1>10. n.signature = Signature(e, KeygenDigest(secret))
    BY <1>5, <1>7 DEF KeygenDigest
  <1> HIDE DEF run, info
  <1>11. MessageOK(n)'
    BY <1>2, <1>3, <1>4, <1>5, <1>10 DEF MessageOK, Signed, info
  <1>12. Agreement' /\ RunsOK'
    <2>1. [step |-> "encapsulated", by |-> peer, peer |-> e, secret |-> secret] \in runs
      BY <1>6, <1>7, <1>9 DEF AuthInv, RunsOK
    <2>2. Agreement'
      BY <1>2, <1>4, <2>1, Zenon DEF AuthInv, Agreement
    <2>3. RunsOK'
      BY <1>2, <1>4 DEF AuthInv, RunsOK, run
    <2> QED  BY <2>2, <2>3
  <1>13. /\ session'[e].is_established /\ session'[e].pending_auth = None
         /\ session'[e].tx_key.secret = secret /\ Alone(e)
    BY <1>3, InstalledFields
  <1>14. PendingOK(e)' /\ ProvedOK(e)'
    BY <1>2, <1>4, <1>13 DEF PendingOK, ProvedOK, Proved
  <1> QED  BY <1>2, <1>11, <1>12, <1>13, <1>14, AuthFrame

\* And the proof names the run the peer finalized in.
LEMMA AuthConfirm ==
    ASSUME TypeInv, AuthInv, NEW e \in Endpoints, NEW peer \in Endpoints, NEW m \in messages,
           confirm_peer(e, peer, m), session' # [session EXCEPT ![e] = Zeroized]
    PROVE  AuthInv'
  <1>1. PICK pending : pending = session[e].pending_auth
    OBVIOUS
  <1> DEFINE run == [step |-> "confirmed", by |-> e, peer |-> peer,
                     secret |-> pending.confirmation_key]
  <1>2. /\ pending # None /\ m.type = "proof" /\ peer = pending.peer_identity
        /\ m.signature = Signature(peer, Digest("keygen", pending.digest, m.confirmation))
        /\ m.confirmation = confirmation_tag(pending.confirmation_key, "keygen", pending.digest)
        /\ session' = [session EXCEPT ![e].pending_auth = None]
        /\ runs' = runs \cup {run}
        /\ UNCHANGED <<draws, messages, packets, assigned, accepted>>
    BY <1>1 DEF confirm_peer
  <1>3. Keeps(e) /\ session'[e].pending_auth = None
    BY <1>2, ConfirmKeeps, Zenon
  <1>4. /\ run.step = "confirmed" /\ run.by = e /\ run.peer = peer
        /\ run.secret = pending.confirmation_key
    OBVIOUS
  <1>5. /\ session[e].is_established /\ pending.confirmation_key = session[e].tx_key.secret
        /\ pending.confirmation_key.info = handshake_binding(peer, e)
    BY <1>1, <1>2 DEF AuthInv, PendingOK
  <1>6. PICK r \in runs : /\ r.step = "finalized"
                          /\ m.signature = Signature(r.by, KeygenDigest(r.secret))
                          /\ r.secret.info = handshake_binding(r.by, r.peer)
    BY <1>2 DEF AuthInv, MessageOK, Signed
  <1>7. r.by = peer /\ r.secret = pending.confirmation_key
    BY <1>2, <1>6, SameKeygen
  <1>8. r.peer = e
    BY <1>5, <1>6, <1>7, SameBinding
  <1> HIDE DEF run
  <1>9. Agreement'
    <2>1. [step |-> "finalized", by |-> peer, peer |-> e,
           secret |-> pending.confirmation_key] \in runs
      BY <1>6, <1>7, <1>8 DEF AuthInv, RunsOK
    <2> QED  BY <1>2, <1>4, <2>1, Zenon DEF AuthInv, Agreement
  <1>10. RunsOK'
    BY <1>2, <1>4 DEF AuthInv, RunsOK, run
  <1>11. PendingOK(e)'
    BY <1>3 DEF PendingOK
  <1>12. ProvedOK(e)'
    <2>1. session'[e].tx_key.secret = r.secret
      BY <1>3, <1>5, <1>7 DEF Keeps, SameKeys
    <2> QED  BY <1>2, <1>6, <1>8, <2>1 DEF ProvedOK, Proved
  <1> QED  BY <1>2, <1>3, <1>9, <1>10, <1>11, <1>12, AuthFrame DEF Keeps

LEMMA AuthEncrypt ==
    ASSUME TypeInv, AuthInv, NEW e \in Endpoints, encrypt_packet(e)
    PROVE  AuthInv'
  <1>1. PICK n : n = NextNonce(e)
    OBVIOUS
  <1>2. /\ session[e].is_established /\ session[e].pending_auth = None
        /\ packets' = packets \cup {n} /\ runs' = runs /\ messages' = messages
    BY <1>1 DEF encrypt_packet
  <1>3. Alone(e) /\ SameKeys(e) /\ session'[e].pending_auth = session[e].pending_auth
    BY NonceSends DEF Sends
  <1>4. n.key = session[e].tx_key /\ n.from = e
    BY <1>1 DEF NextNonce
  <1>5. PendingOK(e) /\ ProvedOK(e)
    BY DEF AuthInv
  <1>6. n.key.secret.info # Anonymous =>
            \E r \in runs : /\ r.step = "finalized" /\ r.secret = n.key.secret
                            /\ n.from \in {r.by, r.peer}
    BY <1>2, <1>4, <1>5 DEF ProvedOK, Proved
  <1>7. SilentUntilProved'
    BY <1>2, <1>6 DEF AuthInv, SilentUntilProved
  <1>8. \A m \in messages' : MessageOK(m)'
    BY <1>2, RunsKept
  <1>9. ASSUME NEW f \in Endpoints PROVE PendingOK(f)' /\ ProvedOK(f)'
    <2>1. /\ session'[f].is_established = session[f].is_established
          /\ session'[f].pending_auth = session[f].pending_auth
          /\ session'[f].tx_key = session[f].tx_key
      BY <1>3 DEF Alone, SameKeys
    <2> QED  BY <1>2, <2>1, RunsKept, Zenon DEF AuthInv, PendingOK, ProvedOK
  <1>10. Agreement' /\ RunsOK'
    BY <1>2 DEF AuthInv, Agreement, RunsOK
  <1> QED  BY <1>7, <1>8, <1>9, <1>10 DEF AuthInv

LEMMA AuthStep ==
    ASSUME NonceInv, AuthInv, Next
    PROVE  AuthInv'
  <1>1. TypeInv
    BY DEF NonceInv
  <1>2. ASSUME NEW e \in Endpoints, session' = [session EXCEPT ![e] = Zeroized],
               draws' \in {draws, draws + 1},
               UNCHANGED <<messages, packets, assigned, accepted, runs>>
        PROVE  AuthInv'
    <2>1. Wipes(e)
      BY <1>1, <1>2, ZeroizeWipes, Zenon
    <2> QED  BY <1>2, <2>1, AuthUntouched DEF Wipes
  <1>3. ASSUME NEW e \in Endpoints, initiate_handshake(e) PROVE AuthInv'
    <2>1. Wipes(e)
      BY <1>1, <1>3, InitiateWipes
    <2>2. \A m \in messages' \ messages : m.type = "keygen"
      BY <1>3 DEF initiate_handshake
    <2> QED  BY <1>3, <2>1, <2>2, AuthUntouched DEF Wipes, initiate_handshake
  <1>4. ASSUME NEW e \in Endpoints, NEW m \in messages, NEW salt \in Salts,
               encapsulate_for_peer(e, m, salt)
        PROVE  AuthInv'
    <2>1. PICK secret : /\ Installs(e, secret, "encap", "keygen", None)
                        /\ secret.info = Anonymous
      BY <1>1, <1>4, EncapsulateInstalls
    <2>2. \A n \in messages' \ messages : n.type = "encap" /\ n.signature = Signature(None, None)
      BY <1>4 DEF encapsulate_for_peer
    <2>3. /\ session'[e].pending_auth = None /\ session'[e].tx_key.secret.info = Anonymous
          /\ Alone(e) /\ packets' = packets
      BY <2>1, InstalledFields
    <2>4. runs' = runs
      BY <1>4 DEF encapsulate_for_peer
    <2> QED  BY <2>2, <2>3, <2>4, AuthUntouched
  <1>5. ASSUME NEW e \in Endpoints, NEW m \in messages, NEW salt \in Salts,
               NEW contributory \in BOOLEAN, finalize_handshake(e, m, salt, contributory)
        PROVE  AuthInv'
    <2>1. CASE contributory
      <3>1. Anonymous \in [keygen : Endpoints \cup {None}, encapsulator : Endpoints \cup {None}]
        BY DEF Anonymous
      <3>2. /\ session[e].handshake_key # None /\ m.type = "encap" /\ draws' = draws
            /\ session' = [session EXCEPT ![e] =
                   Established(derive_hybrid_key(session[e].handshake_key, m.ct.from, salt,
                                                 Anonymous), "keygen", "encap")]
            /\ UNCHANGED <<messages, packets, assigned, accepted, runs>>
        BY <1>5, <2>1 DEF finalize_handshake
      <3>3. PICK secret : /\ Installs(e, secret, "keygen", "encap", None)
                          /\ secret.info = Anonymous
        BY <1>1, <3>1, <3>2, FinalizeInstalls, Zenon
      <3>4. /\ session'[e].pending_auth = None /\ session'[e].tx_key.secret.info = Anonymous
            /\ Alone(e)
        BY <3>3, InstalledFields
      <3> QED  BY <3>2, <3>4, AuthUntouched
    <2>2. CASE ~ contributory
      BY <1>2, <1>5, <2>2, Zenon DEF finalize_handshake
    <2> QED  BY <2>1, <2>2
  <1>6. ASSUME NEW e \in Endpoints, NEW m \in messages, NEW salt \in Salts,
               NEW peer \in Endpoints, NEW signs \in BOOLEAN,
               encapsulate_authenticated(e, peer, m, salt, signs)
        PROVE  AuthInv'
    <2>1. CASE signs = TRUE
      BY <1>1, <1>6, <2>1, AuthEncapsulate, Zenon
    <2>2. CASE signs = FALSE
      BY <1>2, <1>6, <2>2 DEF encapsulate_authenticated
    <2> QED  BY <2>1, <2>2, Zenon
  <1>7. ASSUME NEW e \in Endpoints, NEW m \in messages, NEW salt \in Salts,
               NEW peer \in Endpoints, NEW completes \in BOOLEAN,
               finalize_authenticated(e, peer, m, salt, completes)
        PROVE  AuthInv'
    <2>1. CASE session' = [session EXCEPT ![e] = Zeroized]
      <3>1. UNCHANGED <<draws, messages, packets, assigned, accepted, runs>>
        <4>1. Established(derive_hybrid_key(session[e].handshake_key, m.ct.from, salt,
                              handshake_binding(e, peer)), "keygen", "encap") # Zeroized
          BY Zenon DEF Established, Zeroized
        <4>2. session'[e] = Zeroized /\ DOMAIN session = Endpoints
          BY <1>1, <2>1 DEF TypeInv
        <4> QED  BY <1>7, <4>1, <4>2 DEF finalize_authenticated
      <3> QED  BY <1>2, <2>1, <3>1, Zenon
    <2>2. CASE session' # [session EXCEPT ![e] = Zeroized]
      BY <1>1, <1>7, <2>2, AuthFinalize
    <2> QED  BY <2>1, <2>2
  <1>8. ASSUME NEW e \in Endpoints, NEW m \in messages, NEW peer \in Endpoints,
               confirm_peer(e, peer, m)
        PROVE  AuthInv'
    <2>1. CASE session' = [session EXCEPT ![e] = Zeroized]
      <3>1. UNCHANGED <<draws, messages, packets, assigned, accepted, runs>>
        <4>1. session[e].is_established
          BY <1>8 DEF confirm_peer, AuthInv, PendingOK
        <4>2. session' = [session EXCEPT ![e].pending_auth = None] =>
                  session'[e].is_established = session[e].is_established
          BY <1>1, ConfirmKeeps DEF TypeInv, Zeroized
        <4>3. ~ session'[e].is_established
          BY <1>1, <2>1 DEF TypeInv, Zeroized
        <4> QED  BY <1>8, <4>1, <4>2, <4>3, Zenon DEF confirm_peer
      <3> QED  BY <1>2, <2>1, <3>1, Zenon
    <2>2. CASE session' # [session EXCEPT ![e] = Zeroized]
      BY <1>1, <1>8, <2>2, AuthConfirm
    <2> QED  BY <2>1, <2>2
  <1>9. ASSUME NEW e \in Endpoints, get_next_tx_nonce(e) PROVE AuthInv'
    <2>1. Sends(e) /\ UNCHANGED <<messages, packets, runs>>
      BY <1>1, <1>9, NonceSends, Zenon DEF get_next_tx_nonce
    <2> QED  BY <2>1, AuthUntouched DEF Sends
  <1>10. ASSUME NEW e \in Endpoints, encrypt_packet(e) PROVE AuthInv'
    BY <1>1, <1>10, AuthEncrypt
  <1>11. ASSUME NEW e \in Endpoints, NEW q, Records(e, q), UNCHANGED <<messages, runs>>
         PROVE  AuthInv'
    BY <1>11, AuthUntouched DEF Records, Keeps, Silent
  <1>12. ASSUME NEW e \in Endpoints, NEW p \in packets, decrypt_packet(e, p) PROVE AuthInv'
    BY <1>11, <1>12, DecryptRecords, Zenon DEF decrypt_packet
  <1>13. ASSUME NEW e \in Endpoints, NEW q \in HostCommits, HostCommit(e, q) PROVE AuthInv'
    BY <1>11, <1>13, HostRecords, Zenon DEF HostCommit
  <1>14. ASSUME NEW e \in Endpoints, zeroize_session(e) PROVE AuthInv'
    BY <1>2, <1>14, Zenon DEF zeroize_session
  <1> QED  BY <1>3, <1>4, <1>5, <1>6, <1>7, <1>8, <1>9, <1>10, <1>12, <1>13, <1>14 DEF Next

-----------------------------------------------------------------------------
SessionInv == NonceInv /\ UsedOnce /\ AcceptInv /\ WindowInv /\ AuthInv

LEMMA SessionInit == Init => SessionInv
  <1> SUFFICES ASSUME Init PROVE SessionInv
    OBVIOUS
  <1>1. \A e \in Endpoints : session[e] = Zeroized /\ accepted[e] = {}
    BY DEF Init
  <1>2. /\ Zeroized.handshake_key = None /\ Zeroized.is_established = FALSE
        /\ Zeroized.tx_key = None /\ Zeroized.rx_key = None /\ Zeroized.pending_auth = None
        /\ Zeroized.tx_counter = 0 /\ Zeroized.rx_counter = 0
    BY DEF Zeroized
  <1>3. TypeInv
    <2>1. /\ draws = 0 /\ messages = {}
          /\ DOMAIN session = Endpoints /\ DOMAIN accepted = Endpoints
      BY DEF Init
    <2> QED  BY <1>1, <1>2, <2>1 DEF TypeInv
  <1>4. OneSecret /\ Distinct
    BY <1>1, <1>2 DEF OneSecret, HoldsOneSecret, Distinct
  <1>5. NonceInv
    BY <1>3, <1>4 DEF Init, NonceInv, NonceUnique
  <1>6. UsedOnce /\ AcceptInv /\ WindowInv
    BY <1>1, <1>2 DEF Init, UsedOnce, AcceptInv, WindowInv
  <1>7. \A e \in Endpoints : PendingOK(e) /\ ProvedOK(e)
    BY <1>1, <1>2 DEF PendingOK, ProvedOK
  <1> QED  BY <1>5, <1>6, <1>7 DEF Init, SessionInv, AuthInv, RunsOK, Agreement, SilentUntilProved

LEMMA SessionStep == SessionInv /\ [Next]_vars => SessionInv'
  <1> SUFFICES ASSUME SessionInv, [Next]_vars PROVE SessionInv'
    OBVIOUS
  <1>1. NonceInv /\ UsedOnce /\ AcceptInv /\ WindowInv /\ AuthInv
    BY DEF SessionInv
  <1>2. CASE Next
    <2>1. PICK e \in Endpoints : Kind(e)
      BY <1>1, <1>2, Kinds
    <2>2. NonceInv' /\ AcceptInv' /\ WindowInv'
      BY <1>1, <2>1, NonceStep, AcceptStep, WindowStep
    <2>3. UsedOnce'
      BY <1>1, <1>2, UsedOnceStep
    <2>4. AuthInv'
      BY <1>1, <1>2, AuthStep
    <2> QED  BY <2>2, <2>3, <2>4 DEF SessionInv
  <1>3. CASE UNCHANGED vars
    <2>1. NonceInv'
      <3>1. TypeInv'
        BY <1>1, <1>3 DEF vars, NonceInv, TypeInv, Drawn
      <3>2. OneSecret' /\ Distinct' /\ NonceUnique'
        BY <1>1, <1>3 DEF vars, NonceInv, OneSecret, HoldsOneSecret, Distinct, NonceUnique
      <3>3. \A n \in assigned : n.key # None => Spent(n)' /\ OneWay(n)'
        BY <1>1, <1>3 DEF vars, NonceInv, Spent, OneWay, Drawn
      <3> QED  BY <1>1, <1>3, <3>1, <3>2, <3>3 DEF vars, NonceInv
    <2>2. UsedOnce' /\ AcceptInv' /\ WindowInv'
      BY <1>1, <1>3 DEF vars, UsedOnce, AcceptInv, WindowInv, Drawn, Received
    <2>3. AuthInv'
      BY <1>1, <1>3 DEF vars, AuthInv, RunsOK, MessageOK, Signed, PendingOK, ProvedOK, Proved,
                        Agreement, SilentUntilProved
    <2> QED  BY <2>1, <2>2, <2>3 DEF SessionInv
  <1> QED  BY <1>2, <1>3

\* Whatever messages and packets arrive, in whatever order and how often, and whenever
\* sessions are started, wiped or abandoned, SessionInv holds.
THEOREM SessionInvariant == Spec => []SessionInv
  BY SessionInit, SessionStep, PTL DEF Spec

\* A manager holds one secret, or one key pair, or nothing; and no key pair is held
\* any more once it has been used on a ciphertext, however the handshake ended.
THEOREM SecretsReplaced == Spec => []OneSecretAtATime
  <1>1. SessionInv => OneSecretAtATime
    BY DEF SessionInv, NonceInv, OneSecret, UsedOnce, OneSecretAtATime
  <1> QED  BY <1>1, SessionInvariant, PTL

\* No nonce is used twice under one key.
THEOREM NoncesUnique == Spec => []NonceUnique
  <1>1. SessionInv => NonceUnique
    BY DEF SessionInv, NonceInv
  <1> QED  BY <1>1, SessionInvariant, PTL

\* No endpoint accepts a packet of its own.
THEOREM NothingReflected == Spec => []NoReflection
  <1>1. SessionInv => NoReflection
    BY DEF SessionInv, AcceptInv, NoReflection
  <1> QED  BY <1>1, SessionInvariant, PTL

\* The replay window accepts exactly the numbers it should, for every width.
THEOREM WindowIsExact == Spec => []WindowExact
  <1>1. SessionInv => WindowExact
    <2>1. SUFFICES ASSUME SessionInv, NEW e \in Endpoints, session[e].is_established,
                          NEW q \in 0 .. MaxCounter
                   PROVE  check_rx_nonce(session[e], q) <=>
                              q \notin Received(e) /\ \A t \in Received(e) : t - q < Window
      BY DEF WindowExact
    <2>2. /\ Received(e) \in SUBSET Nat /\ session[e].rx_counter \in Nat /\ q \in Nat
          /\ Pictures(session[e].rx_counter, session[e].rx_window, Received(e))
      <3>1. Received(e) \in SUBSET Nat
        BY <2>1, ReceivedNat DEF SessionInv
      <3>2. session[e].rx_counter \in Nat
        BY <2>1 DEF SessionInv, NonceInv, TypeInv
      <3> QED  BY <2>1, <3>1, <3>2, SessionAssumption DEF SessionInv, WindowInv
    <2> QED  BY <2>2, CheckPictures
  <1> QED  BY <1>1, SessionInvariant, PTL

\* The two sides of an authenticated handshake agree on the secret and on each other.
THEOREM SidesAgree == Spec => []Agreement
  <1>1. SessionInv => Agreement
    BY DEF SessionInv, AuthInv
  <1> QED  BY <1>1, SessionInvariant, PTL

\* Nothing is encrypted under an authenticated secret before it is proved.
THEOREM ProvedBeforeUse == Spec => []SilentUntilProved
  <1>1. SessionInv => SilentUntilProved
    BY DEF SessionInv, AuthInv
  <1> QED  BY <1>1, SessionInvariant, PTL
=============================================================================
