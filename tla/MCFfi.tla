-------------------------------- MODULE MCFfi --------------------------------
(***************************************************************************)
(* Calls in which all arguments but two are parked at addresses of their   *)
(* own, and those two are anywhere: the checks compare arguments in pairs. *)
(* Only the ranges that move have unusual lengths.                         *)
(***************************************************************************)
EXTENDS FfiCall, FiniteSets, TLC

CONSTANT Lengths  \* bound: the lengths hosts pass

ByteArrays == {"entropy", "seed", "nonce", "enc_key", "mac_key", "key", "prk", "chunk",
               "peer_confirmation", "out_confirmation"}

MCSize == [r \in Roles \ Ranges |-> IF r \in ByteArrays THEN 1 ELSE 2]

MCAlign == [r \in Roles |-> IF r \in ByteArrays \cup Ranges THEN 1 ELSE 2]

\* Arguments lie one after the other; a backing region needs a page.
RECURSIVE LaidOut(_, _, _)
LaidOut(roles, at, stride) ==
    IF roles = {} THEN <<>>
    ELSE LET r == CHOOSE r \in roles : TRUE
         IN  (r :> at) @@ LaidOut(roles \ {r}, at + stride, stride)

Parked(f) ==
    LET stride == IF Cardinality(Args(f)) <= 4 THEN Page ELSE 2
    IN  LaidOut(Args(f), stride, stride)

Usual == [l \in {LengthArg(r) : r \in Ranges} |->
             CASE l = "memory_base" -> Slots * SlotSize
               [] l \in {"out", "bytes"} -> WireLen
               [] OTHER -> 1]

\* `first` is anywhere, `second` in its place or at an end of the address space.
Edges == {0, 1, AddressSpace - 2, AddressSpace - 1}

CallsOf(e, first, second) ==
    LET f == Functions[e]
        parked == Parked(f)
        lens == {LengthArg(r) : r \in Args(f) \cap Ranges}
        varied == {LengthArg(r) : r \in {first, second} \cap Ranges}
    IN  [entry : {e},
         ptr : {[parked EXCEPT ![second] = b, ![first] = a] :
                    a \in Address, b \in Edges \cup {parked[second]}},
         len : {[l \in lens |-> IF l \in varied THEN n[l] ELSE Usual[l]] :
                    n \in [varied -> Lengths]}]

MCCalls ==
    UNION {UNION {CallsOf(e, r, s) : r, s \in Args(Functions[e])} : e \in Entries}
=============================================================================
