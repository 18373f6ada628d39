---------------------------- MODULE MCRingBuffer ----------------------------
(* Small instance of RingBuffer. *)
EXTENDS RingBuffer
=============================================================================
