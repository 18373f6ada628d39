-------------------------- MODULE MCStaticDmaPool ---------------------------
(* Small instances of StaticDmaPool. *)
EXTENDS StaticDmaPool
=============================================================================
