---------------------------- MODULE MCSpscQueue -----------------------------
(* Small instance of SpscQueue. *)
EXTENDS SpscQueue
=============================================================================
