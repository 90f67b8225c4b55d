---------------------------- MODULE MCLoopStream ----------------------------
(* LoopStream on a small instance. *)
EXTENDS LoopStream
=============================================================================
