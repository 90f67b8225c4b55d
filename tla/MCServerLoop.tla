---------------------------- MODULE MCServerLoop ----------------------------
(* ServerLoop on a small instance. *)
EXTENDS ServerLoop
=============================================================================
