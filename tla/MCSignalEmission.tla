-------------------------- MODULE MCSignalEmission --------------------------
(* SignalEmission on a small instance. *)
EXTENDS SignalEmission
=============================================================================
