---------------------------- MODULE MCWlCallbacks ----------------------------
(* Small heaps for WlCallbacks.                                              *)
EXTENDS WlCallbacks
=============================================================================
