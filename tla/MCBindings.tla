----------------------------- MODULE MCBindings -----------------------------
(* Bindings with four-bit and three-bit integers in place of 32 and 16     *)
(* bits, and values of every type in data pointers: those tinyjl keeps     *)
(* there, those no module registers, structures that live on the Janet     *)
(* heap, and types of xcb, whose handles jl.h does not take for its own.   *)
EXTENDS Bindings

AllTypes == DOMAIN Types
=============================================================================
