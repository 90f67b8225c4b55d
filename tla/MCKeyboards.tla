---------------------------- MODULE MCKeyboards -----------------------------
(* Two keyboards and two surfaces.                                         *)
EXTENDS Keyboards
=============================================================================
