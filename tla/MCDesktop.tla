----------------------------- MODULE MCDesktop ------------------------------
(* Desktop on a small instance. *)
EXTENDS Desktop, TLC

Symmetry == Permutations(Views \ XViews)
=============================================================================
