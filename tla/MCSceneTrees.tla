---------------------------- MODULE MCSceneTrees ----------------------------
(* SceneTrees on a small instance. *)
EXTENDS SceneTrees, TLC

Symmetry == Permutations(Windows)
=============================================================================
