----------------------------- MODULE MCGeometry -----------------------------
(* Two outputs of two pixels; whole, half and quarter positions.           *)
EXTENDS Geometry
=============================================================================
