-------------------------- MODULE MCGraphProjection --------------------------
(* Instances of GraphProjection for TLC. *)
EXTENDS GraphProjection
=============================================================================
