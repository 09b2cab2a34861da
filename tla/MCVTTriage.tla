----------------------------- MODULE MCVTTriage -----------------------------
(* Small instances of VTTriage for TLC.                                     *)
EXTENDS VTTriage, TLC

(* Rows and priorities are ordered; indicators and processes are not. *)
Symmetry == Permutations(Indicators) \cup Permutations(Runners) \cup Permutations(Enqueuers)
=============================================================================
