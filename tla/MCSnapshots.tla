----------------------------- MODULE MCSnapshots -----------------------------
(* Instances of Snapshots for TLC. *)
EXTENDS Snapshots, TLC

CONSTANTS i1, i2

(* A clean report, one find, and another in its place. *)
MCReports ==
  {[found |-> {}, severity |-> "none"],
   [found |-> {i1}, severity |-> "high"],
   [found |-> {i2}, severity |-> "none"]}

Symmetry == Permutations(Bulk) \cup Permutations(Stepwise)
=============================================================================
