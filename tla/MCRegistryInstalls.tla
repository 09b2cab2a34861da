------------------------- MODULE MCRegistryInstalls -------------------------
(* Instances of RegistryInstalls for TLC. *)
EXTENDS RegistryInstalls, TLC

CONSTANT u \* the unknown count

(* 0 is skills.sh and 1 skillsmp; the counts tell their registry.  (The      *)
(* skillsmp collector of today only reports the unknown count; the           *)
(* repository takes a count from any registry.)                              *)
MCCounts == 0 :> {u, 1} @@ 1 :> {2}

Symmetry == Permutations(Workers)
=============================================================================
