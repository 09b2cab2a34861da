-------------------------- MODULE MCAnalysisSpool --------------------------
(* Instances of AnalysisSpool for TLC. *)
EXTENDS AnalysisSpool, TLC

(* uuids are only compared; repository ids are ordered, so they are not symmetric. *)
TokenSymmetry == Permutations(Tokens)

ProcessSymmetry == Permutations(Producers) \cup Permutations(Ingesters)

Symmetry == TokenSymmetry \cup ProcessSymmetry
=============================================================================
