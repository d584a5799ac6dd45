---------------------------- MODULE MCCH3Pt2pt ----------------------------
(* Instances of CH3Pt2pt for TLC. *)
EXTENDS CH3Pt2pt, TLC

HandleSymmetry == Permutations(SHandles) \cup Permutations(RHandles)
=============================================================================
