----------------------------- MODULE MCInstances -----------------------------
(***************************************************************************)
(* Instances of Instances for TLC: three runs are interchangeable.         *)
(***************************************************************************)
EXTENDS Instances, TLC

RunSymmetry == Permutations(Run)
==============================================================================
