---------------------------- MODULE MC_Namespace ----------------------------
(***************************************************************************)
(* Seven paths: the root, two names in it and two in each of these.        *)
(***************************************************************************)
EXTENDS Namespace, TLC

Symmetry == Permutations(Ids) \cup Permutations(Mounts) \cup Permutations(Components)
=============================================================================
