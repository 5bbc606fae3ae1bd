---------------------------- MODULE MC_MGridFS ----------------------------
(***************************************************************************)
(* Small instances of MGridFS.tla.                                         *)
(***************************************************************************)
EXTENDS MGridFS, TLC

TwoSymmetry == Permutations(Mounts) \cup Permutations(Ids) \cup Permutations(Attrs)
=============================================================================
