----------------------- MODULE MC_LocalMemoryGridFile -----------------------
(***************************************************************************)
(* Two chunks of four bytes.  The kernel writes whole or partial pages of  *)
(* two bytes from the start of a page; AnyOffsets adds the last byte of a  *)
(* chunk, where an append may start.                                       *)
(***************************************************************************)
EXTENDS LocalMemoryGridFile, TLC

PageOffsets == {0, 2, 4}
Symmetry == Permutations(Data)
AnyOffsets == {0, 2, 3, 4}
=============================================================================
