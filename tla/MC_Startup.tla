----------------------------- MODULE MC_Startup -----------------------------
(* An unsigned int of 5 bits and a KB of 4 bytes: 8 KB overflow to 0, 9 KB  *)
(* to 1.  The statistics are those of databases with and without free room. *)
EXTENDS Startup

SomePorts == {0, 7, 15, 16, 31}
SomeChunkSizes == {0, 1, 3, 7, 8, 9, 31}
SomeChunkCounts == {0, 1, 2, 31}
SomeLengths == {1, 3, 4, 5, 11, 12, 13, 31, 32, 867}
SomeSizes == {0, 1, 4, 5, 8}
SomeObjects == {0, 1, 3, 5}
=============================================================================
