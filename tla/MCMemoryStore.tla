--------------------------- MODULE MCMemoryStore ---------------------------
(* Small instances of MemoryStore.  Versions are interchangeable, and so    *)
(* are the branches but for Main.                                           *)
EXTENDS MemoryStore, TLC

Symmetry == Permutations(Branch \ {Main}) \cup Permutations(Version)
=============================================================================
