--------------------------- MODULE MCMemoryService ---------------------------
(* Small instances of MemoryService.  Contents, requests and the branches other *)
(* than Main are interchangeable.                                               *)
EXTENDS MemoryService, TLC

Symmetry ==
  Permutations(Branch \ {Main}) \cup Permutations(Version) \cup Permutations(Client)

\* The bound of service_overlap: two different snapshots, one more in the last step
\* of a behaviour, and one key torn.
Few ==
  /\ Cardinality(UNION {snaps[b][m] : b \in Branch, m \in Memory}) <= 2
  /\ Cardinality(torn) <= 1
=============================================================================
