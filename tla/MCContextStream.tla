--------------------------- MODULE MCContextStream ---------------------------
(* Small instances of ContextStream; clients and runtimes are interchangeable. *)
EXTENDS ContextStream, TLC

Symmetry == Permutations(Runtime) \cup Permutations(Client) \cup Permutations(File)
=============================================================================
