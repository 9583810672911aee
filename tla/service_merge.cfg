\* Merges between three branches in any parent relation.
SPECIFICATION Spec
CONSTANTS
  Main = main
  Branch = {main, b1, b2}
  Memory = {m1}
  Legacy = {m1}
  Version = {v1}
  Null = Null
  MaxLineage = 3
  MaxTime = 1
  Client = {c1}
  Overlap = FALSE
  Crashes = FALSE
  Strategies = {"source", "target"}
SYMMETRY Symmetry
INVARIANTS MergeConverges ViewsAgree
PROPERTIES ImplementsStore
