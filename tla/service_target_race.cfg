\* A target-wins merge and an upsert of the target at once.
SPECIFICATION Spec
CONSTANTS
  Main = main
  Branch = {main, b1}
  Memory = {m1}
  Legacy = {}
  Version = {v1}
  Null = Null
  MaxLineage = 3
  MaxTime = 1
  Client = {c1, c2}
  Overlap = TRUE
  Crashes = FALSE
  Strategies = {"target"}
SYMMETRY Symmetry
PROPERTIES TargetRowsKept
