\* One request at a time, in steps, and crashes between any two statements.
SPECIFICATION Spec
CONSTANTS
  Main = main
  Branch = {main, b1}
  Memory = {m1}
  Legacy = {m1}
  Version = {v1, v2}
  Null = Null
  MaxLineage = 3
  MaxTime = 1
  Client = {c1}
  Overlap = FALSE
  Crashes = TRUE
  Strategies = {"source", "target"}
SYMMETRY Symmetry
INVARIANTS TypeOK
PROPERTIES OnlyCrashesTear TargetRowsKept
