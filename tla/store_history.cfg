\* Main and a branch, two contents, a legacy row and three instants.
SPECIFICATION Spec
CONSTANTS
  Main = main
  Branch = {main, b1}
  Memory = {m1}
  Legacy = {m1}
  Version = {v1, v2}
  Null = Null
  MaxLineage = 2
  MaxTime = 2
SYMMETRY Symmetry
INVARIANTS TypeOK Ledger
PROPERTIES HistoryIsFinal
