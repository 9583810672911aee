\* Two requests at once, on one key or on two, and crashes between any two statements.
SPECIFICATION Spec
CONSTANTS
  Main = main
  Branch = {main, b1}
  Memory = {m1}
  Legacy = {m1}
  Version = {v1}
  Null = Null
  MaxLineage = 3
  MaxTime = 2
  Client = {c1, c2}
  Overlap = TRUE
  Crashes = TRUE
  Strategies = {}
CONSTRAINT Few
SYMMETRY Symmetry
INVARIANTS LedgerUnlessSuspect NoLostDelete
PROPERTIES SettledHistoryIsFinal
