\* A grandchild writes what its parent has deleted.
SPECIFICATION Spec
CONSTANTS
  Main = main
  Branch = {main, b1, b2}
  Memory = {m1}
  Legacy = {m1}
  Version = {v1, v2}
  Null = Null
  MaxLineage = 3
  MaxTime = 1
SYMMETRY Symmetry
INVARIANTS OverlayVisible
