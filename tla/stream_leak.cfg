\* Two starts at once, then a stop.
SPECIFICATION Spec
CONSTANTS
  Runtime = {r1, r2, r3}
  File = {f1}
  Client = {c1, c2}
  Null = Null
  Ttl = 2
  Dedupe = 1
  Window = 2
  MaxPerWindow = 1
  MaxEvents = 0
  MaxTime = 1
SYMMETRY Symmetry
INVARIANTS StopStopsWatcher
