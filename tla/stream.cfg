\* Two requests that start and stop a stream, three events of two files, four instants.
SPECIFICATION FairSpec
CONSTANTS
  Runtime = {r1, r2}
  File = {f1, f2}
  Client = {c1, c2}
  Null = Null
  Ttl = 3
  Dedupe = 2
  Window = 2
  MaxPerWindow = 2
  MaxEvents = 3
  MaxTime = 4
INVARIANTS TypeOK NoLostWakeup NoneOutlivesTtl RateLimited NoDeadStream
PROPERTIES Deduplicated QueueDrains
