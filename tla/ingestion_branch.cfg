CONSTANTS
  Source = {t}
  Chats = {t}
  Content <- MCContent
  Blank = "blank"
  Absent = Absent
  Ingest = {p, q}
  MaxEdits = 1
  MaxMishaps = 1
  Undefined = Undefined
  NotFound = NotFound
  NoJob = NoJob
  Pending = Pending
SPECIFICATION Spec
INVARIANT BranchSourceExact
CHECK_DEADLOCK FALSE
