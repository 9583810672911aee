SPECIFICATION KnowledgeSpec
CONSTANTS
  AtomId = {"1", "2", "3"} AtomProject = {"p", "q"} Word = {"w", "v"} Atoms <- MCAtoms SearchSize = 2
  Evolver = {"s"} Percents = {10, 85} Agents <- MCAgents NoAgent = "route" MaxCandidates = 2 DraftId = {"1", "2"} Drafts <- MCDrafts
  KeptId = {"1", "2"} Contents <- MCContents NoSession = "none" FileOrder <- MCFileOrder
  ListLimit = 2 SnapLimit = 2 MaxLinks = 2 LastDay = 1
  Vertex = {"x", "y", "z"} LibraryEdge <- MCLibraryEdge WalkOptions <- MCWalkOptions MaxEdges = 3
  Source = {t} Chats = {t} Content <- MCContent Blank = "blank" Absent = Absent Ingest = {p, q} MaxEdits = 1 MaxMishaps = 1
  Undefined = Undefined NotFound = NotFound NoJob = NoJob Pending = Pending
CHECK_DEADLOCK FALSE
INVARIANTS KnowledgeTypeOK SourceExact FilesExact TextKept AtomsSound GraphSound
