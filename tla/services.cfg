SPECIFICATION ServicesSpec
CONSTANTS
  Script <- MCScript NoAnswer = NoAnswer ToDaemon = ToDaemon
  Client = {"k"} Project = {"p"} NoProject = "none" RingSize = 2 ReplayLimit = 1 MaxBuffered = 2 MaxEvents = 3
  MainId = {"a"} BranchId = {"x"} ProjectOf <- MCProjectOf AllProjects = "all"
  Match = "match" Other = "other" Absent = "absent" Task = {"t", "u"} TopK = 1 MaxCalls = 2
  RowCount = 2 ProjectOfRow <- MCProjectOfRow Projects = {"p", "q"} Environment <- MCEnvironment Windows = {0, 1} MaxOps = 3
  Caller = {"c", "d"} Trainer = {1, 2} Settings <- MCSettings MaxAsks = 1 MaxCrashes = 1
CHECK_DEADLOCK FALSE
INVARIANTS ServicesTypeOK RequestsAnsweredOnce CallsEarned StreamUnbroken IndexSound ContentKept  LlmSound
PROPERTIES ServicesProgress
