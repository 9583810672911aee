\* Both schedulers: triggers, stops and restarts around five runs.
SPECIFICATION FairSpec
CONSTANTS
  Configs <- AllConfigs
  HistoryLimit = 2
  RetentionLimit = 3
  Saturation = 2
  SaveFails = TRUE
  MaxRuns = 5
INVARIANTS TypeOK OneRun NeverStalls BackoffEarned RestartAgrees
PROPERTIES RunsGoOn
