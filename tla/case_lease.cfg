SPECIFICATION MCSpec
CONSTANTS
  Settings = {"given"}
  w1 = w1
  w2 = w2
  c1 = c1
  c2 = c2
  Workers <- TwoWorkers
  Clients <- OneClient
  MaxWorks = 3
  MaxClaims = 2
  MaxToolCalls = 1
  MaxResumes = 1
  MaxVerifications = 1
  MaxNoProgress = 1
  HasEffect = FALSE
  Redelivers = TRUE
  PollsReports = TRUE
SYMMETRY Interchangeable
INVARIANTS TypeOK ClosedAsEvaluated PauseKeepsWork
PROPERTIES ResumeSeesNoForeignChange
CHECK_DEADLOCK FALSE
