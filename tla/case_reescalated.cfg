SPECIFICATION MCSpec
CONSTANTS
  Settings = {"given"}
  w1 = w1
  w2 = w2
  c1 = c1
  c2 = c2
  Workers <- OneWorker
  Clients <- NoClient
  MaxWorks = 4
  MaxClaims = 1
  MaxToolCalls = 0
  MaxResumes = 1
  MaxVerifications = 0
  MaxNoProgress = 2
  HasEffect = TRUE
  Redelivers = FALSE
  PollsReports = FALSE
SYMMETRY Interchangeable
INVARIANTS EscalatedHasFollowup
CHECK_DEADLOCK FALSE
