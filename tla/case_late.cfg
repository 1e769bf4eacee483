SPECIFICATION MCSpec
CONSTANTS
  Settings = {"given"}
  w1 = w1
  w2 = w2
  c1 = c1
  c2 = c2
  Workers <- OneWorker
  Clients <- TwoClients
  MaxWorks = 3
  MaxClaims = 1
  MaxToolCalls = 1
  MaxResumes = 1
  MaxVerifications = 1
  MaxNoProgress = 1
  HasEffect = FALSE
  Redelivers = FALSE
  PollsReports = FALSE
SYMMETRY Interchangeable
INVARIANTS WaitingHasTimer
CHECK_DEADLOCK FALSE
