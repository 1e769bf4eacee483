\* A remediation effect beside the work of the Case, with fairness.
SPECIFICATION MCLiveSpec
CONSTANTS
  Settings = {"given", "long"}
  w1 = w1
  w2 = w2
  c1 = c1
  c2 = c2
  Workers <- OneWorker
  Clients <- NoClient
  MaxWorks = 4
  MaxClaims = 2
  MaxToolCalls = 1
  MaxResumes = 2
  MaxVerifications = 1
  MaxNoProgress = 2
  HasEffect = TRUE
  Redelivers = FALSE
  PollsReports = FALSE
INVARIANTS CyclesAreAccounted
PROPERTIES LongWaitIsHonoured GivenClaimedWorkEnds
CHECK_DEADLOCK FALSE
