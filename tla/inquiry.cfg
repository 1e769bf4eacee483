SPECIFICATION MCSpec
CONSTANTS
  Attested = TRUE
  Scenarios = {"S3"}
  Queries = {}
  FaultMenu = {}
  Changes = {}
  Repairs = {}
  Sweep = {}
  Drafts = {}
  MaxCalls = 12
  MaxChanges = 1
  MaxFaults = 1
  MaxEvents = 2
  MaxPlans = 1
  WaitTime = 12
  MaxAge = 14
  Grace = 5
INVARIANTS InquiryIsSound VerdictIsSafe SweepDecides PlanIsBorneOut
