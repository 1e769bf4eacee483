SPECIFICATION MCLiveSpec
CONSTANTS
  Attested = FALSE
  Scenarios = {"S5"}
  Queries = {}
  FaultMenu = {}
  Changes = {}
  AllowedTools = {}
  MaxCalls = 8
  MaxChanges = 0
  MaxFaults = 1
  MaxHistory = 20
  MaxPreview = 4
  Model = "any"
  MaxTurns = 8
  MaxReplans = 1
  MaxNoProgress = 2
  WaitTime = 60
  MaxOperator = 1
  MaxLost = 1
  MaxFences = 1
  MaxResumes = 3
PROPERTIES CallsAreJustified SafetyFirst RunEnds FinalityIsLearned
