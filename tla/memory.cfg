SPECIFICATION MCSpec
CONSTANTS
  None = None
  sk = sk
  ex = ex
  fo = fo
  p1 = p1
  p2 = p2
  w1 = w1
  w2 = w2
  Docs = {ex}
  Doc <- ThreeDocs
  Spaces = {p1}
  Workers = {w1, w2}
  Serves <- OneTenant
  Query <- BankQuery
  SearchLimit = 1
  MaxFaults = 2
INVARIANTS IndexIsSound CandidatesAreRight GuidanceIsSafe
PROPERTIES RetrievalIsExact EventuallyReady
CHECK_DEADLOCK FALSE
