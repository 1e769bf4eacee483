\* Documented promise about abandoned attempts.
SPECIFICATION FairMCSpec
CONSTANTS
  None = None
  key = key  noop = noop  a = a  c0 = c0  c1 = c1  c2 = c2
  e = e  e1 = e1  e2 = e2  r = r  r1 = r1  r2 = r2
  Deployments = {"plain"}
  Keys = {key}
  Noops = {}
  Gated = {}
  Verifiable = {key}
  Approvals = {}
  Caps = {c0}
  Executors = {e}
  Recoverers = {r}
  MaxAttempts = 2
  MaxMutations = 0
  HasResumer = FALSE
  NotFoundProvesNoEffect = FALSE
CHECK_DEADLOCK FALSE
PROPERTIES AbandonedAttemptIsMarked
