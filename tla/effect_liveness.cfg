\* One executor and one recoverer that may resume, under fairness, with the
\* weak resolver (plain) and with the strong one.
SPECIFICATION FairMCSpec
CONSTANTS
  None = None
  key = key  noop = noop  a = a  c0 = c0  c1 = c1  c2 = c2
  e = e  e1 = e1  e2 = e2  r = r  r1 = r1  r2 = r2
  Deployments = {"plain", "strong"}
  Keys = {key}
  Noops = {}
  Gated = {}
  Verifiable = {key}
  Approvals = {}
  Caps = {c0}
  Executors = {e}
  Recoverers = {r}
  MaxAttempts = 2
  MaxMutations = 1
  HasResumer = TRUE
  NotFoundProvesNoEffect = FALSE
CHECK_DEADLOCK FALSE
INVARIANTS TypeOK
PROPERTIES ResolvedOrEscalated ImplementsContract
