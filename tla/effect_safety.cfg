\* Safety of the boundary: two recoverers against a slow sender (plain), two
\* executions against a resumed recovery (race), approvals and a no-op (gate).
SPECIFICATION MCSpec
CONSTANTS
  None = None
  key = key  noop = noop  a = a  c0 = c0  c1 = c1  c2 = c2
  e = e  e1 = e1  e2 = e2  r = r  r1 = r1  r2 = r2
  Deployments = {"plain", "race", "gate"}
  Keys = {key}
  Noops = {}
  Gated = {}
  Verifiable = {key}
  Approvals = {}
  Caps = {c0}
  Executors = {e}
  Recoverers = {r1, r2}
  MaxAttempts = 2
  MaxMutations = 1
  HasResumer = FALSE
  NotFoundProvesNoEffect = FALSE
SYMMETRY Symmetry
CHECK_DEADLOCK FALSE
INVARIANTS AtMostOneSend LedgerBeforeWire SettledIsTrue RecoveryAgrees NoEffectIsForgotten
PROPERTIES NoEffectAfterClosure LedgerNeverRegresses GatedDispatchIsAuthorized
