\* Administration of the registry, and its use by a Case.
SPECIFICATION MCSpec
CONSTANTS
  NULL = NULL
  None = None
  ed = ed  act = act  s1 = s1  k1 = k1
  g1 = g1  g2 = g2  g3 = g3  n1 = n1  n2 = n2  code = code 
  Users <- TwoPeople
  RolesOf <- DutiesApart
  Systems <- OneSystem
  Workbooks <- AllBooks
  CompanySheets <- FixedSheets
  Deployed <- WithCredential
  MaxRequests = 2
  MaxRevision = 1
  MaxPreviews = 2
  Bodies <- ManyBodies
  Routes <- ManyRoutes
  Case <- OldCase
  Contract <- AllContracts
  Protocols = {"v1", "v2"}
  Bindings <- AllBindings
  MaxActivations = 2
  MaxCalls = 2
INVARIANTS RegistryIsSound CallsReadTheirSource ProtocolIsProven
PROPERTIES ChangesAreReviewed PreviewWasTrue ActivationIsUnderstood
CHECK_DEADLOCK FALSE
