CONSTANTS
  r1 = r1
  r2 = r2
  s1 = s1
  None = None
  MaxClears = 1
  Requests <- MCRequests
  Modes <- MCModes
  Signalled <- MCSignalled
  Sources <- MCSources
  Offer <- MCOffer
  Repo <- MCRepo
SPECIFICATION Spec
INVARIANTS ResolverInv NotFoundIsHonest
PROPERTIES RequestsAnswered
CHECK_DEADLOCK FALSE
