\* Two tokens listed, one of which is official and hides its calldata, and a third to be launched.
SPECIFICATION Spec
CONSTANTS
  Launches = {1, 2, 3}
  FirstLaunches = 2
  Wrapped = {1}
  Official = 1
  PageSize = 1
  Sorts = {"NEW", "TRENDING"}
  None = None
  MaxWork = 2
  MaxVisits = 1
INVARIANTS
  TraversalComplete
  MissIsEvidence
  AuditExplainsStatus
CHECK_DEADLOCK FALSE
