SPECIFICATION Spec
CONSTANTS
  None = None
  MaxPolicies = 4
  Templates <- MCTemplates
  Requests <- MCRequests
INVARIANT DecisionMatchesReference
PROPERTY RowFilterOutlivesWeakerPolicies
CHECK_DEADLOCK FALSE
