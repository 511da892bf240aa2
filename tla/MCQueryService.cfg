SPECIFICATION Spec
CONSTANTS
  None = None
  Queries = {q1}
  Users = {"bob"}
  Tables <- MCTables
  Endpoints = {"e1", "e2"}
  Catalogs <- MCCatalogs
  PolicyLists <- MCPolicyLists
  Requests <- MCRequests
  Faults = TRUE
INVARIANT TypeOK
INVARIANT HiddenLooksMissing
INVARIANT EventsInOrder
PROPERTY ImplementsCatalogView
PROPERTY ImplementsPolicyView
PROPERTY CatalogReachesQueries
PROPERTY QueryEnds
