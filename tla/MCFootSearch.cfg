SPECIFICATION FootSpec
CONSTANTS
  Vertex <- MCVertex
  Arcs <- MCArcs
  Networks <- MCNetworks
  WeightFns <- MCWeightFns
  TargetLists <- MCTargetLists
INVARIANTS
  TypeOK
  RoutesShortest
  DetourBounded
PROPERTY QueryAnswered
CHECK_DEADLOCK FALSE
