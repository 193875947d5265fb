SPECIFICATION Spec
CONSTANTS
  Vertex <- MCVertex
  Arc <- MCArc
  Source <- SourceOf
  Target <- TargetOf
  WeightFn <- MCWeightFn
  TurnTables <- MCTurnTables
INVARIANT ComputesShortestPath
CHECK_DEADLOCK FALSE
