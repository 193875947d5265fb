SPECIFICATION Spec
CONSTANTS
  Vertex <- MCVertex
  Arc <- MCArc
  Source <- SourceOf
  Target <- TargetOf
  WeightFn <- MCWeightFn
  TurnTables <- MCTurnTables
INVARIANTS
  TypeOK
  SettledOrder
  PredecessorTree
  NoShortcut
  AnswerLegal
  AnswerShortest
PROPERTY QueryAnswered
CHECK_DEADLOCK FALSE
