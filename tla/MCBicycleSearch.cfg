SPECIFICATION Spec
CONSTANTS
  Vertex <- MCVertex
  Town <- MCTown
  Trip <- MCTrip
INVARIANTS
  TypeOK
  MergeExact
  LabelsReal
  TargetCovered
  AnswerSpread
PROPERTY QueryAnswered
CHECK_DEADLOCK FALSE
