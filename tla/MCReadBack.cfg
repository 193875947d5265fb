SPECIFICATION Spec
CONSTANTS
  Vertex <- MCVertex
  Town <- MCLongTown
  Trip <- MCLongTrip
PROPERTY RoutesReadBack
CHECK_DEADLOCK FALSE
