SPECIFICATION RoadSpec
CONSTANTS
  Id <- MCId
  Models <- MCModels
  Extracts <- MCExtracts
  MaxRead = 4
INVARIANTS
  TypeOK
  EdgesIndexed
  StreetsJoined
  TurnsForbidden
  NetworkRecovered
PROPERTY NetworkBuilt
CHECK_DEADLOCK FALSE
