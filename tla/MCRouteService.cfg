SPECIFICATION Spec
CONSTANTS
  c1 = c1
  c2 = c2
  Nobody = Nobody
  NoId = "-"
  FirstVertex = "v0"
  Client <- MCClient
  Id <- MCId
  Document <- MCDocument
  Nearby <- MCNearby
  Model <- MCModel
  Vertex <- MCVertex
  VertexOf <- MCVertexOf
  Outcome <- MCOutcome
INVARIANTS
  TypeOK
  SolverFound
  TripTimed ResponsePublished
PROPERTIES
  RefinesAtomic
  RequestAnswered
