SPECIFICATION Spec
CONSTANTS
  MaxVersion = 4
  MaxFaults = 2
  Unparsable = {2}
  Irregular = {3}
INVARIANTS
  TypeOK
  UpdateRepairs
  OneFaultConsistent
  CacheMatchesMemory
PROPERTY RefreshEnds
