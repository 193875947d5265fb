SPECIFICATION Spec
CONSTANTS
  MaxVersion = 4
  MaxFaults = 1
  Unparsable = {2}
  Irregular = {3}
INVARIANT CachedModelRetrieved
