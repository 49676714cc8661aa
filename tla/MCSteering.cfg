SPECIFICATION SteeringSpec
CONSTANTS
  Profiles = {p1, p2, long}
  LongNames = {long}
  Truncated = Truncated
  Scales <- MCScales
  CacheMax = 3
  None = None
  Unset = Unset
PROPERTIES
  LoadedDefaultIsRestored
