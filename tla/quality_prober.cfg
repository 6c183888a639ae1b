SPECIFICATION Spec
CONSTANTS
  a = a
  b = b
  Feed = Feed
  Dashboard = Dashboard
  Show <- MCShow
  Programmes <- MCProgrammes
  Concurrency = 1
  Suppliers = 2
  Old = Old
INVARIANTS
  NoPhantomQuality
  OnlySettledCached
  AvailabilityIsOwn
CHECK_DEADLOCK FALSE
