SPECIFICATION Spec
CONSTANTS
  pinned = pinned
  renamed = renamed
  lost = lost
  broken = broken
  a1 = a1
  a2 = a2
  h1 = h1
  h2 = h2
  NoAddress = NoAddress
  NoConfig = NoConfig
  Config <- MCConfig
  Valid <- MCValid
  Resolves <- MCResolves
  NameOf <- MCNameOf
  PinOf <- MCPinOf
  Address <- MCAddress
  Handler <- MCHandler
  MaxRuns = 3
  MaxEdits = 1
  MaxOutages = 1
  MaxFaults = 1
INVARIANTS
  TypeOK
  ConfigInEffect
  OneRunIsCurrent
  DeviceIsCurrent
PROPERTIES
  ReloadTakesEffect
  TrafficReturns
CHECK_DEADLOCK FALSE
