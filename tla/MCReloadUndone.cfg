SPECIFICATION Spec
CONSTANTS
  pinned = pinned
  renamed = renamed
  lost = lost
  broken = broken
  a1 = a1
  a2 = a2
  h1 = h1
  h2 = h2
  NoAddress = NoAddress
  NoConfig = NoConfig
  Config <- MCConfig
  Valid <- MCValid
  Resolves <- MCResolves
  NameOf <- MCNameOf
  PinOf <- MCPinOf
  Address <- MCAddress
  Handler <- MCHandler
  MaxRuns = 2
  MaxEdits = 1
  MaxOutages = 0
  MaxFaults = 0
PROPERTIES
  NeverUndone
CHECK_DEADLOCK FALSE
