\* Two machines and up to four disturbances of any kind.
SPECIFICATION Spec
CONSTANTS
  n1 = n1
  n2 = n2
  Node = {n1, n2}
  Address <- Pool
  NoAddress = NoAddress
  Events = {"command", "outage", "reinstall", "restart", "lose", "traffic"}
  MaxEvents = 4
INVARIANTS
  TypeOK
  StatusKnown
  LinkedIsRegistered
PROPERTIES
  FollowsServer
